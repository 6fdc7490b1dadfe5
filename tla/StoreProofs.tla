------------------------------ MODULE StoreProofs ------------------------------
(***************************************************************************)
(* Proofs that the reference provider keeps its promises, for any inputs.  *)
(***************************************************************************)
EXTENDS StoreProperties, ResolutionProofs

USE DEF cache, inputs

----------------------------------------------------------------------------
(* Types *)

\* The resolver's outcome is of one of the three kinds.
LEMMA ResolveKinds ==
    ASSUME NEW C, NEW prop, NEW at, NEW av
    PROVE  LET r == ResolveState(C, prop, at, av)
               U == Usable(C, prop, at, av)
           IN  /\ U = {} => /\ r.kind = "unknown"
                            /\ r.as_of = at
                            /\ r.reason \in UnknownReasons
               /\ (U # {} /\ Agree(U)) => r = Assertion(prop, at, U)
               /\ (U # {} /\ ~Agree(U)) => r = Conflict(prop, at, U)
BY DEF ResolveState, Unknown, UnknownReason, UnknownReasons

\* What the constructors accept of the resolver's outcome is well typed.
LEMMA ResolveTyped ==
    ASSUME NEW C, NEW prop \in Propositions, NEW at \in Time, NEW av,
           Constructible(ResolveState(C, prop, at, av))
    PROVE  LET r == ResolveState(C, prop, at, av)
           IN  TypedAssertion(r) \/ TypedUnknown(r) \/ TypedConflict(r)
<1> DEFINE r == ResolveState(C, prop, at, av)
           U == Usable(C, prop, at, av)
<1>1. CASE U = {}
  <2>1. TypedUnknown(r)
    BY <1>1, ResolveKinds DEF TypedUnknown
  <2> QED BY <2>1
<1>2. CASE U # {} /\ Agree(U)
  <2>1. r = Assertion(prop, at, U)
    BY <1>2, ResolveKinds
  <2>2. TypedAssertion(r)
    BY <2>1 DEF TypedAssertion, Assertion, Constructible
  <2> QED BY <2>2
<1>3. CASE U # {} /\ ~Agree(U)
  <2>1. r = Conflict(prop, at, U)
    BY <1>3, ResolveKinds
  <2>2. TypedConflict(r)
    BY <2>1 DEF TypedConflict, Conflict, Constructible
  <2> QED BY <2>2
<1> QED BY <1>1, <1>2, <1>3

\* Caching typed results keeps the types and the bookkeeping.
LEMMA RegisterTyped ==
    ASSUME TypeOK, NEW results, NEW scope \in Scopes \cup {None},
           \A x \in results : TypedAssertion(x) \/ TypedUnknown(x) \/ TypedConflict(x),
           Register(results, scope)
    PROVE  TypeOK'
<1>1. /\ \A a \in assertions' : TypedAssertion(a)
      /\ \A x \in unknowns' : TypedUnknown(x)
      /\ \A x \in conflicts' : TypedConflict(x)
  BY DEF TypeOK, Register, TypedAssertion, TypedUnknown, TypedConflict
<1>2. Outcomes' = Outcomes \cup results
  BY DEF Outcomes, Register, TypedAssertion, TypedUnknown, TypedConflict
<1>3. outcome_scopes' = outcome_scopes \cup (results \X {scope})
  BY DEF Register
<1>4. outcome_scopes' \subseteq Outcomes' \X (Scopes \cup {None})
  BY <1>2, <1>3 DEF TypeOK
<1>5. \A x \in Outcomes' : \E s \in Scopes \cup {None} : <<x, s>> \in outcome_scopes'
  BY <1>2, <1>3 DEF TypeOK
<1>6. UNCHANGED <<observations, evidence, claims, transitions>>
  BY DEF Register
<1> QED BY <1>1, <1>4, <1>5, <1>6 DEF TypeOK

\* A store keyed by id stays one.
LEMMA PutUniqueKeepsIds ==
    ASSUME NEW store, IdsUnique(store), NEW U, NEW value \in U, store \subseteq U
    PROVE  /\ IdsUnique(PutUnique(store, value))
           /\ store \subseteq PutUnique(store, value)
           /\ PutUnique(store, value) \subseteq U
BY DEF IdsUnique, PutUnique

\* A new store is well typed.
LEMMA TypeOKInit == Init => TypeOK
BY DEF Init, TypeOK, IdsUnique, Outcomes

\* Every operation keeps the store well typed.
LEMMA TypeOKNext == TypeOK /\ [Next]_vars => TypeOK'
<1> SUFFICES ASSUME TypeOK, [Next]_vars PROVE TypeOK'
  OBVIOUS
<1>1. ASSUME NEW o \in Observations, AddObservation(o) PROVE TypeOK'
  <2>1. /\ observations' = PutUnique(observations, o)
        /\ UNCHANGED <<evidence, claims, transitions, cache>>
    BY <1>1 DEF AddObservation
  <2>2. IdsUnique(observations') /\ observations' \subseteq Observations
    BY <2>1, PutUniqueKeepsIds DEF TypeOK
  <2> QED BY <2>1, <2>2 DEF TypeOK, Outcomes
<1>2. ASSUME NEW e \in Evidence, AddEvidence(e) PROVE TypeOK'
  <2>1. /\ evidence' = PutUnique(evidence, e)
        /\ UNCHANGED <<observations, claims, transitions, cache>>
    BY <1>2 DEF AddEvidence
  <2>2. IdsUnique(evidence') /\ evidence' \subseteq Evidence
    BY <2>1, PutUniqueKeepsIds DEF TypeOK
  <2> QED BY <2>1, <2>2 DEF TypeOK, Outcomes
<1>3. ASSUME NEW c \in Claims, AddClaim(c) PROVE TypeOK'
  <2>1. /\ claims' = PutUnique(claims, c)
        /\ UNCHANGED <<observations, evidence, transitions, cache>>
    BY <1>3 DEF AddClaim
  <2>2. IdsUnique(claims') /\ claims' \subseteq Claims
    BY <2>1, PutUniqueKeepsIds DEF TypeOK
  <2> QED BY <2>1, <2>2 DEF TypeOK, Outcomes
<1>4. ASSUME NEW from \in assertions \cup {None}, NEW to \in assertions \cup {None},
             NEW time \in TransitionTimes, AddTransition(from, to, time)
      PROVE  TypeOK'
  <2>1. transitions' = transitions \cup {BuildTransition(from, to, time)}
    BY <1>4 DEF AddTransition
  <2>2. UNCHANGED <<inputs, cache>>
    BY <1>4 DEF AddTransition
  <2>3. /\ BuildTransition(from, to, time).kind = "transition"
        /\ BuildTransition(from, to, time).transition_time \in Time
    BY TimeAssumption DEF BuildTransition
  <2> QED BY <2>1, <2>2, <2>3 DEF TypeOK, Outcomes
<1>5. ASSUME NEW prop \in Propositions, NEW at \in Time, QueryState(prop, at)
      PROVE  TypeOK'
  <2>1. /\ Constructible(StateAt(prop, at))
        /\ Register({StateAt(prop, at)}, None)
    BY <1>5 DEF QueryState
  <2>2. LET r == StateAt(prop, at)
        IN  TypedAssertion(r) \/ TypedUnknown(r) \/ TypedConflict(r)
    BY <2>1, ResolveTyped DEF StateAt
  <2> QED BY <2>1, <2>2, RegisterTyped
<1>6. ASSUME NEW rel \in Relations, NEW at \in Time, QueryRelation(rel, at)
      PROVE  TypeOK'
  <2>1. TypedUnknown(RelationAt(rel, at))
    BY DEF RelationAt, TypedUnknown, UnknownReasons
  <2> QED BY <1>6, <2>1, RegisterTyped DEF QueryRelation
<1>7. ASSUME NEW scope \in Scopes \cup {None}, NEW at \in Time, GetSnapshot(scope, at)
      PROVE  TypeOK'
  <2>1. /\ \A x \in SnapshotResults(scope, at) : Constructible(x)
        /\ Register(SnapshotResults(scope, at), scope)
    BY <1>7 DEF GetSnapshot
  <2>2. \A x \in SnapshotResults(scope, at) :
           TypedAssertion(x) \/ TypedUnknown(x) \/ TypedConflict(x)
    <3> SUFFICES ASSUME NEW x \in SnapshotResults(scope, at)
                 PROVE  TypedAssertion(x) \/ TypedUnknown(x) \/ TypedConflict(x)
      OBVIOUS
    <3>1. PICK c \in Selected(scope) :
             x = ResolveState(Selected(scope), c.proposition, at, Availability(at))
      BY DEF SnapshotResults
    <3>2. c.proposition \in Propositions
      BY ClaimsAssumption DEF Selected, TypeOK
    <3> QED BY <2>1, <3>1, <3>2, ResolveTyped
  <2> QED BY <2>1, <2>2, RegisterTyped
<1>8. CASE UNCHANGED vars
  BY <1>8 DEF TypeOK, vars, Outcomes
<1> QED BY <1>1, <1>2, <1>3, <1>4, <1>5, <1>6, <1>7, <1>8 DEF Next

\* The stores stay well typed and consistent with each other.
THEOREM TypeCorrect == Spec => []TypeOK
<1> QED BY TypeOKInit, TypeOKNext, PTL DEF Spec

----------------------------------------------------------------------------
(* What a step adds *)

\* Nothing registered or cached is ever lost.
LEMMA StoresGrow ==
    ASSUME [Next]_vars
    PROVE  /\ claims \subseteq claims' /\ evidence \subseteq evidence'
           /\ assertions \subseteq assertions' /\ conflicts \subseteq conflicts'
           /\ transitions \subseteq transitions'
           /\ outcome_scopes \subseteq outcome_scopes'
<1> USE DEF PutUnique
<1>1. ASSUME NEW o \in Observations, AddObservation(o)
      PROVE  UNCHANGED <<evidence, claims, transitions, cache>>
  BY <1>1 DEF AddObservation
<1>2. ASSUME NEW e \in Evidence, AddEvidence(e)
      PROVE  evidence \subseteq evidence' /\ UNCHANGED <<claims, transitions, cache>>
  BY <1>2 DEF AddEvidence
<1>3. ASSUME NEW c \in Claims, AddClaim(c)
      PROVE  claims \subseteq claims' /\ UNCHANGED <<evidence, transitions, cache>>
  BY <1>3 DEF AddClaim
<1>4. ASSUME NEW from, NEW to, NEW time, AddTransition(from, to, time)
      PROVE  transitions \subseteq transitions' /\ UNCHANGED <<claims, evidence, cache>>
  BY <1>4 DEF AddTransition
<1>5. ASSUME NEW results, NEW scope, Register(results, scope)
      PROVE  /\ UNCHANGED <<claims, evidence, transitions>>
             /\ assertions \subseteq assertions' /\ conflicts \subseteq conflicts'
             /\ outcome_scopes \subseteq outcome_scopes'
  BY <1>5 DEF Register
<1>6. CASE UNCHANGED vars
  BY <1>6 DEF vars
<1>7. ASSUME NEW prop, NEW at, QueryState(prop, at)
      PROVE  Register({StateAt(prop, at)}, None)
  BY <1>7 DEF QueryState
<1>8. ASSUME NEW scope, NEW at, GetSnapshot(scope, at)
      PROVE  Register(SnapshotResults(scope, at), scope)
  BY <1>8 DEF GetSnapshot
<1> QED BY <1>1, <1>2, <1>3, <1>4, <1>5, <1>6, <1>7, <1>8 DEF Next, QueryRelation

\* An outcome that a step caches was resolved from registered claims, at an
\* instant of the caller's, under the availability of that instant; the step
\* changes nothing but the cache.
Resolved(x, scope) ==
    \E prop \in Propositions, at \in Time :
        /\ x = ResolveState(Selected(scope), prop, at, Availability(at))
        /\ Constructible(x)

\* Without a scope a snapshot considers every claim.
LEMMA SelectedAll == Selected(None) = claims
BY DEF Selected, ScopeMatches

\* What a step newly caches, or files under a scope, it resolved from the
\* claims of that scope, and it changed no input.
LEMMA NewOutcomes ==
    ASSUME TypeOK, [Next]_vars, NEW x, NEW scope,
           \/ x \in (assertions' \cup conflicts') \ (assertions \cup conflicts)
           \/ /\ x \in assertions' \cup conflicts'
              /\ <<x, scope>> \in outcome_scopes' \ outcome_scopes
    PROVE  /\ UNCHANGED <<inputs, transitions>>
           /\ \E s \in Scopes \cup {None} : Resolved(x, s)
           /\ <<x, scope>> \in outcome_scopes' \ outcome_scopes
                 => Resolved(x, scope)
<1> SUFFICES /\ UNCHANGED <<inputs, transitions>>
             /\ \E s \in Scopes \cup {None} :
                   /\ Resolved(x, s)
                   /\ <<x, scope>> \in outcome_scopes' \ outcome_scopes => s = scope
  OBVIOUS
<1>1. CASE \/ \E o \in Observations : AddObservation(o)
           \/ \E e \in Evidence : AddEvidence(e)
           \/ \E c \in Claims : AddClaim(c)
           \/ \E from, to \in assertions \cup {None}, time \in TransitionTimes :
                 AddTransition(from, to, time)
           \/ UNCHANGED vars
  <2>1. UNCHANGED cache
    BY <1>1 DEF AddObservation, AddEvidence, AddClaim, AddTransition, vars
  <2> QED BY <2>1
<1>2. ASSUME NEW results, NEW s \in Scopes \cup {None}, Register(results, s)
      PROVE  /\ UNCHANGED <<inputs, transitions>>
             /\ x \in results
             /\ <<x, scope>> \in outcome_scopes' \ outcome_scopes => s = scope
  <2>1. \/ x \in (assertions' \cup conflicts') \ (assertions \cup conflicts)
        \/ <<x, scope>> \in outcome_scopes' \ outcome_scopes
    OBVIOUS
  <2>2. x \in (assertions' \cup conflicts') \ (assertions \cup conflicts) => x \in results
    BY <1>2 DEF Register
  <2>3. <<x, scope>> \in outcome_scopes' \ outcome_scopes => x \in results /\ s = scope
    BY <1>2 DEF Register
  <2> QED BY <1>2, <2>1, <2>2, <2>3 DEF Register
<1>3. ASSUME NEW prop \in Propositions, NEW at \in Time, QueryState(prop, at)
      PROVE  /\ UNCHANGED <<inputs, transitions>>
             /\ Resolved(x, None)
             /\ <<x, scope>> \in outcome_scopes' \ outcome_scopes => None = scope
  <2>1. Constructible(StateAt(prop, at)) /\ Register({StateAt(prop, at)}, None)
    BY <1>3 DEF QueryState
  <2>2. x = StateAt(prop, at)
    BY <1>2, <2>1
  <2> QED BY <1>2, <2>1, <2>2, SelectedAll DEF Resolved, StateAt
<1>4. ASSUME NEW rel \in Relations, NEW at \in Time, QueryRelation(rel, at)
      PROVE  FALSE
  <2>1. Register({RelationAt(rel, at)}, None)
    BY <1>4 DEF QueryRelation
  <2>2. x = RelationAt(rel, at)
    BY <1>2, <2>1
  <2>3. x.kind = "unknown"
    BY <2>2 DEF RelationAt
  <2>4. assertions' = assertions /\ conflicts' = conflicts
    BY <2>1, <2>2, <2>3 DEF Register
  <2> QED BY <2>3, <2>4 DEF TypeOK, TypedAssertion, TypedConflict
<1>5. ASSUME NEW s \in Scopes \cup {None}, NEW at \in Time, GetSnapshot(s, at)
      PROVE  /\ UNCHANGED <<inputs, transitions>>
             /\ Resolved(x, s)
             /\ <<x, scope>> \in outcome_scopes' \ outcome_scopes => s = scope
  <2>1. /\ \A y \in SnapshotResults(s, at) : Constructible(y)
        /\ Register(SnapshotResults(s, at), s)
    BY <1>5 DEF GetSnapshot
  <2>2. x \in SnapshotResults(s, at)
    BY <1>2, <2>1
  <2>3. PICK c \in Selected(s) :
           x = ResolveState(Selected(s), c.proposition, at, Availability(at))
    BY <2>2 DEF SnapshotResults
  <2>4. c.proposition \in Propositions
    BY ClaimsAssumption DEF Selected, TypeOK
  <2> QED BY <1>2, <2>1, <2>2, <2>3, <2>4 DEF Resolved
<1> QED BY <1>1, <1>3, <1>4, <1>5 DEF Next

----------------------------------------------------------------------------
(* Support *)

\* A claim misses nothing exactly when what it rests on is there.
LEMMA RestsIffNothingMissing ==
    ASSUME NEW c, NEW at
    PROVE  MissingProvenanceRefs(c, Availability(at)) = {} <=> RestsOnAvailable(c, at)
BY DEF MissingProvenanceRefs, Availability, RestsOnAvailable

\* The usable claims in terms of what they rest on.
LEMMA UsableIs ==
    ASSUME NEW C, NEW prop, NEW at
    PROVE  \A c : c \in Usable(C, prop, at, Availability(at)) <=>
                    /\ c \in C /\ c.proposition = prop /\ c.created_at <= at
                    /\ Contains(c, at) /\ RestsOnAvailable(c, at)
BY RestsIffNothingMissing DEF Usable, Active, Visible

\* An assertion resolved from registered claims is supported by those claims.
LEMMA ResolvedSupported ==
    ASSUME NEW C, C \subseteq claims, claims \subseteq Claims, NEW prop, NEW at \in Time,
           NEW a, a = ResolveState(C, prop, at, Availability(at)), a.kind = "state"
    PROVE  \E S \in SUBSET claims : SupportedBy(a, S)
<1> DEFINE U == Usable(C, prop, at, Availability(at))
<1>1. U # {} /\ Agree(U) /\ a = Assertion(prop, at, U)
  <2>1. Conflict(prop, at, U).kind # "state"
    BY DEF Conflict
  <2> QED BY <2>1, ResolveKinds
<1>2. \A c \in U : /\ c \in claims /\ c.proposition = prop /\ c.created_at <= at
                   /\ Contains(c, at) /\ RestsOnAvailable(c, at)
                   /\ ValidClaim(c)
  BY UsableIs, ClaimsAssumption
<1> HIDE DEF U
<1>3. /\ a.proposition = prop /\ a.resolved_at = at
      /\ a.evidence_refs = EvidenceOf(U)
      /\ a.source_refs = SourcesOf(U)
      /\ a.parent_refs = ParentsOf(U)
      /\ a.valid_from = LatestStart(U) /\ a.valid_until = EarliestEnd(U)
  BY <1>1 DEF Assertion
<1>4. \A c \in U : /\ MaterialKey(c) = MaterialKey(a)
                   /\ a.uncertainty \in {None, c.uncertainty}
  BY <1>1, AssertionMatter
<1>5. at \in Nat
  BY TimeAssumption
<1>6. ASSUME NEW t \in Time PROVE Within(a, t) <=> \A c \in U : Contains(c, t)
  <2>1. \A c \in U : Optional(c.start) /\ (c.start = None \/ c.start <= at)
    BY <1>2 DEF ValidClaim, OrderedBounds, Contains
  <2>2. \A c \in U : Optional(c.end) /\ (c.end = None \/ at <= c.end)
    BY <1>2 DEF ValidClaim, OrderedBounds, Contains
  <2>3. t \in Nat
    BY TimeAssumption
  <2>4. (LatestStart(U) = None \/ LatestStart(U) <= t)
           <=> \A c \in U : c.start = None \/ c.start <= t
    BY <1>5, <2>1, <2>3, LatestStartIsBound
  <2>5. (EarliestEnd(U) = None \/ t <= EarliestEnd(U))
           <=> \A c \in U : c.end = None \/ t <= c.end
    BY <1>5, <2>2, <2>3, EarliestEndIsBound
  <2> QED BY <1>3, <2>4, <2>5 DEF Within, Contains
<1>7. SupportedBy(a, U)
  BY <1>1, <1>2, <1>3, <1>4, <1>6 DEF SupportedBy
<1> QED BY <1>2, <1>7

\* What rests on available things still does after a step.
LEMMA RestsGrows ==
    ASSUME [Next]_vars, NEW c, NEW at, RestsOnAvailable(c, at)
    PROVE  RestsOnAvailable(c, at)'
BY StoresGrow DEF RestsOnAvailable

\* Support, once there, stays: claims are never removed or replaced.
LEMMA SupportGrows ==
    ASSUME [Next]_vars, NEW a, NEW S \in SUBSET claims, SupportedBy(a, S)
    PROVE  S \in SUBSET claims' /\ SupportedBy(a, S)'
<1>1. S \in SUBSET claims'
  BY StoresGrow
<1>2. \A c \in S : RestsOnAvailable(c, a.resolved_at)'
  BY RestsGrows DEF SupportedBy
<1> QED BY <1>1, <1>2 DEF SupportedBy

\* Supported is inductive, given the types.
LEMMA SupportedNext ==
    ASSUME TypeOK, Supported, [Next]_vars
    PROVE  Supported'
<1> SUFFICES ASSUME NEW a \in assertions'
             PROVE  \E S \in SUBSET claims' : SupportedBy(a, S)'
  BY DEF Supported
<1>1. \E S \in SUBSET claims : SupportedBy(a, S)
  <2>1. CASE a \in assertions
    BY <2>1 DEF Supported
  <2>2. CASE a \notin assertions
    <3>1. a.kind = "state"
      BY TypeOKNext DEF TypeOK, TypedAssertion
    <3>2. a \notin conflicts
      BY <3>1 DEF TypeOK, TypedConflict
    <3>3. PICK s \in Scopes \cup {None} : Resolved(a, s)
      BY <2>2, <3>2, NewOutcomes
    <3>4. PICK prop \in Propositions, at \in Time :
             a = ResolveState(Selected(s), prop, at, Availability(at))
      BY <3>3 DEF Resolved
    <3>5. Selected(s) \subseteq claims /\ claims \subseteq Claims
      BY DEF Selected, TypeOK
    <3> QED BY <3>1, <3>4, <3>5, ResolvedSupported
  <2> QED BY <2>1, <2>2
<1> QED BY <1>1, SupportGrows

\* Every cached assertion stays supported by registered claims, whatever is
\* registered and asked, in any order.
THEOREM AssertionsSupported == Spec => []Supported
<1>1. Init => Supported
  BY DEF Init, Supported
<1>2. TypeOK /\ Supported /\ [Next]_vars => Supported'
  BY SupportedNext
<1> QED BY <1>1, <1>2, TypeCorrect, PTL DEF Spec

----------------------------------------------------------------------------
(* Conflicts *)

Named(x) == {c \in claims : c.id \in x.candidate_refs}

\* What ConflictGenuine says of one conflict and the claims it names.
Genuine(x, S) ==
    /\ x.candidate_refs = {c.id : c \in S}
    /\ x.evidence_refs = EvidenceOf(S)
    /\ \E c, d \in S : MaterialKey(c) # MaterialKey(d)
    /\ \A c \in S : /\ c.proposition = x.proposition
                    /\ c.created_at <= x.as_of
                    /\ Contains(c, x.as_of)
                    /\ RestsOnAvailable(c, x.as_of)

\* ConflictGenuine in terms of the claims a conflict names.
LEMMA ConflictGenuineIs == ConflictGenuine <=> \A x \in conflicts : Genuine(x, Named(x))
BY DEF ConflictGenuine, Genuine, Named

\* Where ids are unique, ids taken from a set of claims name that set.
LEMMA NamesBack ==
    ASSUME NEW C, IdsUnique(C), NEW S \in SUBSET C, NEW refs, refs = {c.id : c \in S}
    PROVE  {c \in C : c.id \in refs} = S
BY DEF IdsUnique

\* A conflict resolved from registered claims is a real disagreement.
LEMMA ResolvedGenuine ==
    ASSUME NEW C, C \subseteq claims, IdsUnique(claims), NEW prop, NEW at,
           NEW x, x = ResolveState(C, prop, at, Availability(at)), x.kind = "conflict"
    PROVE  Genuine(x, Named(x))
<1> DEFINE U == Usable(C, prop, at, Availability(at))
<1>1. U # {} /\ ~Agree(U) /\ x = Conflict(prop, at, U)
  <2>1. Assertion(prop, at, U).kind # "conflict"
    BY DEF Assertion
  <2> QED BY <2>1, ResolveKinds
<1>2. \A c \in U : /\ c \in claims /\ c.proposition = prop /\ c.created_at <= at
                   /\ Contains(c, at) /\ RestsOnAvailable(c, at)
  BY UsableIs
<1> HIDE DEF U
<1>3. /\ x.candidate_refs = {c.id : c \in U} /\ x.evidence_refs = EvidenceOf(U)
      /\ x.proposition = prop /\ x.as_of = at
  BY <1>1 DEF Conflict
<1>4. U \in SUBSET claims
  BY <1>2
<1>5. Named(x) = U
  BY <1>3, <1>4, NamesBack DEF Named
<1> QED BY <1>1, <1>2, <1>3, <1>5 DEF Genuine, Agree

\* A real disagreement stays one: its ids keep naming the same claims.
LEMMA GenuineGrows ==
    ASSUME TypeOK, [Next]_vars, NEW x, Genuine(x, Named(x))
    PROVE  Genuine(x, Named(x))'
<1> DEFINE S == Named(x)
<1>1. S \in SUBSET claims'
  BY StoresGrow DEF Named
<1>2. IdsUnique(claims')
  BY TypeOKNext DEF TypeOK
<1>3. x.candidate_refs = {c.id : c \in S}
  BY DEF Genuine
<1>4. Named(x)' = S
  <2>1. Named(x)' = {c \in claims' : c.id \in x.candidate_refs}
    BY DEF Named
  <2> HIDE DEF S
  <2>2. {c \in claims' : c.id \in x.candidate_refs} = S
    <3> DEFINE C == claims'
               refs == x.candidate_refs
    <3>1. IdsUnique(C) /\ S \in SUBSET C /\ refs = {c.id : c \in S}
      BY <1>1, <1>2, <1>3
    <3> HIDE DEF C, refs
    <3>2. {c \in C : c.id \in refs} = S
      BY <3>1 DEF IdsUnique
    <3> QED BY <3>2 DEF C, refs
  <2> QED BY <2>1, <2>2
<1>5. \A c \in S : RestsOnAvailable(c, x.as_of)'
  BY RestsGrows DEF Genuine
<1> QED BY <1>4, <1>5 DEF Genuine

\* ConflictGenuine is inductive, given the types.
LEMMA ConflictGenuineNext ==
    ASSUME TypeOK, ConflictGenuine, [Next]_vars
    PROVE  ConflictGenuine'
<1> SUFFICES ASSUME NEW x \in conflicts' PROVE Genuine(x, Named(x))'
  BY ConflictGenuineIs DEF ConflictGenuine, Genuine, Named
<1>1. Genuine(x, Named(x))
  <2>1. CASE x \in conflicts
    BY <2>1, ConflictGenuineIs
  <2>2. CASE x \notin conflicts
    <3>1. x.kind = "conflict"
      BY TypeOKNext DEF TypeOK, TypedConflict
    <3>2. x \notin assertions
      BY <3>1 DEF TypeOK, TypedAssertion
    <3>3. PICK s \in Scopes \cup {None} : Resolved(x, s)
      BY <2>2, <3>2, NewOutcomes
    <3>4. PICK prop \in Propositions, at \in Time :
             x = ResolveState(Selected(s), prop, at, Availability(at))
      BY <3>3 DEF Resolved
    <3>5. Selected(s) \subseteq claims /\ IdsUnique(claims)
      BY DEF Selected, TypeOK
    <3> QED BY <3>1, <3>4, <3>5, ResolvedGenuine
  <2> QED BY <2>1, <2>2
<1> QED BY <1>1, GenuineGrows

\* A cached conflict is a real disagreement among registered claims.
THEOREM ConflictsGenuine == Spec => []ConflictGenuine
<1>1. Init => ConflictGenuine
  BY DEF Init, ConflictGenuine
<1>2. TypeOK /\ ConflictGenuine /\ [Next]_vars => ConflictGenuine'
  BY ConflictGenuineNext
<1> QED BY <1>1, <1>2, TypeCorrect, PTL DEF Spec

\* Evidence can be retrieved for everything an outcome cites.
LEMMA SupportRetrievable ==
    Supported /\ ConflictGenuine => EvidenceRetrievable
<1> SUFFICES ASSUME Supported, ConflictGenuine, NEW x \in assertions \cup conflicts
             PROVE  \A r \in x.evidence_refs : \E e \in evidence : e.id = r
  BY DEF EvidenceRetrievable, GetEvidence, CitedRefs
<1>1. CASE x \in assertions
  <2>1. PICK S \in SUBSET claims : SupportedBy(x, S)
    BY <1>1 DEF Supported
  <2> QED BY <2>1 DEF SupportedBy, EvidenceOf, RestsOnAvailable
<1>2. CASE x \in conflicts
  <2>1. Genuine(x, Named(x))
    BY <1>2, ConflictGenuineIs
  <2> QED BY <2>1 DEF Genuine, EvidenceOf, RestsOnAvailable
<1> QED BY <1>1, <1>2

\* The evidence of every assertion and conflict told can always be retrieved.
THEOREM EvidenceAlwaysRetrievable == Spec => []EvidenceRetrievable
BY AssertionsSupported, ConflictsGenuine, SupportRetrievable, PTL

----------------------------------------------------------------------------
(* Queries do not raise *)

\* The constructors accept whatever is resolved from registered claims.
LEMMA ResolvedConstructible ==
    ASSUME NEW C, C \subseteq claims, TypeOK, NEW prop, NEW at \in Time
    PROVE  Constructible(ResolveState(C, prop, at, Availability(at)))
<1> DEFINE U == Usable(C, prop, at, Availability(at))
           r == ResolveState(C, prop, at, Availability(at))
<1>1. at \in Nat
  BY TimeAssumption
<1>2. \A c \in U : c \in claims /\ ValidClaim(c) /\ Contains(c, at)
  BY UsableIs, ClaimsAssumption DEF TypeOK
<1>3. \A c, d \in U : c.id = d.id => c = d
  BY <1>2 DEF TypeOK, IdsUnique
<1>4. CASE U = {}
  <2>1. r.kind = "unknown" /\ r.as_of = at
    BY <1>4, ResolveKinds
  <2> QED BY <1>1, <2>1 DEF Constructible, Instant
<1>5. CASE U # {} /\ Agree(U)
  <2>1. r = Assertion(prop, at, U)
    BY <1>5, ResolveKinds
  <2>2. ValidAssertion(r)
    <3> HIDE DEF U
    <3> QED BY <1>1, <1>2, <1>5, <2>1, AssertionConstructible
  <2>3. r.kind = "state"
    BY <2>1 DEF Assertion
  <2> QED BY <2>2, <2>3 DEF Constructible
<1>6. CASE U # {} /\ ~Agree(U)
  <2>1. r = Conflict(prop, at, U)
    BY <1>6, ResolveKinds
  <2>2. ValidConflict(r)
    <3> HIDE DEF U
    <3> QED BY <1>1, <1>3, <1>6, <2>1, ConflictConstructible
  <2>3. r.kind = "conflict"
    BY <2>1 DEF Conflict
  <2> QED BY <2>2, <2>3 DEF Constructible
<1> QED BY <1>4, <1>5, <1>6

\* In a well typed store no query raises.
LEMMA TypedNeverRaise == TypeOK => QueriesNeverRaise
<1> SUFFICES ASSUME TypeOK PROVE QueriesNeverRaise
  OBVIOUS
<1>1. ASSUME NEW scope, NEW at \in Time, NEW x \in SnapshotResults(scope, at)
      PROVE  Constructible(x)
  <2>1. PICK c \in Selected(scope) :
           x = ResolveState(Selected(scope), c.proposition, at, Availability(at))
    BY DEF SnapshotResults
  <2>2. Selected(scope) \subseteq claims
    BY DEF Selected
  <2> QED BY <2>1, <2>2, ResolvedConstructible
<1>2. ASSUME NEW prop, NEW at \in Time PROVE Constructible(StateAt(prop, at))
  BY ResolvedConstructible DEF StateAt
<1> QED BY <1>1, <1>2 DEF QueriesNeverRaise

\* No query ever raises.
THEOREM NoQueryRaises == Spec => []QueriesNeverRaise
BY TypeCorrect, TypedNeverRaise, PTL

----------------------------------------------------------------------------
(* Answers grow *)

\* A resolution that can use all the claims behind x says at least what x says.
LEMMA StateAtLeast ==
    ASSUME NEW C, NEW prop, NEW at, NEW av, NEW S, S # {},
           S \subseteq Usable(C, prop, at, av),
           NEW x, x.kind = "state", x.evidence_refs = EvidenceOf(S),
           \A c \in S : MaterialKey(c) = MaterialKey(x)
    PROVE  AtLeast(ResolveState(C, prop, at, av), x)
<1> DEFINE U == Usable(C, prop, at, av)
           r == ResolveState(C, prop, at, av)
<1>1. U # {}
  OBVIOUS
<1>2. EvidenceOf(S) \subseteq EvidenceOf(U)
  BY DEF EvidenceOf
<1>3. CASE Agree(U)
  <2>1. r = Assertion(prop, at, U)
    BY <1>1, <1>3, ResolveKinds
  <2>2. PICK c \in S : c \in U
    OBVIOUS
  <2> HIDE DEF U
  <2>3. MaterialKey(r) = MaterialKey(c)
    BY <1>1, <1>3, <2>1, <2>2, AssertionMatter
  <2>4. r.kind = "state" /\ r.evidence_refs = EvidenceOf(U)
    BY <2>1 DEF Assertion
  <2> QED BY <1>2, <2>2, <2>3, <2>4 DEF AtLeast
<1>4. CASE ~Agree(U)
  <2>1. r = Conflict(prop, at, U)
    BY <1>1, <1>4, ResolveKinds
  <2> HIDE DEF U
  <2>2. r.kind = "conflict" /\ r.evidence_refs = EvidenceOf(U)
    BY <2>1 DEF Conflict
  <2> QED BY <1>2, <2>2 DEF AtLeast
<1> QED BY <1>3, <1>4

\* With more usable claims the resolver says at least as much.
LEMMA ResolveGrows ==
    ASSUME NEW C, NEW D, NEW prop, NEW at, NEW av, NEW bv,
           Usable(C, prop, at, av) \subseteq Usable(D, prop, at, bv)
    PROVE  AtLeast(ResolveState(D, prop, at, bv), ResolveState(C, prop, at, av))
<1> DEFINE U == Usable(C, prop, at, av)
           V == Usable(D, prop, at, bv)
           x == ResolveState(C, prop, at, av)
           y == ResolveState(D, prop, at, bv)
<1>1. CASE U = {}
  <2>1. x.kind = "unknown"
    BY <1>1, ResolveKinds
  <2> QED BY <2>1 DEF AtLeast
<1>2. CASE U # {} /\ Agree(U)
  <2>1. x = Assertion(prop, at, U)
    BY <1>2, ResolveKinds
  <2>2. \A c \in U : MaterialKey(c) = MaterialKey(x)
    <3> HIDE DEF U
    <3> QED BY <1>2, <2>1, AssertionMatter
  <2>3. x.kind = "state" /\ x.evidence_refs = EvidenceOf(U)
    BY <2>1 DEF Assertion
  <2> HIDE DEF U, x
  <2> QED BY <1>2, <2>2, <2>3, StateAtLeast DEF U, x
<1>3. CASE U # {} /\ ~Agree(U)
  <2>1. x = Conflict(prop, at, U)
    BY <1>3, ResolveKinds
  <2>2. V # {} /\ ~Agree(V)
    BY <1>3 DEF Agree
  <2>3. y = Conflict(prop, at, V)
    BY <2>2, ResolveKinds
  <2>4. /\ x.kind = "conflict" /\ x.candidate_refs = {c.id : c \in U}
        /\ y.kind = "conflict" /\ y.candidate_refs = {c.id : c \in V}
        /\ x.evidence_refs = EvidenceOf(U) /\ y.evidence_refs = EvidenceOf(V)
    BY <2>1, <2>3 DEF Conflict
  <2>5. {c.id : c \in U} \subseteq {c.id : c \in V}
    OBVIOUS
  <2>6. EvidenceOf(U) \subseteq EvidenceOf(V)
    BY DEF EvidenceOf
  <2> QED BY <2>4, <2>5, <2>6 DEF AtLeast
<1> QED BY <1>1, <1>2, <1>3

\* What is available at an instant only grows.
LEMMA AvailabilityGrows ==
    ASSUME [Next]_vars, NEW at
    PROVE  /\ Availability(at).evidence_refs \subseteq Availability(at)'.evidence_refs
           /\ Availability(at).source_refs \subseteq Availability(at)'.source_refs
           /\ Availability(at).assertion_refs \subseteq Availability(at)'.assertion_refs
BY StoresGrow DEF Availability

\* No step takes an answer back.
LEMMA AnswersGrowNext ==
    ASSUME [Next]_vars, NEW scope, NEW prop, NEW at
    PROVE  AtLeast(ScopedStateAt(scope, prop, at)', ScopedStateAt(scope, prop, at))
<1> DEFINE C == Selected(scope)
           D == Selected(scope)'
           av == Availability(at)
           bv == Availability(at)'
<1>1. C \subseteq D
  BY StoresGrow DEF Selected
<1>2. ScopedStateAt(scope, prop, at) = ResolveState(C, prop, at, av)
  BY DEF ScopedStateAt
<1>3. ScopedStateAt(scope, prop, at)' = ResolveState(D, prop, at, bv)
  BY DEF ScopedStateAt
<1>4. /\ av.evidence_refs \subseteq bv.evidence_refs
      /\ av.source_refs \subseteq bv.source_refs
      /\ av.assertion_refs \subseteq bv.assertion_refs
  BY AvailabilityGrows
<1> HIDE DEF C, D, av, bv
<1>5. Usable(C, prop, at, av) \subseteq Usable(D, prop, at, bv)
  BY <1>1, <1>4, UsableGrows
<1>6. AtLeast(ResolveState(D, prop, at, bv), ResolveState(C, prop, at, av))
  BY <1>5, ResolveGrows
<1> QED BY <1>2, <1>3, <1>6

\* No answer is ever taken back.
THEOREM AnswersNeverRetract == Spec => AnswersOnlyGrow
<1>1. [Next]_vars => \A prop \in Propositions, at \in Time, scope \in Scopes \cup {None} :
          AtLeast(ScopedStateAt(scope, prop, at)', ScopedStateAt(scope, prop, at))
  BY AnswersGrowNext
<1> QED BY <1>1, PTL DEF Spec, AnswersOnlyGrow

\* The unscoped answer covers the scoped ones in every state.
THEOREM UnscopedCoversScoped == Spec => []ScopeWidening
<1>1. ScopeWidening
  <2> SUFFICES ASSUME NEW prop, NEW at, NEW scope
               PROVE  AtLeast(StateAt(prop, at), ScopedStateAt(scope, prop, at))
    BY DEF ScopeWidening
  <2> DEFINE C == Selected(scope)
             av == Availability(at)
  <2>1. C \subseteq claims
    BY DEF Selected
  <2> HIDE DEF C, av
  <2>2. Usable(C, prop, at, av) \subseteq Usable(claims, prop, at, av)
    BY <2>1, UsableGrows
  <2>3. AtLeast(ResolveState(claims, prop, at, av), ResolveState(C, prop, at, av))
    BY <2>2, ResolveGrows
  <2> QED BY <2>3 DEF StateAt, ScopedStateAt, C, av
<1> QED BY <1>1, PTL

\* The window of a supported assertion holds for every later query.
LEMMA SupportedHolds == TypeOK /\ Supported => WindowHolds
<1> SUFFICES ASSUME TypeOK, Supported, NEW a \in assertions, NEW t \in Time,
                    a.resolved_at <= t, Within(a, t)
             PROVE  AtLeast(StateAt(a.proposition, t), a)
  BY DEF WindowHolds
<1>1. PICK S \in SUBSET claims : SupportedBy(a, S)
  BY DEF Supported
<1>2. a.kind = "state" /\ a.resolved_at \in Nat /\ t \in Nat
  BY TimeAssumption DEF TypeOK, TypedAssertion
<1>3. \A c \in S : c.created_at <= t
  <2>1. \A c \in S : c.created_at \in Nat /\ c.created_at <= a.resolved_at
    BY <1>1, ClaimsAssumption DEF SupportedBy, TypeOK, ValidClaim, Instant
  <2> QED BY <1>2, <2>1
<1>4. \A c \in S : RestsOnAvailable(c, t)
  <2> SUFFICES ASSUME NEW c \in S PROVE RestsOnAvailable(c, t)
    OBVIOUS
  <2>1. RestsOnAvailable(c, a.resolved_at)
    BY <1>1 DEF SupportedBy
  <2>2. \A e \in evidence : e.recorded_at \in Nat
    BY EvidenceAssumption DEF TypeOK, ValidEvidence, Instant
  <2>3. \A b \in assertions : b.resolved_at \in Nat
    BY TimeAssumption DEF TypeOK, TypedAssertion
  <2>4. \A n \in Nat : n <= a.resolved_at => n <= t
    BY <1>2
  <2> QED BY <2>1, <2>2, <2>3, <2>4 DEF RestsOnAvailable
<1>5. S \subseteq Usable(claims, a.proposition, t, Availability(t))
  BY <1>1, <1>3, <1>4, UsableIs DEF SupportedBy
<1>6. S # {} /\ a.evidence_refs = EvidenceOf(S) /\ \A c \in S : MaterialKey(c) = MaterialKey(a)
  BY <1>1 DEF SupportedBy
<1> QED BY <1>2, <1>5, <1>6, StateAtLeast DEF StateAt

\* While an assertion's validity lasts no later query comes back empty-handed.
THEOREM WindowAlwaysHolds == Spec => []WindowHolds
BY TypeCorrect, AssertionsSupported, SupportedHolds, PTL

----------------------------------------------------------------------------
(* Scopes *)

\* What ScopeIsolation says of one outcome.
SpeaksOf(x, scope) ==
    IF x.kind = "state"
      THEN x.spatial_scope = scope
      ELSE \A c \in claims : c.id \in x.candidate_refs => c.spatial_scope = scope

\* What is resolved for a scope speaks of that scope alone.
LEMMA ResolvedSpeaks ==
    ASSUME NEW scope \in Scopes, TypeOK, NEW x, Resolved(x, scope),
           x.kind \in {"state", "conflict"}
    PROVE  SpeaksOf(x, scope)
<1>1. PICK prop \in Propositions, at \in Time :
         x = ResolveState(Selected(scope), prop, at, Availability(at))
  BY DEF Resolved
<1> DEFINE U == Usable(Selected(scope), prop, at, Availability(at))
<1>2. \A c \in U : c \in claims /\ c.spatial_scope = scope
  BY UsableIs, ScopesAssumption DEF Selected, ScopeMatches
<1>3. U # {}
  BY <1>1, ResolveKinds
<1>4. CASE Agree(U)
  <2>1. x = Assertion(prop, at, U)
    BY <1>1, <1>3, <1>4, ResolveKinds
  <2>2. PICK c \in U : TRUE
    BY <1>3
  <2> HIDE DEF U
  <2>3. MaterialKey(x) = MaterialKey(c)
    BY <1>3, <1>4, <2>1, <2>2, AssertionMatter
  <2>4. x.spatial_scope = scope /\ x.kind = "state"
    BY <1>2, <2>1, <2>2, <2>3 DEF MaterialKey, Assertion
  <2> QED BY <2>4 DEF SpeaksOf
<1>5. CASE ~Agree(U)
  <2>1. x = Conflict(prop, at, U)
    BY <1>1, <1>3, <1>5, ResolveKinds
  <2> HIDE DEF U
  <2>2. x.kind = "conflict" /\ x.candidate_refs = {c.id : c \in U}
    BY <2>1 DEF Conflict
  <2>3. \A c \in claims : c.id \in x.candidate_refs => c \in U
    BY <1>2, <2>2 DEF TypeOK, IdsUnique
  <2> QED BY <1>2, <2>2, <2>3 DEF SpeaksOf
<1> QED BY <1>4, <1>5

\* An outcome keeps speaking of its scope after a step.
LEMMA SpeaksGrows ==
    ASSUME TypeOK, ConflictGenuine, [Next]_vars, NEW scope,
           NEW x \in assertions \cup conflicts, SpeaksOf(x, scope)
    PROVE  SpeaksOf(x, scope)'
<1>1. CASE x.kind = "state"
  BY <1>1 DEF SpeaksOf
<1>2. CASE x.kind # "state"
  <2>1. x \in conflicts
    BY <1>2 DEF TypeOK, TypedAssertion
  <2>2. x.candidate_refs = {c.id : c \in Named(x)}
    BY <2>1, ConflictGenuineIs DEF Genuine
  <2>3. IdsUnique(claims') /\ claims \subseteq claims'
    BY TypeOKNext, StoresGrow DEF TypeOK
  <2>4. \A c \in claims' : c.id \in x.candidate_refs => c \in claims
    BY <2>2, <2>3 DEF IdsUnique, Named
  <2> QED BY <1>2, <2>4 DEF SpeaksOf
<1> QED BY <1>1, <1>2

\* ScopeIsolation in terms of what outcomes speak of.
LEMMA ScopeIsolationIs ==
    ScopeIsolation <=>
        \A scope \in Scopes, x \in assertions \cup conflicts :
            <<x, scope>> \in outcome_scopes => SpeaksOf(x, scope)
BY DEF ScopeIsolation, SpeaksOf

\* ScopeIsolation is inductive, given the types and genuine conflicts.
LEMMA ScopeIsolationNext ==
    ASSUME TypeOK, ConflictGenuine, ScopeIsolation, [Next]_vars
    PROVE  ScopeIsolation'
<1> SUFFICES ASSUME NEW scope \in Scopes, NEW x \in assertions' \cup conflicts',
                    <<x, scope>> \in outcome_scopes'
             PROVE  SpeaksOf(x, scope)'
  BY DEF ScopeIsolation, SpeaksOf
<1>1. x.kind \in {"state", "conflict"}
  BY TypeOKNext DEF TypeOK, TypedAssertion, TypedConflict
<1>2. CASE <<x, scope>> \in outcome_scopes
  <2>1. x \in Outcomes
    BY <1>2 DEF TypeOK
  <2>2. x \in assertions \cup conflicts
    BY <1>1, <2>1 DEF Outcomes, TypeOK, TypedUnknown
  <2> QED BY <1>2, <2>2, ScopeIsolationIs, SpeaksGrows
<1>3. CASE <<x, scope>> \notin outcome_scopes
  <2>1. UNCHANGED inputs /\ Resolved(x, scope)
    BY <1>3, NewOutcomes
  <2>2. SpeaksOf(x, scope)
    BY <1>1, <2>1, ResolvedSpeaks
  <2> QED BY <2>1, <2>2 DEF SpeaksOf
<1> QED BY <1>2, <1>3

\* An outcome computed for a scope never speaks of another one.
THEOREM ScopesIsolated == Spec => []ScopeIsolation
<1>1. Init => ScopeIsolation
  BY DEF Init, ScopeIsolation
<1>2. TypeOK /\ ConflictGenuine /\ ScopeIsolation /\ [Next]_vars => ScopeIsolation'
  BY ScopeIsolationNext
<1> QED BY <1>1, <1>2, TypeCorrect, ConflictsGenuine, PTL DEF Spec

----------------------------------------------------------------------------
(* Time and reads *)

\* A step that adds only later-dated records leaves all that is known by the
\* instant as it was.
LEMMA KnownUnchanged ==
    ASSUME TypeOK, [Next]_vars, NEW at \in Time, NothingBy(at)
    PROVE  /\ Availability(at)' = Availability(at)
           /\ \A c : c.created_at <= at => (c \in claims' <=> c \in claims)
           /\ \A e : e.recorded_at <= at => (e \in evidence' <=> e \in evidence)
<1>1. at \in Nat /\ TypeOK'
  BY TimeAssumption, TypeOKNext
<1>2. \A c \in claims' : c.created_at <= at => c \in claims
  BY <1>1, ClaimsAssumption DEF NothingBy, TypeOK, ValidClaim, Instant
<1>3. \A e \in evidence' : e.recorded_at <= at => e \in evidence
  BY <1>1, EvidenceAssumption DEF NothingBy, TypeOK, ValidEvidence, Instant
<1>4. \A a \in assertions' : a.resolved_at <= at => a \in assertions
  <2>1. \A a \in assertions' : a.resolved_at \in Nat
    BY <1>1, TimeAssumption DEF TypeOK, TypedAssertion
  <2> QED BY <1>1, <2>1 DEF NothingBy
<1>5. Availability(at)' = Availability(at)
  <2>1. {e \in evidence' : e.recorded_at <= at} = {e \in evidence : e.recorded_at <= at}
    BY <1>3, StoresGrow
  <2>2. {a \in assertions' : a.resolved_at <= at} = {a \in assertions : a.resolved_at <= at}
    BY <1>4, StoresGrow
  <2> QED BY <2>1, <2>2 DEF Availability
<1> QED BY <1>2, <1>3, <1>5, StoresGrow

\* Claims that are the same by an instant resolve alike as of it.
LEMMA ResolveByKnown ==
    ASSUME NEW C, NEW D, NEW at, NEW prop, NEW av,
           \A c : c.created_at <= at => (c \in D <=> c \in C)
    PROVE  ResolveState(D, prop, at, av) = ResolveState(C, prop, at, av)
<1>1. Visible(D, prop, at) = Visible(C, prop, at)
  BY DEF Visible
<1>2. Active(D, prop, at) = Active(C, prop, at)
  BY <1>1 DEF Active
<1> QED BY <1>1, <1>2 DEF ResolveState, Usable, UnknownReason

\* A step that adds only later-dated records changes no answer.
LEMMA FutureInvisibleNext ==
    ASSUME TypeOK, [Next]_vars, NEW at \in Time, NothingBy(at), NEW prop
    PROVE  StateAt(prop, at)' = StateAt(prop, at)
<1> DEFINE C == claims
           D == claims'
<1>1. \A c : c.created_at <= at => (c \in D <=> c \in C)
  BY KnownUnchanged
<1>2. Availability(at)' = Availability(at)
  BY KnownUnchanged
<1> HIDE DEF C, D
<1>3. \A av : ResolveState(D, prop, at, av) = ResolveState(C, prop, at, av)
  BY <1>1, ResolveByKnown
<1> QED BY <1>2, <1>3 DEF StateAt, C, D

\* What is dated after an instant never reaches an answer as of it.
THEOREM FutureNeverVisible == Spec => FutureInvisible
<1>1. TypeOK /\ [Next]_vars => \A at \in Time : NothingBy(at) =>
          \A prop \in Propositions : StateAt(prop, at)' = StateAt(prop, at)
  BY FutureInvisibleNext
<1> QED BY <1>1, TypeCorrect, PTL DEF Spec, FutureInvisible

\* Only an Unknown about a proposition no claim is visible for gives "no
\* evidence" for its reason.
LEMMA NoEvidenceIs ==
    ASSUME NEW C, NEW prop, NEW at, NEW av
    PROVE  LET x == ResolveState(C, prop, at, av)
           IN  (x.kind = "unknown" => x.reason # "no_evidence")
                  <=> Visible(C, prop, at) # {}
<1> DEFINE x == ResolveState(C, prop, at, av)
           U == Usable(C, prop, at, av)
<1>1. U # {} => Visible(C, prop, at) # {}
  BY DEF Usable, Active
<1>2. CASE U = {}
  BY <1>2 DEF ResolveState, Unknown, UnknownReason
<1>3. CASE U # {}
  <2>1. /\ Assertion(prop, at, U).kind = "state"
        /\ Conflict(prop, at, U).kind = "conflict"
    BY DEF Assertion, Conflict
  <2>2. x = Assertion(prop, at, U) \/ x = Conflict(prop, at, U)
    BY <1>3, ResolveKinds
  <2> QED BY <1>1, <1>3, <2>1, <2>2
<1> QED BY <1>2, <1>3

\* The results of a snapshot of the claims C that say more than that no claim is
\* known are those about the propositions of the claims known by then.
LEMMA KnownResults ==
    ASSUME NEW C, NEW at, NEW av
    PROVE  {x \in {ResolveState(C, prop, at, av) : prop \in {c.proposition : c \in C}} :
               x.kind = "unknown" => x.reason # "no_evidence"}
             = {ResolveState(C, prop, at, av) :
                  prop \in {c.proposition : c \in {d \in C : d.created_at <= at}}}
<1>1. \A prop : Visible(C, prop, at) # {}
                   <=> prop \in {c.proposition : c \in {d \in C : d.created_at <= at}}
  BY DEF Visible
<1>2. \A prop : (ResolveState(C, prop, at, av).kind = "unknown"
                    => ResolveState(C, prop, at, av).reason # "no_evidence")
                   <=> Visible(C, prop, at) # {}
  BY NoEvidenceIs
<1> QED BY <1>1, <1>2

\* A step that adds only later-dated records changes nothing a snapshot tells
\* of what is known by then, its source versions included.
LEMMA SnapshotBoundedNext ==
    ASSUME TypeOK, [Next]_vars, NEW at \in Time, NothingBy(at), NEW scope
    PROVE  KnownBy(scope, at)' = KnownBy(scope, at)
<1> DEFINE C == Selected(scope)
           D == Selected(scope)'
           av == Availability(at)
           Telling(S) == {x \in S : x.kind = "unknown" => x.reason # "no_evidence"}
           All(E) == {ResolveState(E, prop, at, av) : prop \in {c.proposition : c \in E}}
           Known(E) == {ResolveState(E, prop, at, av) :
                          prop \in {c.proposition : c \in {d \in E : d.created_at <= at}}}
<1>1. \A c : c.created_at <= at => (c \in D <=> c \in C)
  BY KnownUnchanged DEF Selected
<1>2. /\ Availability(at)' = av
      /\ \A e : e.recorded_at <= at => (e \in evidence' <=> e \in evidence)
  BY KnownUnchanged
<1>3. Telling(SnapshotResults(scope, at)') = Telling(SnapshotResults(scope, at))
  <2>1. SnapshotResults(scope, at) = All(C) /\ SnapshotResults(scope, at)' = All(D)
    BY <1>2 DEF SnapshotResults
  <2> HIDE DEF C, D, av
  <2>2. {d \in D : d.created_at <= at} = {d \in C : d.created_at <= at}
    BY <1>1
  <2>3. \A prop : ResolveState(D, prop, at, av) = ResolveState(C, prop, at, av)
    BY <1>1, ResolveByKnown
  <2>4. Known(D) = Known(C)
    BY <2>2, <2>3
  <2>5. Telling(All(C)) = Known(C) /\ Telling(All(D)) = Known(D)
    BY KnownResults
  <2> HIDE DEF Telling, All, Known
  <2> QED BY <2>1, <2>4, <2>5
<1>4. SourceVersions(scope, at)' = SourceVersions(scope, at)
  <2> HIDE DEF C, D
  <2>1. {c \in D : c.created_at <= at} = {c \in C : c.created_at <= at}
    BY <1>1
  <2>2. \A cited : {e \in evidence' : e.id \in cited /\ e.recorded_at <= at /\ e.version # None}
                 = {e \in evidence : e.id \in cited /\ e.recorded_at <= at /\ e.version # None}
    BY <1>2
  <2> QED BY <2>1, <2>2 DEF SourceVersions, C, D
<1> DEFINE Told(r, v) == [as_of |-> at, created_at |-> at, scope |-> scope,
                          results |-> r, source_versions |-> v]
<1>5. /\ Snapshot(scope, at) = Told(SnapshotResults(scope, at), SourceVersions(scope, at))
      /\ Snapshot(scope, at)'
           = Told(SnapshotResults(scope, at)', SourceVersions(scope, at)')
  BY DEF Snapshot
<1>6. \A r, v : [Told(r, v) EXCEPT !.results = Telling(@)] = Told(Telling(r), v)
  <2> HIDE DEF Telling
  <2> QED OBVIOUS
<1>7. /\ KnownBy(scope, at) = [Snapshot(scope, at) EXCEPT !.results = Telling(@)]
      /\ KnownBy(scope, at)' = [Snapshot(scope, at)' EXCEPT !.results = Telling(@)]
  BY DEF KnownBy
<1> HIDE DEF Telling, Told
<1> QED BY <1>3, <1>4, <1>5, <1>6, <1>7

\* What is dated after an instant never reaches what a snapshot as of it tells.
THEOREM SnapshotsKnowledgeBounded == Spec => SnapshotKnowledgeBounded
<1>1. TypeOK /\ [Next]_vars => \A at \in Time : NothingBy(at) =>
          \A scope \in Scopes \cup {None} : KnownBy(scope, at)' = KnownBy(scope, at)
  BY SnapshotBoundedNext
<1> QED BY <1>1, TypeCorrect, PTL DEF Spec, SnapshotKnowledgeBounded

\* A step without new input that caches no awaited parent changes no answer.
LEMMA ReadsOnlyUnblockNext ==
    ASSUME [Next]_vars, UNCHANGED inputs, NEW prop, NEW at,
           \A c \in Active(claims, prop, at) :
              c.parent_refs \cap (assertions' \ assertions) = {}
    PROVE  StateAt(prop, at)' = StateAt(prop, at)
<1> DEFINE av == Availability(at)
           bv == Availability(at)'
           A == Active(claims, prop, at)
<1>1. /\ av.evidence_refs = bv.evidence_refs /\ av.source_refs = bv.source_refs
      /\ \A r : r \in bv.assertion_refs <=>
                   \/ r \in av.assertion_refs
                   \/ r \in assertions' \ assertions /\ r.resolved_at <= at
  BY StoresGrow DEF Availability
<1> HIDE DEF av, bv
<1>2. \A c \in A : MissingProvenanceRefs(c, av) = MissingProvenanceRefs(c, bv)
  BY <1>1 DEF MissingProvenanceRefs
<1>3. {c \in A : MissingProvenanceRefs(c, av) = {}} = {c \in A : MissingProvenanceRefs(c, bv) = {}}
  BY <1>2
<1>4. {MissingProvenanceRefs(c, av) : c \in A} = {MissingProvenanceRefs(c, bv) : c \in A}
  BY <1>2
<1>5. ResolveState(claims, prop, at, av) = ResolveState(claims, prop, at, bv)
  BY <1>3, <1>4 DEF ResolveState, Usable
<1> QED BY <1>5 DEF StateAt, av, bv

\* A read changes a later answer only by caching an awaited parent.
THEOREM ReadsUnblockOnly == Spec => ReadsOnlyUnblock
<1>1. [Next]_vars => (UNCHANGED inputs =>
          \A prop \in Propositions, at \in Time :
              StateAt(prop, at)' # StateAt(prop, at) =>
                  \E c \in Active(claims, prop, at) :
                      c.parent_refs \cap (assertions' \ assertions) # {})
  BY ReadsOnlyUnblockNext
<1> QED BY <1>1, PTL DEF Spec, ReadsOnlyUnblock

----------------------------------------------------------------------------
(* Transitions *)

\* Every registered transition was built from cached assertions.
TransitionsBuilt ==
    \A t \in transitions : \E from, to \in assertions \cup {None}, time \in Time :
        CanBuildTransition(from, to) /\ t = BuildTransition(from, to, time)

\* Transitions are built from what the cache keeps.
LEMMA TransitionsBuiltNext ==
    ASSUME TransitionsBuilt, [Next]_vars
    PROVE  TransitionsBuilt'
<1> SUFFICES ASSUME NEW t \in transitions'
             PROVE  \E from, to \in assertions \cup {None}, time \in Time :
                       CanBuildTransition(from, to) /\ t = BuildTransition(from, to, time)
  BY StoresGrow DEF TransitionsBuilt
<1>1. CASE t \in transitions
  BY <1>1 DEF TransitionsBuilt
<1>2. CASE t \notin transitions
  <2>1. PICK from \in assertions \cup {None}, to \in assertions \cup {None},
             time \in TransitionTimes : AddTransition(from, to, time)
    BY <1>2 DEF Next, vars, AddObservation, AddEvidence, AddClaim, QueryState,
                QueryRelation, GetSnapshot, Register
  <2>2. CanBuildTransition(from, to) /\ t = BuildTransition(from, to, time)
    BY <1>2, <2>1 DEF AddTransition
  <2> QED BY <2>2, TimeAssumption
<1> QED BY <1>1, <1>2

\* Transitions built from cached assertions are traceable.
LEMMA BuiltTraceable ==
    ASSUME TypeOK, TransitionsBuilt
    PROVE  TransitionTraceable
<1> SUFFICES ASSUME NEW t \in transitions, NEW a \in Sides(t.from_ref, t.to_ref)
             PROVE  /\ a \in assertions /\ a.proposition = t.proposition
                    /\ {a} \cup a.parent_refs \subseteq t.parent_refs
                    /\ a.source_refs \subseteq t.source_refs
                    /\ (\A c \in claims : c.id # t) => GetEvidence(a) \subseteq GetEvidence(t)
  BY DEF TransitionTraceable
<1>1. PICK from \in assertions \cup {None}, to \in assertions \cup {None}, time \in Time :
         CanBuildTransition(from, to) /\ t = BuildTransition(from, to, time)
  BY DEF TransitionsBuilt
<1>2. /\ t.kind = "transition" /\ t.from_ref = from /\ t.to_ref = to
      /\ t.proposition = (IF to # None THEN to ELSE from).proposition
      /\ t.evidence_refs = UNION {b.evidence_refs : b \in Sides(from, to)}
      /\ t.source_refs = UNION {b.source_refs : b \in Sides(from, to)}
      /\ t.parent_refs = Sides(from, to) \cup UNION {b.parent_refs : b \in Sides(from, to)}
  BY <1>1 DEF BuildTransition
<1>3. a \in Sides(from, to)
  BY <1>2
<1>4. a \in assertions
  BY <1>3 DEF Sides
<1>5. a.proposition = t.proposition
  <2>1. (IF to # None THEN to ELSE from) \in Sides(from, to)
    BY <1>1 DEF CanBuildTransition, Sides
  <2> QED BY <1>1, <1>2, <1>3, <2>1 DEF CanBuildTransition
<1>6. CitedRefs(a) = a.evidence_refs
  BY <1>4 DEF CitedRefs
<1>7. ASSUME \A c \in claims : c.id # t PROVE CitedRefs(t) = t.evidence_refs
  <2>1. t \notin assertions \cup conflicts
    BY <1>2 DEF TypeOK, TypedAssertion, TypedConflict
  <2>2. {c \in claims : c.id = t} = {}
    BY <1>7
  <2> QED BY <2>1, <2>2 DEF CitedRefs
<1>8. /\ a.evidence_refs \subseteq t.evidence_refs
      /\ a.source_refs \subseteq t.source_refs
      /\ {a} \cup a.parent_refs \subseteq t.parent_refs
  BY <1>2, <1>3
<1>9. (\A c \in claims : c.id # t) => GetEvidence(a) \subseteq GetEvidence(t)
  BY <1>6, <1>7, <1>8 DEF GetEvidence
<1> QED BY <1>4, <1>5, <1>8, <1>9

\* A transition leads back to both its sides and all they rest on, their evidence
\* included as long as no claim bears its id.
THEOREM TransitionsTraceable == Spec => []TransitionTraceable
<1>1. Init => TransitionsBuilt
  BY DEF Init, TransitionsBuilt
<1>2. TransitionsBuilt /\ [Next]_vars => TransitionsBuilt'
  BY TransitionsBuiltNext
<1>3. TypeOK /\ TransitionsBuilt => TransitionTraceable
  BY BuiltTraceable
<1> QED BY <1>1, <1>2, <1>3, TypeCorrect, PTL DEF Spec
=============================================================================
