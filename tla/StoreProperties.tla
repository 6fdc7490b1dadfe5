---------------------------- MODULE StoreProperties ----------------------------
(***************************************************************************)
(* What callers of the reference provider may rely on.                     *)
(***************************************************************************)
EXTENDS MemoryStore

IdsUnique(store) == \A x, y \in store : x.id = y.id => x = y

TypedAssertion(a) ==
    /\ a.kind = "state"
    /\ a.proposition \in Propositions
    /\ a.resolved_at \in Time
    /\ ValidAssertion(a)

TypedUnknown(x) ==
    /\ x.kind = "unknown"
    /\ x.as_of \in Time
    /\ x.reason \in UnknownReasons

TypedConflict(x) ==
    /\ x.kind = "conflict"
    /\ x.proposition \in Propositions
    /\ x.as_of \in Time
    /\ ValidConflict(x)

\* Types; a store keyed by id holds one value per id; and the bookkeeping of
\* the cache: everything in it was computed for some scope, everything that
\* has a scope is in it.
TypeOK ==
    /\ observations \subseteq Observations
    /\ evidence \subseteq Evidence
    /\ claims \subseteq Claims
    /\ IdsUnique(observations) /\ IdsUnique(evidence) /\ IdsUnique(claims)
    /\ \A a \in assertions : TypedAssertion(a)
    /\ \A x \in unknowns : TypedUnknown(x)
    /\ \A x \in conflicts : TypedConflict(x)
    /\ \A t \in transitions : t.kind = "transition" /\ t.transition_time \in Time
    /\ outcome_scopes \subseteq Outcomes \X (Scopes \cup {None})
    /\ \A x \in Outcomes : \E scope \in Scopes \cup {None} :
          <<x, scope>> \in outcome_scopes

----------------------------------------------------------------------------
(* What stands behind an assertion *)

\* The instants an assertion says it is valid at.
Within(a, t) ==
    /\ a.valid_from = None \/ a.valid_from <= t
    /\ a.valid_until = None \/ t <= a.valid_until

\* Everything x rests on was there at the instant it was resolved: evidence,
\* evidence naming the sources, and parents that had been resolved by then.
RestsOnAvailable(x, at) ==
    /\ \A r \in x.evidence_refs :
          \E e \in evidence : e.id = r /\ e.recorded_at <= at
    /\ \A r \in x.source_refs :
          \E e \in evidence : e.source = r /\ e.recorded_at <= at
    /\ \A r \in x.parent_refs : r \in assertions /\ r.resolved_at <= at

SupportedBy(a, S) ==
    /\ S # {}
    /\ \A c \in S : /\ c.proposition = a.proposition
                    /\ c.created_at <= a.resolved_at
                    /\ Contains(c, a.resolved_at)
                    /\ RestsOnAvailable(c, a.resolved_at)
                    /\ MaterialKey(c) = MaterialKey(a)
                    /\ a.uncertainty \in {None, c.uncertainty}
    /\ a.evidence_refs = EvidenceOf(S)
    /\ a.source_refs = SourcesOf(S)
    /\ a.parent_refs = ParentsOf(S)
    /\ \A t \in Time : Within(a, t) <=> \A c \in S : Contains(c, t)

\* No assertion without support, for as long as it stays cached: registered
\* claims that say what it says, known and in force at its instant, resting on
\* what was available then, whose references are its provenance and whose
\* common window is its validity.  (Core specification: an assertion is emitted
\* only from usable claims, and provenance leads back to evidence.)
Supported == \A a \in assertions : \E S \in SUBSET claims : SupportedBy(a, S)

\* A cached conflict names registered claims about its proposition that were
\* usable at its instant and that disagree; it is never made of one claim.
ConflictGenuine ==
    \A x \in conflicts :
        LET named == {c \in claims : c.id \in x.candidate_refs}
        IN  /\ x.candidate_refs = {c.id : c \in named}
            /\ x.evidence_refs = EvidenceOf(named)
            /\ \E c, d \in named : MaterialKey(c) # MaterialKey(d)
            /\ \A c \in named : /\ c.proposition = x.proposition
                                /\ c.created_at <= x.as_of
                                /\ Contains(c, x.as_of)
                                /\ RestsOnAvailable(c, x.as_of)

\* get_evidence on an assertion or a conflict a caller was told returns, then
\* and ever after, evidence for every reference the outcome cites.
EvidenceRetrievable ==
    \A x \in assertions \cup conflicts :
        {e.id : e \in GetEvidence(x)} = x.evidence_refs

\* No query raises: whatever has been registered, Validity never gets its
\* bounds in the wrong order, Provenance is never empty and Conflict never has
\* one candidate, for any proposition, scope and instant.
QueriesNeverRaise ==
    \A at \in Time :
        /\ \A prop \in Propositions : Constructible(StateAt(prop, at))
        /\ \A scope \in Scopes \cup {None} :
              \A x \in SnapshotResults(scope, at) : Constructible(x)

\* A transition leads back to both its sides, which are about its proposition,
\* and to everything each of them rests on.  get_evidence on it finds all the
\* evidence of either side, unless a claim bears its id: claims are looked at first.
TransitionTraceable ==
    \A t \in transitions : \A a \in Sides(t.from_ref, t.to_ref) :
        /\ a \in assertions
        /\ a.proposition = t.proposition
        /\ {a} \cup a.parent_refs \subseteq t.parent_refs
        /\ a.source_refs \subseteq t.source_refs
        /\ (\A c \in claims : c.id # t) => GetEvidence(a) \subseteq GetEvidence(t)

\* An outcome computed for a spatial scope speaks of that scope alone: an
\* assertion carries it and every candidate of a conflict is a claim made for it.
ScopeIsolation ==
    \A scope \in Scopes : \A x \in assertions \cup conflicts :
        <<x, scope>> \in outcome_scopes =>
            IF x.kind = "state"
              THEN x.spatial_scope = scope
              ELSE \A c \in claims :
                      c.id \in x.candidate_refs => c.spatial_scope = scope

----------------------------------------------------------------------------
(* How answers may change *)

\* y says at least what x says: an Unknown can become anything, an assertion
\* keeps its matter and its evidence or becomes a conflict over that evidence,
\* and a conflict only gains candidates and evidence.
AtLeast(y, x) ==
    /\ x.kind = "state" =>
          /\ y.kind \in {"state", "conflict"}
          /\ y.kind = "state" => MaterialKey(y) = MaterialKey(x)
          /\ x.evidence_refs \subseteq y.evidence_refs
    /\ x.kind = "conflict" =>
          /\ y.kind = "conflict"
          /\ x.candidate_refs \subseteq y.candidate_refs
          /\ x.evidence_refs \subseteq y.evidence_refs

\* A promise about later queries: while an assertion's validity lasts, asking
\* again at a later instant finds all that is behind it still in force.  The
\* answer is the same matter with no less evidence, or a conflict over that
\* evidence; it is never an Unknown.
WindowHolds ==
    \A a \in assertions : \A t \in Time :
        (a.resolved_at <= t /\ Within(a, t)) =>
            AtLeast(StateAt(a.proposition, t), a)

ScopedStateAt(scope, prop, at) ==
    ResolveState(Selected(scope), prop, at, Availability(at))

\* Registering records and asking questions never takes an answer back: for one
\* proposition, instant and scope the answer only moves from Unknown to an
\* assertion to a conflict.  The unscoped answer covers each scoped one.
AnswersOnlyGrow ==
    [][\A prop \in Propositions, at \in Time, scope \in Scopes \cup {None} :
          AtLeast(ScopedStateAt(scope, prop, at)',
                  ScopedStateAt(scope, prop, at))]_vars

ScopeWidening ==
    \A prop \in Propositions, at \in Time, scope \in Scopes :
        AtLeast(StateAt(prop, at), ScopedStateAt(scope, prop, at))

\* Records dated after an instant are invisible at it: a step that registers or
\* caches only such records leaves the answer of query_state unchanged.
NothingBy(at) ==
    /\ \A c \in claims' \ claims : c.created_at > at
    /\ \A e \in evidence' \ evidence : e.recorded_at > at
    /\ \A a \in assertions' \ assertions : a.resolved_at > at

FutureInvisible ==
    [][\A at \in Time : NothingBy(at) =>
          \A prop \in Propositions : StateAt(prop, at)' = StateAt(prop, at)]_vars

\* The same for snapshots, their source versions included, apart from the
\* Unknowns that say no claim is known: those also tell of later claims.
KnownBy(scope, at) ==
    [Snapshot(scope, at) EXCEPT
        !.results = {x \in @ : x.kind = "unknown" => x.reason # "no_evidence"}]

SnapshotKnowledgeBounded ==
    [][\A at \in Time : NothingBy(at) =>
          \A scope \in Scopes \cup {None} :
              KnownBy(scope, at)' = KnownBy(scope, at)]_vars

\* Asking changes a later answer in one way only: a claim that was waiting for
\* a parent assertion finds it among those the question has just cached.
ReadsOnlyUnblock ==
    [][UNCHANGED inputs =>
          \A prop \in Propositions, at \in Time :
              StateAt(prop, at)' # StateAt(prop, at) =>
                  \E c \in Active(claims, prop, at) :
                      c.parent_refs \cap (assertions' \ assertions) # {}]_vars

----------------------------------------------------------------------------
(* The store as a body of knowledge *)

Questions == (Scopes \cup {None}) \X Propositions \X Time

ResolvedAt(x) == IF x.kind = "state" THEN x.resolved_at ELSE x.as_of

\* What queries about states were told; a relation is never resolved.
StatesTold ==
    {o \in outcome_scopes :
        o[1].kind = "unknown" => o[1].reason # "unsupported_query"}

QuestionOf(o) == <<o[2], o[1].proposition, ResolvedAt(o[1])>>

KnownNow == [q \in Questions |-> ScopedStateAt(q[1], q[2], q[3])]
ToldNow  == {<<QuestionOf(o), o[1]>> : o \in StatesTold}

Knowing == INSTANCE Knowledge WITH known <- KnownNow, told <- ToldNow

\* With everything inside put aside the store is such a body of knowledge.
ImplementsKnowledge == Knowing!Spec

\* What a caller was told stands: every cached outcome says no more than the
\* answer its question gets now, with whatever was registered and asked since.
ToldStands == Knowing!ToldStands

----------------------------------------------------------------------------
(* What the documents say of the store and the code does not do *)

\* Asking again without new input gives the same snapshot ("repeated
\* query/snapshot replay at the same as_of boundary is stable").
SnapshotReplay ==
    [][UNCHANGED inputs =>
          \A scope \in Scopes \cup {None}, at \in Time :
              Snapshot(scope, at)' = Snapshot(scope, at)]_vars

\* A snapshot as of an instant is a function of the inputs bounded by it.
SnapshotBounded ==
    [][\A at \in Time : NothingBy(at) =>
          \A scope \in Scopes \cup {None} :
              Snapshot(scope, at)' = Snapshot(scope, at)]_vars

\* "If usable claims agree on value and epistemic mode, emit one StateAssertion".
AgreeingClaimsAssert ==
    \A prop \in Propositions, at \in Time :
        LET usable == Usable(claims, prop, at, Availability(at))
        IN  (/\ usable # {}
             /\ \A c, d \in usable : /\ c.value = d.value
                                     /\ c.epistemic_mode = d.epistemic_mode)
            => StateAt(prop, at).kind = "state"
=============================================================================
