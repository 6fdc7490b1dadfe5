------------------------------ MODULE ClientProofs ------------------------------
(***************************************************************************)
(* Proofs that what the conformance suite and the benchmark report of the  *)
(* reference provider is so, for any probes, any cases and any inputs.     *)
(***************************************************************************)
EXTENDS StoreClients, StoreProofs, FiniteSetTheorems

----------------------------------------------------------------------------
(* Where a client can be *)

Lookups == {"evidence", "unknowns", "conflicts"}

\* A client at work is at one of its calls, for one of its questions, and the two
\* are never at work at the same time.
PlacesOK ==
    /\ place[1] \in {"idle", "done", "probe", "snapshot", "replay"} \cup Lookups
    /\ Working => index \in DOMAIN Probes
    /\ step[1] \in {"idle", "done", "first", "again", "evidence"}
    /\ Bench!Measuring => step[2] \in DOMAIN Cases
    /\ ~ (Working /\ Bench!Measuring)

\* Probes and cases are numbered from one.
LEMMA QuestionNumbers ==
    /\ DOMAIN Probes = 1..Len(Probes) /\ Len(Probes) \in Nat
    /\ DOMAIN Cases = 1..Len(Cases) /\ Len(Cases) \in Nat
BY ProbesAssumption, QuestionsAssumption

\* After the i-th probe comes the next one, then the snapshots, then the end.
LEMMA NextSnapshotIs ==
    ASSUME NEW i \in Nat
    PROVE  \/ i + 1 \in DOMAIN Probes /\ NextSnapshot(i) = <<"snapshot", i + 1>>
           \/ NextSnapshot(i) = <<"done", 0>>
BY QuestionNumbers DEF NextSnapshot, Turn

LEMMA NextProbeIs ==
    ASSUME NEW i \in Nat
    PROVE  \/ i + 1 \in DOMAIN Probes /\ NextProbe(i) = <<"probe", i + 1>>
           \/ DOMAIN Probes \subseteq 1..i /\ NextProbe(i) = NextSnapshot(0)
BY QuestionNumbers DEF NextProbe, Turn

LEMMA NextCaseIs ==
    ASSUME NEW i \in Nat
    PROVE  \/ i + 1 \in DOMAIN Cases /\ Bench!NextCase(i) = <<"first", i + 1>>
           \/ DOMAIN Cases \subseteq 1..i /\ Bench!NextCase(i) = <<"done", 0>>
BY QuestionNumbers DEF Bench!NextCase

\* A place the suite can go to next.
Reachable(p) ==
    \/ p[1] \in {"probe", "snapshot"} /\ p[2] \in DOMAIN Probes
    \/ p[1] = "done"

LEMMA NextReachable ==
    ASSUME NEW i \in Nat
    PROVE  Reachable(NextProbe(i)) /\ Reachable(NextSnapshot(i))
BY NextSnapshotIs, NextProbeIs DEF Reachable

\* Clients only ever are where they can be.
LEMMA PlacesNext ==
    ASSUME PlacesOK, [ClientsNext]_allVars
    PROVE  PlacesOK'
<1> USE DEF PlacesOK, Working, index, Bench!Measuring
<1>1. CASE Ingest
  BY <1>1 DEF Ingest, ForgetReport, ForgetScore
<1>2. CASE StartSuite
  <2>1. place' = NextProbe(0) /\ step'[1] = "idle"
    BY <1>2 DEF StartSuite, Start, ForgetScore
  <2> QED BY <2>1, NextReachable DEF Reachable
<1>3. CASE SuiteStep
  <2>1. index \in Nat /\ UNCHANGED step
    BY <1>3, QuestionNumbers DEF SuiteStep, benchmarkVars
  <2> DEFINE Moved == \/ place' \in {NextProbe(index), NextSnapshot(index)}
                      \/ place'[1] \in Lookups \cup {"replay"} /\ place'[2] = index
  <2>a. ASSUME NEW answer, AskState(answer) PROVE Moved
    <3>1. place' \in {NextProbe(index), <<FirstLookup(answer), index>>}
      BY <2>a DEF AskState
    <3>2. FirstLookup(answer) \in Lookups
      BY DEF FirstLookup, Lookups
    <3> QED BY <3>1, <3>2
  <2>b. \A found : AskEvidence(found) \/ AskUnknowns(found) \/ AskConflicts(found) => Moved
    BY DEF AskEvidence, AskUnknowns, AskConflicts, Lookups
  <2>c. \A snapshot : AskSnapshot(snapshot) \/ AskReplay(snapshot) => Moved
    BY DEF AskSnapshot, AskReplay
  <2> HIDE DEF Moved
  <2>2. Moved
    BY <1>3, <2>a, <2>b, <2>c DEF SuiteStep
  <2> USE DEF Moved
  <2> QED BY <1>3, <2>1, <2>2, NextReachable DEF Reachable, SuiteStep, Lookups
<1>4. CASE StartBenchmark
  <2>1. step' = Bench!NextCase(0) /\ place'[1] = "idle"
    BY <1>4 DEF StartBenchmark, Bench!Begin, ForgetReport
  <2> QED BY <2>1, NextCaseIs
<1>5. CASE BenchmarkStep
  <2>1. step[2] \in Nat /\ UNCHANGED place
    BY <1>5, QuestionNumbers DEF BenchmarkStep, suiteVars
  <2>2. \/ step' = Bench!NextCase(step[2])
        \/ step'[1] \in {"again", "evidence"} /\ step'[2] = step[2]
    BY <1>5 DEF BenchmarkStep, Bench!AskFirst, Bench!AskAgain, Bench!AskEvidence,
                Bench!number
  <2> QED BY <1>5, <2>1, <2>2, NextCaseIs DEF BenchmarkStep
<1>6. CASE UNCHANGED allVars
  BY <1>6 DEF allVars, clientVars, suiteVars, benchmarkVars
<1> QED BY <1>1, <1>2, <1>3, <1>4, <1>5, <1>6 DEF ClientsNext

\* What clients do is what callers of the provider may do; a client at work
\* registers nothing.
LEMMA ClientsUseStore ==
    ASSUME PlacesOK, [ClientsNext]_allVars
    PROVE  /\ [Next]_vars
           /\ ~ Ingest => UNCHANGED <<inputs, transitions>>
<1> USE DEF inputs, cache
<1>1. CASE Ingest
  BY <1>1 DEF Ingest, Next
<1>2. CASE StartSuite \/ StartBenchmark \/ UNCHANGED allVars
  BY <1>2 DEF StartSuite, StartBenchmark, allVars, vars
<1>3. ASSUME NEW prop \in Propositions, NEW at \in Time, QueryState(prop, at)
      PROVE  [Next]_vars /\ UNCHANGED <<inputs, transitions>>
  BY <1>3 DEF Next, QueryState, Register
<1>4. ASSUME NEW at \in Time, GetSnapshot(None, at)
      PROVE  [Next]_vars /\ UNCHANGED <<inputs, transitions>>
  BY <1>4 DEF Next, GetSnapshot, Register
<1>5. CASE SuiteStep
  <2>1. probe.proposition \in Propositions /\ probe.at \in Time
    BY <1>5, QuestionsAssumption DEF SuiteStep, PlacesOK, probe
  <2>2. \/ QueryState(probe.proposition, probe.at)
        \/ GetSnapshot(None, probe.at)
        \/ UNCHANGED vars
    BY <1>5 DEF SuiteStep
  <2> QED BY <1>3, <1>4, <2>1, <2>2 DEF vars
<1>6. CASE BenchmarkStep
  <2>1. Bench!case.proposition \in Propositions /\ Bench!case.at \in Time
    BY <1>6, QuestionsAssumption DEF BenchmarkStep, PlacesOK, Bench!case, Bench!number
  <2>2. QueryState(Bench!case.proposition, Bench!case.at) \/ UNCHANGED vars
    BY <1>6 DEF BenchmarkStep
  <2> QED BY <1>3, <2>1, <2>2 DEF vars
<1> QED BY <1>1, <1>2, <1>5, <1>6 DEF ClientsNext
\* What the provider keeps true whoever calls it.
StoreInv == TypeOK /\ Supported /\ ConflictGenuine

LEMMA StoreInvInit == Init => StoreInv
BY TypeOKInit DEF Init, StoreInv, Supported, ConflictGenuine

LEMMA StoreInvNext == StoreInv /\ [Next]_vars => StoreInv'
BY TypeOKNext, SupportedNext, ConflictGenuineNext DEF StoreInv

BaseInv == PlacesOK /\ StoreInv

LEMMA PlacesInit == ClientsInit => PlacesOK
BY DEF ClientsInit, SuiteInit, Bench!BenchmarkInit, PlacesOK, Working,
       Bench!Measuring

LEMMA BaseNext == BaseInv /\ [ClientsNext]_allVars => BaseInv'
BY PlacesNext, ClientsUseStore, StoreInvNext DEF BaseInv

\* The clients do nothing that the provider's own invariants do not cover.
LEMMA ClientsBase == ClientsSpec => []BaseInv
<1>1. ClientsInit => BaseInv
  BY PlacesInit, StoreInvInit DEF ClientsInit, BaseInv
<1> QED BY <1>1, BaseNext, PTL DEF ClientsSpec

----------------------------------------------------------------------------
(* What the suite looks up is there *)

\* What a query about a state told is cached and filed under no scope.
LEMMA AskedIsCached ==
    ASSUME NEW prop \in Propositions, NEW at \in Time, QueryState(prop, at)
    PROVE  LET x == StateAt(prop, at)
           IN  /\ <<x, None>> \in outcome_scopes'
               /\ x.kind = "state" => x \in assertions'
               /\ x.kind = "unknown" => x \in unknowns'
               /\ x.kind = "conflict" => x \in conflicts'
               /\ x.kind \in {"state", "unknown", "conflict"}
               /\ x.proposition = prop
<1> DEFINE x == StateAt(prop, at)
           U == Usable(claims, prop, at, Availability(at))
<1>1. Register({x}, None)
  BY DEF QueryState
<1>2. x.kind \in {"state", "unknown", "conflict"} /\ x.proposition = prop
  <2>1. \/ x.kind = "unknown" /\ x.proposition = prop
        \/ x = Assertion(prop, at, U)
        \/ x = Conflict(prop, at, U)
    BY DEF StateAt, ResolveState, Unknown
  <2>2. /\ Assertion(prop, at, U).kind = "state"
        /\ Assertion(prop, at, U).proposition = prop
        /\ Conflict(prop, at, U).kind = "conflict"
        /\ Conflict(prop, at, U).proposition = prop
    BY DEF Assertion, Conflict
  <2> QED BY <2>1, <2>2
<1> HIDE DEF x
<1> QED BY <1>1, <1>2 DEF Register, x

\* The answer the suite holds while it looks it up is cached, is of the kind the
\* lookup is for, and is filed under no scope.
LookupsReady ==
    /\ place[1] \in Lookups => <<held, None>> \in outcome_scopes
    /\ place[1] = "evidence" => held \in assertions \cup conflicts
    /\ place[1] = "unknowns" => held \in unknowns
    /\ place[1] = "conflicts" => held \in conflicts

SuiteInv == LookupsReady /\ LookupsSucceed

\* The cache forgets nothing of any kind.
LEMMA UnknownsGrow == [Next]_vars => unknowns \subseteq unknowns'
BY DEF Next, vars, AddObservation, AddEvidence, AddClaim, AddTransition,
       QueryState, QueryRelation, GetSnapshot, Register, cache

\* Each call of the suite finds what it looks up.
LEMMA SuiteInvNext ==
    ASSUME BaseInv, SuiteInv, [ClientsNext]_allVars
    PROVE  SuiteInv'
<1> DEFINE Fine == {"kind", "value", "reason", "replay"}
<1>0. /\ [Next]_vars /\ TypeOK
      /\ \A v \in violations : v[1] \in Fine
  BY ClientsUseStore DEF BaseInv, StoreInv, SuiteInv, LookupsSucceed
<1>1. CASE place'[1] \notin Lookups /\ violations' = {}
  BY <1>1 DEF SuiteInv, LookupsReady, LookupsSucceed, Lookups
<1>2. CASE Ingest \/ StartBenchmark
  <2>1. place'[1] = "idle" /\ violations' = {}
    BY <1>2 DEF Ingest, StartBenchmark, ForgetReport
  <2> QED BY <1>1, <2>1 DEF Lookups
<1>3. CASE StartSuite
  <2>1. place' = NextProbe(0) /\ violations' = {}
    BY <1>3 DEF StartSuite, Start
  <2> QED BY <1>1, <2>1, NextReachable DEF Lookups, Reachable
<1>4. CASE BenchmarkStep \/ UNCHANGED allVars
  <2>1. UNCHANGED suiteVars
    BY <1>4 DEF BenchmarkStep, allVars, clientVars
  <2> QED BY <1>0, <2>1, StoresGrow, UnknownsGrow
          DEF SuiteInv, LookupsReady, LookupsSucceed, suiteVars, Lookups
<1>5. CASE SuiteStep
  <2>0. index \in Nat /\ index \in DOMAIN Probes
    BY <1>5, QuestionNumbers DEF SuiteStep, BaseInv, PlacesOK
  <2>1. ASSUME AskState(StateAt(probe.proposition, probe.at)),
               QueryState(probe.proposition, probe.at)
        PROVE  SuiteInv'
    <3> DEFINE x == StateAt(probe.proposition, probe.at)
    <3>1. /\ <<x, None>> \in outcome_scopes'
          /\ x.kind = "state" => x \in assertions'
          /\ x.kind = "unknown" => x \in unknowns'
          /\ x.kind = "conflict" => x \in conflicts'
          /\ x.kind \in {"state", "unknown", "conflict"}
      BY <2>0, <2>1, AskedIsCached, QuestionsAssumption DEF probe
    <3> HIDE DEF x
    <3>2. held' = x /\ place' \in {NextProbe(index), <<FirstLookup(x), index>>}
      BY <2>1 DEF AskState, x
    <3>3. violations' \subseteq violations \cup (Fine \X {index})
      BY <2>1 DEF AskState, Check
    <3>4. LookupsReady'
      BY <2>0, <3>1, <3>2, NextReachable DEF LookupsReady, Lookups, FirstLookup, Reachable
    <3> QED BY <1>0, <3>3, <3>4 DEF SuiteInv, LookupsSucceed
  <2>2. ASSUME AskEvidence(GetEvidence(held)), UNCHANGED vars
        PROVE  SuiteInv'
    <3>1. held \in assertions \cup conflicts /\ <<held, None>> \in outcome_scopes
      BY <2>2 DEF AskEvidence, SuiteInv, LookupsReady, Lookups
    <3>2. held.evidence_refs \subseteq {e.id : e \in GetEvidence(held)}
      BY <3>1, SupportRetrievable DEF BaseInv, StoreInv, EvidenceRetrievable
    <3>3. held' = held /\ violations' = violations
      BY <2>2, <3>2 DEF AskEvidence, Check
    <3>4. place' = IF held.kind = "conflict" THEN <<"conflicts", index>>
                   ELSE NextProbe(index)
      BY <2>2 DEF AskEvidence
    <3>5. held.kind = "conflict" => held \in conflicts
      BY <1>0, <3>1 DEF TypeOK, TypedAssertion
    <3>6. LookupsReady'
      BY <2>0, <2>2, <3>1, <3>3, <3>4, <3>5, NextReachable
         DEF LookupsReady, Lookups, Reachable, vars, cache
    <3> QED BY <1>0, <3>3, <3>6 DEF SuiteInv, LookupsSucceed
  <2>3. ASSUME AskUnknowns(GetUnknowns(None)) \/ AskConflicts(GetConflicts(None)),
               UNCHANGED vars
        PROVE  SuiteInv'
    <3>1. violations' = violations
      BY <2>3 DEF AskUnknowns, AskConflicts, GetUnknowns, GetConflicts, Check,
                  SuiteInv, LookupsReady, Lookups
    <3>2. place' = NextProbe(index)
      BY <2>3 DEF AskUnknowns, AskConflicts
    <3> QED BY <1>0, <2>0, <3>1, <3>2, NextReachable
            DEF SuiteInv, LookupsReady, LookupsSucceed, Lookups, Reachable
  <2>4. ASSUME NEW snapshot, AskSnapshot(snapshot) \/ AskReplay(snapshot)
        PROVE  SuiteInv'
    <3>1. violations' \subseteq violations \cup (Fine \X {index})
      BY <2>4 DEF AskSnapshot, AskReplay, Check
    <3>2. place' \in {<<"replay", index>>, NextSnapshot(index)}
      BY <2>4 DEF AskSnapshot, AskReplay
    <3> QED BY <1>0, <2>0, <3>1, <3>2, NextReachable
            DEF SuiteInv, LookupsReady, LookupsSucceed, Lookups, Reachable
  <2> QED BY <1>5, <2>1, <2>2, <2>3, <2>4 DEF SuiteStep
<1> QED BY <1>2, <1>3, <1>4, <1>5 DEF ClientsNext

\* Over the reference provider the suite never misses what was told.
THEOREM LookupsAlwaysSucceed == ClientsSpec => []LookupsSucceed
<1>1. ClientsInit => SuiteInv
  BY DEF ClientsInit, SuiteInit, SuiteInv, LookupsReady, LookupsSucceed, Lookups
<1>2. BaseInv /\ SuiteInv /\ [ClientsNext]_allVars => SuiteInv'
  BY SuiteInvNext
<1>3. SuiteInv => LookupsSucceed
  BY DEF SuiteInv
<1> QED BY <1>1, <1>2, <1>3, ClientsBase, PTL DEF ClientsSpec

----------------------------------------------------------------------------
(* What makes a provider look unstable *)

\* A claim in force at the instant waited for an assertion resolved then.
Awaited(at) ==
    \E c \in claims : /\ c \in Active(claims, c.proposition, at)
                      /\ \E a \in c.parent_refs \cap assertions : a.resolved_at = at

\* A parent that was awaited stays one that was.
LEMMA AwaitedStays ==
    ASSUME [Next]_vars, NEW at, Awaited(at)
    PROVE  Awaited(at)'
BY StoresGrow DEF Awaited, Active, Visible

\* A step that registers nothing and caches no awaited parent changes nothing that
\* is resolved.
LEMMA NothingAwaitedNext ==
    ASSUME [Next]_vars, UNCHANGED inputs, NEW C \in SUBSET claims, NEW prop, NEW at,
           \A c \in Active(C, prop, at) :
              c.parent_refs \cap (assertions' \ assertions) = {}
    PROVE  ResolveState(C, prop, at, Availability(at)')
              = ResolveState(C, prop, at, Availability(at))
<1> DEFINE av == Availability(at)
           bv == Availability(at)'
           A == Active(C, prop, at)
<1>1. /\ av.evidence_refs = bv.evidence_refs /\ av.source_refs = bv.source_refs
      /\ \A r : r \in bv.assertion_refs <=>
                   \/ r \in av.assertion_refs
                   \/ r \in assertions' \ assertions /\ r.resolved_at <= at
  BY StoresGrow DEF Availability, inputs
<1> HIDE DEF av, bv
<1>2. \A c \in A : MissingProvenanceRefs(c, av) = MissingProvenanceRefs(c, bv)
  BY <1>1 DEF MissingProvenanceRefs
<1>3. {c \in A : MissingProvenanceRefs(c, av) = {}} = {c \in A : MissingProvenanceRefs(c, bv) = {}}
  BY <1>2
<1>4. {MissingProvenanceRefs(c, av) : c \in A} = {MissingProvenanceRefs(c, bv) : c \in A}
  BY <1>2
<1>5. ResolveState(C, prop, at, av) = ResolveState(C, prop, at, bv)
  BY <1>3, <1>4 DEF ResolveState, Usable
<1> QED BY <1>5 DEF av, bv

\* The assertions a snapshot caches are resolved at its instant.
LEMMA SnapshotCaches ==
    ASSUME NEW scope, NEW at, GetSnapshot(scope, at)
    PROVE  /\ UNCHANGED inputs
           /\ \A a \in assertions' \ assertions : a.resolved_at = at
<1>1. Register(SnapshotResults(scope, at), scope)
  BY DEF GetSnapshot
<1>2. ASSUME NEW a \in SnapshotResults(scope, at), a.kind = "state"
      PROVE  a.resolved_at = at
  <2>1. PICK prop : a = ResolveState(Selected(scope), prop, at, Availability(at))
    BY DEF SnapshotResults
  <2> DEFINE U == Usable(Selected(scope), prop, at, Availability(at))
  <2>2. Assertion(prop, at, U).resolved_at = at /\ Conflict(prop, at, U).kind = "conflict"
    BY DEF Assertion, Conflict
  <2>3. a = Assertion(prop, at, U)
    BY <1>2, <2>1, <2>2, ResolveKinds
  <2> QED BY <2>2, <2>3
<1> QED BY <1>1, <1>2 DEF Register, inputs

\* A snapshot changes what a second one finds only by caching what was awaited.
LEMMA SnapshotAgain ==
    ASSUME TypeOK, NEW at, GetSnapshot(None, at), [Next]_vars
    PROVE  Snapshot(None, at)' = Snapshot(None, at) \/ Awaited(at)'
<1> SUFFICES ASSUME ~ Awaited(at)' PROVE Snapshot(None, at)' = Snapshot(None, at)
  OBVIOUS
<1>1. UNCHANGED inputs /\ \A a \in assertions' \ assertions : a.resolved_at = at
  BY SnapshotCaches
<1>2. claims' = claims /\ evidence' = evidence
  BY <1>1 DEF inputs
<1>3. Selected(None) = claims /\ Selected(None)' = claims
  BY <1>2 DEF Selected, ScopeMatches
<1>4. ASSUME NEW prop
      PROVE  ResolveState(claims, prop, at, Availability(at)')
                = ResolveState(claims, prop, at, Availability(at))
  <2>1. ASSUME NEW c \in Active(claims, prop, at)
        PROVE  c.parent_refs \cap (assertions' \ assertions) = {}
    BY <1>1, <1>2 DEF Awaited, Active, Visible
  <2> QED BY <1>1, <2>1, NothingAwaitedNext
<1>5. SnapshotResults(None, at)' = SnapshotResults(None, at)
  <2> DEFINE C == claims
             av == Availability(at)
             bv == Availability(at)'
  <2>1. /\ SnapshotResults(None, at)
             = {ResolveState(C, prop, at, av) : prop \in {c.proposition : c \in C}}
        /\ SnapshotResults(None, at)'
             = {ResolveState(C, prop, at, bv) : prop \in {c.proposition : c \in C}}
    BY <1>3 DEF SnapshotResults
  <2>2. \A prop : ResolveState(C, prop, at, bv) = ResolveState(C, prop, at, av)
    BY <1>4
  <2> HIDE DEF C, av, bv
  <2> QED BY <2>1, <2>2
<1>6. SourceVersions(None, at)' = SourceVersions(None, at)
  BY <1>2, <1>3 DEF SourceVersions
<1> QED BY <1>5, <1>6 DEF Snapshot

\* A second snapshot would be the first one, or what the first one cached was
\* awaited; so it was for every replay reported.
ReplayInv ==
    /\ place[1] = "replay" => held = Snapshot(None, probe.at) \/ Awaited(probe.at)
    /\ \A v \in violations : v[1] = "replay" => Awaited(Probes[v[2]].at)

LEMMA ReplayInvNext ==
    ASSUME BaseInv, ReplayInv, [ClientsNext]_allVars
    PROVE  ReplayInv'
<1>0. [Next]_vars /\ TypeOK
  BY ClientsUseStore DEF BaseInv, StoreInv
<1>a. \A v \in violations : v[1] = "replay" => Awaited(Probes[v[2]].at)'
  BY <1>0, AwaitedStays DEF ReplayInv
<1>1. CASE place'[1] # "replay" /\ violations' = {}
  BY <1>1 DEF ReplayInv
<1>2. CASE Ingest \/ StartBenchmark
  <2>1. place'[1] = "idle" /\ violations' = {}
    BY <1>2 DEF Ingest, StartBenchmark, ForgetReport
  <2> QED BY <1>1, <2>1
<1>3. CASE StartSuite
  <2>1. place' = NextProbe(0) /\ violations' = {}
    BY <1>3 DEF StartSuite, Start
  <2> QED BY <1>1, <2>1, NextReachable DEF Reachable
<1>4. CASE BenchmarkStep
  <2>1. place[1] # "replay" /\ UNCHANGED suiteVars
    BY <1>4 DEF BenchmarkStep, BaseInv, PlacesOK, Working
  <2> QED BY <1>a, <2>1 DEF ReplayInv, suiteVars
<1>5. CASE SuiteStep
  <2>0. index \in Nat
    BY <1>5, QuestionNumbers DEF SuiteStep, BaseInv, PlacesOK
  <2> DEFINE Quietly == /\ place'[1] # "replay"
                        /\ \A v \in violations' : v \in violations \/ v[1] # "replay"
  <2>a. Quietly => ReplayInv'
    BY <1>a DEF ReplayInv
  <2>1. ASSUME NEW answer, AskState(answer) PROVE Quietly
    <3>1. place' \in {NextProbe(index), <<FirstLookup(answer), index>>}
      BY <2>1 DEF AskState
    <3>2. violations' \subseteq violations \cup ({"kind", "value", "reason"} \X {index})
      BY <2>1 DEF AskState, Check
    <3> QED BY <2>0, <3>1, <3>2, NextReachable DEF FirstLookup, Reachable
  <2>2. ASSUME NEW found, AskEvidence(found) \/ AskUnknowns(found) \/ AskConflicts(found)
        PROVE  Quietly
    <3>1. place' \in {NextProbe(index), <<"conflicts", index>>}
      BY <2>2 DEF AskEvidence, AskUnknowns, AskConflicts
    <3>2. violations' \subseteq violations \cup
              ({"evidence", "unknown_lookup", "conflict_lookup"} \X {index})
      BY <2>2 DEF AskEvidence, AskUnknowns, AskConflicts, Check
    <3> QED BY <2>0, <3>1, <3>2, NextReachable DEF Reachable
  <2>3. ASSUME AskSnapshot(Snapshot(None, probe.at)), GetSnapshot(None, probe.at)
        PROVE  ReplayInv'
    <3>1. place' = <<"replay", index>> /\ probe' = probe
      BY <2>3 DEF AskSnapshot, probe, index
    <3>2. held' = Snapshot(None, probe.at) /\ violations' = violations
      BY <2>3 DEF AskSnapshot
    <3>3. Snapshot(None, probe.at)' = Snapshot(None, probe.at) \/ Awaited(probe.at)'
      <4> DEFINE at == probe.at
      <4>1. at' = at
        BY <3>1
      <4>2. GetSnapshot(None, at)
        BY <2>3
      <4> HIDE DEF at
      <4>3. \A t : t = at => Snapshot(None, t)' = Snapshot(None, t) \/ Awaited(t)'
        BY <1>0, <4>2, SnapshotAgain
      <4> QED BY <4>1, <4>3 DEF at
    <3> QED BY <1>a, <3>1, <3>2, <3>3 DEF ReplayInv
  <2>4. ASSUME AskReplay(Snapshot(None, probe.at)) PROVE ReplayInv'
    <3>1. place' = NextSnapshot(index) /\ place[1] = "replay"
      BY <2>4 DEF AskReplay
    <3>2. \A v \in violations' : v \in violations \/ (v[2] = index /\ Awaited(probe.at))
      BY <2>4, <3>1 DEF AskReplay, Check, ReplayInv
    <3>3. \A v \in violations' : v[1] = "replay" => Awaited(Probes[v[2]].at)'
      BY <1>0, <1>a, <3>2, AwaitedStays DEF probe
    <3> QED BY <2>0, <3>1, <3>3, NextReachable DEF ReplayInv, Reachable
  <2> HIDE DEF Quietly
  <2> QED BY <1>5, <2>a, <2>1, <2>2, <2>3, <2>4 DEF SuiteStep
<1>6. CASE UNCHANGED allVars
  <2>1. /\ UNCHANGED suiteVars
        /\ UNCHANGED <<claims, evidence, assertions>>
    BY <1>6 DEF allVars, clientVars, vars, inputs, cache
  <2>2. probe' = probe
    BY <2>1 DEF probe, index, suiteVars
  <2>3. \A at : Snapshot(None, at)' = Snapshot(None, at) /\ Awaited(at)' = Awaited(at)
    BY <2>1 DEF Snapshot, SnapshotResults, SourceVersions, Selected, Availability,
                Awaited
  <2> QED BY <1>a, <2>1, <2>2, <2>3 DEF ReplayInv, suiteVars
<1> QED BY <1>2, <1>3, <1>4, <1>5, <1>6 DEF ClientsNext

\* Over the reference provider the suite reports a replay only where a claim waited
\* for a parent resolved at that instant.
THEOREM ReplaysOnlyAwaited == ClientsSpec => []ReplayOnlyAwaited
<1>1. ClientsInit => ReplayInv
  BY DEF ClientsInit, SuiteInit, ReplayInv
<1>2. BaseInv /\ ReplayInv /\ [ClientsNext]_allVars => ReplayInv'
  BY ReplayInvNext
<1>3. ReplayInv => ReplayOnlyAwaited
  BY DEF ReplayInv, ReplayOnlyAwaited, Awaited
<1> QED BY <1>1, <1>2, <1>3, ClientsBase, PTL DEF ClientsSpec

----------------------------------------------------------------------------
(* What a run passed is still so when it returns *)

\* What a verdict says of a question: the answer is the expected one, or was.
Stands(p) == Expected(p) \/ Overtaken(p)

\* Asking only lets derived claims answer that could not.
LEMMA NewlyUsable ==
    ASSUME [Next]_vars, UNCHANGED inputs, NEW prop, NEW at
    PROVE  LET U == Usable(claims, prop, at, Availability(at))
               V == Usable(claims, prop, at, Availability(at))'
           IN  /\ U \subseteq V
               /\ \A c \in V \ U : c.parent_refs # {}
<1> DEFINE av == Availability(at)
           bv == Availability(at)'
<1>1. /\ av.evidence_refs = bv.evidence_refs /\ av.source_refs = bv.source_refs
      /\ av.assertion_refs \subseteq bv.assertion_refs
  BY StoresGrow DEF Availability, inputs
<1>2. Usable(claims, prop, at, Availability(at))' = Usable(claims, prop, at, bv)
  BY DEF inputs, Usable, Active, Visible
<1> HIDE DEF av, bv
<1>3. Usable(claims, prop, at, av) \subseteq Usable(claims, prop, at, bv)
  BY <1>1, UsableGrows
<1>4. \A c \in Usable(claims, prop, at, bv) \ Usable(claims, prop, at, av) :
         c.parent_refs # {}
  BY <1>1 DEF Usable, MissingProvenanceRefs
<1> QED BY <1>2, <1>3, <1>4 DEF av

\* What an answer is like, by whether claims are usable.
LEMMA AnswerIs ==
    ASSUME NEW C, NEW prop, NEW at, NEW available
    PROVE  LET x == ResolveState(C, prop, at, available)
               U == Usable(C, prop, at, available)
           IN  /\ x.kind \in {"state", "unknown", "conflict"}
               /\ x.kind = "unknown" <=> U = {}
               /\ x.kind = "unknown" => x.reason = UnknownReason(C, prop, at)
<1> DEFINE x == ResolveState(C, prop, at, available)
           U == Usable(C, prop, at, available)
<1>1. /\ U = {} => x.kind = "unknown" /\ x.reason = UnknownReason(C, prop, at)
      /\ U # {} => x = Assertion(prop, at, U) \/ x = Conflict(prop, at, U)
  BY DEF ResolveState, Unknown
<1>2. Assertion(prop, at, U).kind = "state" /\ Conflict(prop, at, U).kind = "conflict"
  BY DEF Assertion, Conflict
<1> HIDE DEF x, U
<1> QED BY <1>1, <1>2 DEF x, U

\* The answer to a question, unscoped, only grows.
LEMMA UnscopedGrowsNext ==
    ASSUME [Next]_vars, NEW prop, NEW at
    PROVE  AtLeast(StateAt(prop, at)', StateAt(prop, at))
<1>1. \A q, t : ScopedStateAt(None, q, t) = StateAt(q, t)
  BY SelectedAll DEF ScopedStateAt, StateAt
<1>2. ScopedStateAt(None, prop, at)' = StateAt(prop, at)'
  BY DEF ScopedStateAt, StateAt, Selected, ScopeMatches
<1> QED BY <1>1, <1>2, AnswersGrowNext

\* Asking does not undo a verdict.
LEMMA StandsNext ==
    ASSUME [Next]_vars, UNCHANGED inputs, NEW p, Stands(p)
    PROVE  Stands(p)'
<1> DEFINE prop == p.proposition
           at == p.at
           x == StateAt(prop, at)
           y == StateAt(prop, at)'
           U == Usable(claims, prop, at, Availability(at))
           V == Usable(claims, prop, at, Availability(at))'
<1>1. U \subseteq V /\ \A c \in V \ U : c.parent_refs # {}
  BY NewlyUsable
<1>2. AtLeast(y, x)
  BY UnscopedGrowsNext
<1>3. /\ x.kind \in {"state", "unknown", "conflict"}
      /\ x.kind = "unknown" <=> U = {}
      /\ x.kind = "unknown" => x.reason = UnknownReason(claims, prop, at)
  BY AnswerIs DEF StateAt
<1>4. /\ y.kind \in {"state", "unknown", "conflict"}
      /\ y.kind = "unknown" <=> V = {}
      /\ y.kind = "unknown" => y.reason = UnknownReason(claims, prop, at)
  <2> DEFINE available == Availability(at)'
  <2>1. y = ResolveState(claims, prop, at, available)
    BY DEF inputs, StateAt, ResolveState, Unknown, UnknownReason, Usable, Active, Visible
  <2>2. V = Usable(claims, prop, at, available)
    BY DEF inputs, Usable, Active, Visible
  <2> HIDE DEF y, V, available
  <2> QED BY <2>1, <2>2, AnswerIs
<1>5. Expected(p)' <=> /\ y.kind = p.kind
                       /\ y.kind = "state" => p.value \in {None, y.value}
                       /\ y.kind = "unknown" => p.reason \in {None, y.reason}
  BY DEF Expected
<1>6. Overtaken(p)' <=> /\ \E c \in V : c.parent_refs # {}
                        /\ p.kind = "unknown" \/ (p.kind = "state" /\ y.kind = "conflict")
  BY DEF Overtaken
<1>7. Expected(p) <=> /\ x.kind = p.kind
                      /\ x.kind = "state" => p.value \in {None, x.value}
                      /\ x.kind = "unknown" => p.reason \in {None, x.reason}
  BY DEF Expected
<1>8. Overtaken(p) <=> /\ \E c \in U : c.parent_refs # {}
                       /\ p.kind = "unknown" \/ (p.kind = "state" /\ x.kind = "conflict")
  BY DEF Overtaken
<1>9. \/ V = U /\ (U # {} => y = x)
      \/ \E c \in V : c.parent_refs # {}
  <2>1. V = U => (U # {} => y = x)
    BY DEF StateAt, ResolveState
  <2> QED BY <1>1, <2>1
<1> HIDE DEF x, y, U, V, prop, at
<1>10. /\ x.kind = "state" => /\ y.kind \in {"state", "conflict"}
                              /\ y.kind = "state" => y.value = x.value
       /\ x.kind = "conflict" => y.kind = "conflict"
  BY <1>2 DEF AtLeast, MaterialKey
<1>11. CASE Expected(p)
  <2>1. CASE p.kind = "unknown"
    BY <1>3, <1>4, <1>5, <1>6, <1>7, <1>9, <1>11, <2>1 DEF Stands
  <2>2. CASE p.kind = "state"
    <3>1. CASE V = U /\ (U # {} => y = x)
      BY <1>3, <1>5, <1>7, <1>11, <2>2, <3>1 DEF Stands
    <3>2. CASE \E c \in V : c.parent_refs # {}
      BY <1>5, <1>6, <1>7, <1>10, <1>11, <2>2, <3>2 DEF Stands
    <3> QED BY <1>9, <3>1, <3>2
  <2>3. CASE p.kind = "conflict"
    BY <1>5, <1>7, <1>10, <1>11, <2>3 DEF Stands
  <2> QED BY <1>3, <1>7, <1>11, <2>1, <2>2, <2>3
<1>12. CASE Overtaken(p)
  BY <1>1, <1>6, <1>8, <1>10, <1>12 DEF Stands
<1> QED BY <1>11, <1>12 DEF Stands

\* The probes a run of the suite has judged when it is at p.
Judged(p) ==
    IF p[1] = "idle" THEN {}
    ELSE IF p[1] = "probe" THEN 1..(p[2] - 1)
    ELSE IF p[1] \in Lookups THEN 1..p[2]
    ELSE DOMAIN Probes

\* After the i-th probe the first i are judged, and no more.
LEMMA JudgedNext ==
    ASSUME NEW i \in Nat
    PROVE  /\ Judged(NextProbe(i)) \subseteq 1..i
           /\ Judged(NextSnapshot(i)) = DOMAIN Probes
<1>1. Judged(NextSnapshot(i)) = DOMAIN Probes /\ Judged(NextSnapshot(0)) = DOMAIN Probes
  <2>1. \A k \in Nat : NextSnapshot(k)[1] \in {"snapshot", "done"}
    BY NextSnapshotIs
  <2> QED BY <2>1 DEF Judged, Lookups
<1>2. CASE NextProbe(i) = <<"probe", i + 1>>
  <2>1. Judged(<<"probe", i + 1>>) = 1..((i + 1) - 1) /\ (i + 1) - 1 = i
    BY DEF Judged
  <2> QED BY <1>1, <1>2, <2>1
<1>3. CASE DOMAIN Probes \subseteq 1..i /\ NextProbe(i) = NextSnapshot(0)
  BY <1>1, <1>3
<1> QED BY <1>1, <1>2, <1>3, NextProbeIs

VerdictInv ==
    \A i \in Judged(place) : (\A v \in violations : v[2] # i) => Stands(Probes[i])

LEMMA VerdictInvNext ==
    ASSUME BaseInv, VerdictInv, [ClientsNext]_allVars
    PROVE  VerdictInv'
<1>0. [Next]_vars
  BY ClientsUseStore DEF BaseInv
<1>1. CASE Ingest \/ StartBenchmark
  <2>1. place'[1] = "idle"
    BY <1>1 DEF Ingest, StartBenchmark, ForgetReport
  <2> QED BY <2>1 DEF VerdictInv, Judged
<1>2. CASE ~ Ingest
  <2>1. UNCHANGED inputs
    BY <1>2, ClientsUseStore DEF BaseInv
  <2>2. \A p : Stands(p) => Stands(p)'
    BY <1>0, <2>1, StandsNext
  <2>3. \A i : Stands(Probes[i]) => Stands(Probes[i])'
    BY <2>2
  <2>4. ASSUME NEW J, Judged(place') \subseteq J, violations \subseteq violations',
               \A i \in J : (\A v \in violations' : v[2] # i)
                               => i \in Judged(place) \/ Stands(Probes[i])
        PROVE  VerdictInv'
    <3>1. Judged(place)' = Judged(place')
      BY DEF Judged
    <3> QED BY <2>3, <2>4, <3>1 DEF VerdictInv
  <2>5. CASE StartSuite
    <3>1. place' = NextProbe(0)
      BY <2>5 DEF StartSuite, Start
    <3>2. Judged(place') = {}
      BY <3>1, JudgedNext
    <3>3. Judged(place)' = Judged(place')
      BY DEF Judged
    <3> QED BY <3>2, <3>3 DEF VerdictInv
  <2>6. CASE UNCHANGED <<place, violations>>
    BY <2>4, <2>6
  <2>7. CASE SuiteStep
    <3>0. index \in Nat
      BY <2>7, QuestionNumbers DEF SuiteStep, BaseInv, PlacesOK
    <3>1. ASSUME AskState(StateAt(probe.proposition, probe.at)) PROVE VerdictInv'
      <4> DEFINE x == StateAt(probe.proposition, probe.at)
      <4>1. Judged(place) = 1..(index - 1)
        BY <3>1 DEF AskState, Judged, index
      <4>2. Judged(place') \subseteq 1..index
        <5>1. place' \in {NextProbe(index), <<FirstLookup(x), index>>}
          BY <3>1 DEF AskState
        <5>2. FirstLookup(x) \in Lookups
          BY DEF FirstLookup, Lookups
        <5>3. Judged(<<FirstLookup(x), index>>) = 1..index
          BY <5>2 DEF Judged, Lookups
        <5> QED BY <3>0, <5>1, <5>3, JudgedNext
      <4>3. violations \subseteq violations'
        BY <3>1 DEF AskState, Check
      <4>4. (\A v \in violations' : v[2] # index) => Stands(Probes[index])
        <5> HIDE DEF x
        <5>1. \/ <<"kind", index>> \in violations'
              \/ /\ x.kind = probe.kind
                 /\ \/ AnswerFits(x)
                    \/ <<"value", index>> \in violations'
                    \/ <<"reason", index>> \in violations'
          BY <3>1 DEF AskState, Check, x
        <5>2. x.kind = probe.kind /\ AnswerFits(x) => Stands(probe)
          BY DEF AnswerFits, Stands, Expected, x
        <5> QED BY <5>1, <5>2 DEF probe
      <4>5. \A i \in 1..index : i = index \/ i \in 1..(index - 1)
        BY <3>0
      <4> QED BY <2>4, <4>1, <4>2, <4>3, <4>4, <4>5
    <3>2. ASSUME NEW found, AskEvidence(found) \/ AskUnknowns(found) \/ AskConflicts(found)
          PROVE  VerdictInv'
      <4>1. Judged(place) = 1..index
        BY <3>2 DEF AskEvidence, AskUnknowns, AskConflicts, Judged, Lookups, index
      <4>2. place' \in {NextProbe(index), <<"conflicts", index>>}
        BY <3>2 DEF AskEvidence, AskUnknowns, AskConflicts
      <4>3. Judged(<<"conflicts", index>>) = 1..index
        BY DEF Judged, Lookups
      <4>4. violations \subseteq violations'
        BY <3>2 DEF AskEvidence, AskUnknowns, AskConflicts, Check
      <4> QED BY <2>4, <3>0, <4>1, <4>2, <4>3, <4>4, JudgedNext
    <3>3. ASSUME NEW snapshot, AskSnapshot(snapshot) \/ AskReplay(snapshot)
          PROVE  VerdictInv'
      <4>1. Judged(place) = DOMAIN Probes
        BY <3>3 DEF AskSnapshot, AskReplay, Judged, Lookups
      <4>2. place' \in {<<"replay", index>>, NextSnapshot(index)}
        BY <3>3 DEF AskSnapshot, AskReplay
      <4>3. Judged(<<"replay", index>>) = DOMAIN Probes
        BY DEF Judged, Lookups
      <4>4. violations \subseteq violations'
        BY <3>3 DEF AskSnapshot, AskReplay, Check
      <4> QED BY <2>4, <3>0, <4>1, <4>2, <4>3, <4>4, JudgedNext
    <3> QED BY <2>7, <3>1, <3>2, <3>3 DEF SuiteStep
  <2> QED BY <1>1, <1>2, <2>5, <2>6, <2>7
          DEF ClientsNext, BenchmarkStep, allVars, clientVars, suiteVars
<1> QED BY <1>1, <1>2

\* What the suite does not report against the reference provider is so when it
\* returns, or was overtaken by a derived claim.
THEOREM SuiteVerdictAlwaysStands == ClientsSpec => []SuiteVerdictStands
<1>1. ClientsInit => VerdictInv
  BY DEF ClientsInit, SuiteInit, VerdictInv, Judged
<1>2. BaseInv /\ VerdictInv /\ [ClientsNext]_allVars => VerdictInv'
  BY VerdictInvNext
<1>3. VerdictInv => SuiteVerdictStands
  <2> SUFFICES ASSUME VerdictInv, place[1] = "done" PROVE SuiteVerdictStands
    BY DEF SuiteVerdictStands
  <2>1. Judged(place) = DOMAIN Probes
    BY DEF Judged, Lookups
  <2> QED BY <2>1 DEF VerdictInv, SuiteVerdictStands, Stands
<1> QED BY <1>1, <1>2, <1>3, ClientsBase, PTL DEF ClientsSpec

----------------------------------------------------------------------------
(* What the benchmark counts *)

\* The answer x is an assertion that a claim in force about p waited for.
AwaitedBy(x, p) ==
    /\ x.kind = "state"
    /\ \E c \in Active(claims, p.proposition, p.at) : x \in c.parent_refs

\* What a query caches is its answer, if that is an assertion, and nothing else.
LEMMA AskedCachesOne ==
    ASSUME NEW prop, NEW at, QueryState(prop, at)
    PROVE  /\ UNCHANGED inputs
           /\ \A a \in assertions' \ assertions :
                 a = StateAt(prop, at) /\ a.kind = "state"
BY DEF QueryState, Register, inputs

\* Asking again gives the first answer, or the first answer was awaited.
LEMMA AskedAgain ==
    ASSUME NEW prop, NEW at, QueryState(prop, at), [Next]_vars
    PROVE  \/ StateAt(prop, at)' = StateAt(prop, at)
           \/ /\ StateAt(prop, at).kind = "state"
              /\ \E c \in Active(claims', prop, at) : StateAt(prop, at) \in c.parent_refs
<1>1. /\ UNCHANGED inputs
      /\ \A a \in assertions' \ assertions : a = StateAt(prop, at) /\ a.kind = "state"
  BY AskedCachesOne
<1>2. ASSUME NEW c \in Active(claims, prop, at),
             c.parent_refs \cap (assertions' \ assertions) # {}
      PROVE  /\ c \in Active(claims', prop, at)
             /\ StateAt(prop, at).kind = "state" /\ StateAt(prop, at) \in c.parent_refs
  <2>1. claims' = claims
    BY <1>1 DEF inputs
  <2> QED BY <1>1, <1>2, <2>1
<1> QED BY <1>1, <1>2, ReadsOnlyUnblockNext

\* The answer the benchmark holds is cached, is about its case, is correct only if
\* that is so, and would be told again unless it was awaited.
FirstReady ==
    /\ step[1] = "evidence" => first \in assertions
    /\ step[1] = "again" =>
          /\ first.kind = "state" => first \in assertions
          /\ \/ first = StateAt(Bench!case.proposition, Bench!case.at)
             \/ AwaitedBy(first, Bench!case)
          /\ Bench!OutcomeCorrect => Stands(Bench!case)

\* The cases a run of the benchmark has counted when it is at s.
Measured(s) ==
    IF s[1] = "idle" THEN {}
    ELSE IF s[1] \in {"first", "again"} THEN 1..(s[2] - 1)
    ELSE IF s[1] = "evidence" THEN 1..s[2]
    ELSE DOMAIN Cases

CountsRight ==
    /\ Bench!Counted("expected") = Measured(step)
    /\ Bench!Counted("correct") \subseteq Bench!Counted("expected")
    /\ \A i \in Bench!Counted("correct") : Stands(Cases[i])

BenchInv == FirstReady /\ CountsRight

\* Counting a case in some counters adds it to those and to no other.
LEMMA CountAdds ==
    ASSUME NEW counters, Bench!Count(counters), NEW name
    PROVE  Bench!Counted(name)'
              = Bench!Counted(name) \cup (IF name \in counters THEN {Bench!number} ELSE {})
<1> DEFINE new == IF name \in counters THEN {Bench!number} ELSE {}
<1>1. score' = score \cup (counters \X {Bench!number})
  BY DEF Bench!Count
<1>2. /\ Bench!Counted(name) = {c[2] : c \in {d \in score : d[1] = name}}
      /\ Bench!Counted(name)' = {c[2] : c \in {d \in score' : d[1] = name}}
  BY DEF Bench!Counted
<1>3. ASSUME NEW n
      PROVE  n \in Bench!Counted(name)' <=> n \in Bench!Counted(name) \cup new
  <2>1. CASE n \in Bench!Counted(name)
    BY <1>1, <1>2, <2>1
  <2>2. CASE n \in new
    <3>1. <<name, n>> \in score' /\ <<name, n>>[1] = name /\ <<name, n>>[2] = n
      BY <1>1, <2>2
    <3> QED BY <1>2, <2>2, <3>1
  <2>3. CASE n \in Bench!Counted(name)' /\ n \notin Bench!Counted(name)
    <3>1. PICK c \in score' : c[1] = name /\ c[2] = n
      BY <1>2, <2>3
    <3>2. c \notin score
      BY <1>2, <2>3, <3>1
    <3>3. c \in counters \X {Bench!number}
      BY <1>1, <3>1, <3>2
    <3>4. c[1] \in counters /\ c[2] = Bench!number
      BY <3>3
    <3> QED BY <2>3, <3>1, <3>4
  <2> QED BY <2>1, <2>2, <2>3
<1> HIDE DEF new
<1>4. Bench!Counted(name)' = Bench!Counted(name) \cup new
  BY <1>3
<1> QED BY <1>4 DEF new

\* After the i-th case the first i are counted.
LEMMA MeasuredNext ==
    ASSUME NEW i \in DOMAIN Cases
    PROVE  Measured(Bench!NextCase(i)) = 1..i
<1>1. i \in Nat /\ 1..i \subseteq DOMAIN Cases
  BY QuestionNumbers
<1>2. CASE Bench!NextCase(i) = <<"first", i + 1>>
  <2>1. Measured(<<"first", i + 1>>) = 1..((i + 1) - 1) /\ (i + 1) - 1 = i
    BY <1>1 DEF Measured
  <2> QED BY <1>2, <2>1
<1>3. CASE DOMAIN Cases \subseteq 1..i /\ Bench!NextCase(i) = <<"done", 0>>
  <2>1. Measured(<<"done", 0>>) = DOMAIN Cases
    BY DEF Measured
  <2> QED BY <1>1, <1>3, <2>1
<1> QED BY <1>1, <1>2, <1>3, NextCaseIs

LEMMA NothingMeasured == Measured(Bench!NextCase(0)) = {}
<1>1. CASE Bench!NextCase(0) = <<"first", 0 + 1>>
  <2>1. Measured(<<"first", 0 + 1>>) = 1..((0 + 1) - 1)
    BY DEF Measured
  <2> QED BY <1>1, <2>1
<1>2. CASE DOMAIN Cases \subseteq 1..0 /\ Bench!NextCase(0) = <<"done", 0>>
  <2>1. Measured(<<"done", 0>>) = DOMAIN Cases
    BY DEF Measured
  <2> QED BY <1>2, <2>1
<1> QED BY <1>1, <1>2, NextCaseIs

LEMMA BenchInvNext ==
    ASSUME BaseInv, BenchInv, [ClientsNext]_allVars
    PROVE  BenchInv'
<1>0. [Next]_vars
  BY ClientsUseStore DEF BaseInv
<1>a. Measured(step)' = Measured(step')
  BY DEF Measured
<1>1. CASE step'[1] = "idle" /\ score' = {}
  <2>1. Measured(step') = {}
    BY <1>1 DEF Measured
  <2> QED BY <1>1, <1>a, <2>1 DEF BenchInv, FirstReady, CountsRight, Bench!Counted
<1>2. CASE Ingest \/ StartSuite
  BY <1>1, <1>2 DEF Ingest, StartSuite, ForgetScore
<1>3. CASE StartBenchmark
  <2>1. step' = Bench!NextCase(0) /\ score' = {}
    BY <1>3 DEF StartBenchmark, Bench!Begin
  <2>2. step'[1] \in {"first", "done"}
    BY <2>1, NextCaseIs
  <2> QED BY <1>a, <2>1, <2>2, NothingMeasured
          DEF BenchInv, FirstReady, CountsRight, Bench!Counted
<1>4. CASE ~ Ingest
  <2>1. UNCHANGED inputs
    BY <1>4, ClientsUseStore DEF BaseInv
  <2>2. \A i : Stands(Cases[i]) => Stands(Cases[i])'
    <3>1. \A p : Stands(p) => Stands(p)'
      BY <1>0, <2>1, StandsNext
    <3> QED BY <3>1
  <2>3. ASSUME UNCHANGED score, Measured(step') = Measured(step) PROVE CountsRight'
    <3>1. \A name : Bench!Counted(name)' = Bench!Counted(name)
      BY <2>3 DEF Bench!Counted
    <3> QED BY <1>a, <2>2, <2>3, <3>1 DEF CountsRight, BenchInv
  <2>4. CASE SuiteStep \/ UNCHANGED allVars
    <3>1. UNCHANGED benchmarkVars
      BY <2>4 DEF SuiteStep, allVars, clientVars
    <3>2. CountsRight'
      BY <2>3, <3>1 DEF benchmarkVars
    <3>3. step[1] = "again" => UNCHANGED <<claims, evidence, assertions>>
      BY <2>4 DEF SuiteStep, BaseInv, PlacesOK, Bench!Measuring, allVars, vars, inputs, cache
    <3>4. step[1] = "again" =>
             /\ StateAt(Bench!case.proposition, Bench!case.at)'
                   = StateAt(Bench!case.proposition, Bench!case.at)
             /\ Bench!OutcomeCorrect' = Bench!OutcomeCorrect
             /\ Bench!case' = Bench!case
      BY <3>1, <3>3 DEF StateAt, Availability, Bench!OutcomeCorrect, Bench!case,
                        Bench!number, benchmarkVars
    <3>5. step[1] = "again" =>
             /\ AwaitedBy(first, Bench!case)' = AwaitedBy(first, Bench!case)
             /\ Stands(Bench!case)' = Stands(Bench!case)
      BY <3>1, <3>3, <3>4
         DEF AwaitedBy, Stands, Expected, Overtaken, Availability, benchmarkVars
    <3>6. assertions \subseteq assertions'
      BY <1>0, StoresGrow
    <3> QED BY <3>1, <3>2, <3>4, <3>5, <3>6 DEF BenchInv, FirstReady, benchmarkVars
  <2>5. CASE BenchmarkStep
    <3> DEFINE n == Bench!number
               p == Bench!case
               x == StateAt(p.proposition, p.at)
    <3>0. n \in DOMAIN Cases /\ p = Cases[n] /\ p.proposition \in Propositions /\ p.at \in Time
      BY <2>5, QuestionsAssumption
         DEF BenchmarkStep, BaseInv, PlacesOK, Bench!case, Bench!number
    <3>n. n \in Nat /\ (1..(n - 1)) \cup {n} = 1..n
      <4>1. n \in Nat /\ n >= 1
        BY <3>0, QuestionNumbers
      <4> HIDE DEF n
      <4> QED BY <4>1
    <3>1. ASSUME Bench!AskFirst(x), QueryState(p.proposition, p.at)
          PROVE  BenchInv'
      <4>1. /\ step[1] = "first" /\ step' = <<"again", n>> /\ first' = x /\ score' = score
            /\ n = step[2]
        BY <3>1 DEF Bench!AskFirst, Bench!number
      <4>2. Measured(step) = 1..(n - 1) /\ Measured(step') = 1..(n - 1)
        BY <4>1 DEF Measured
      <4>3. CountsRight'
        BY <2>3, <4>1, <4>2
      <4>4. x.kind = "state" => x \in assertions'
        BY <3>0, <3>1, AskedIsCached
      <4>5. n' = n /\ p' = p
        BY <4>1 DEF Bench!number, Bench!case
      <4>6. \/ x' = first'
            \/ /\ first'.kind = "state"
               /\ \E c \in Active(claims', p.proposition, p.at) : first' \in c.parent_refs
        <5> DEFINE prop == p.proposition
                   at == p.at
        <5>1. prop' = prop /\ at' = at
          BY <4>5
        <5> HIDE DEF n, p, x, prop, at
        <5>2. \A q, t : QueryState(q, t) =>
                 \/ StateAt(q, t)' = StateAt(q, t)
                 \/ /\ StateAt(q, t).kind = "state"
                    /\ \E c \in Active(claims', q, t) : StateAt(q, t) \in c.parent_refs
          BY <1>0, AskedAgain
        <5>3. \/ StateAt(prop, at)' = StateAt(prop, at)
              \/ /\ StateAt(prop, at).kind = "state"
                 /\ \E c \in Active(claims', prop, at) : StateAt(prop, at) \in c.parent_refs
          BY <3>1, <5>1, <5>2 DEF prop, at
        <5>4. x = StateAt(prop, at) /\ x' = StateAt(prop, at)'
          BY DEF x, prop, at
        <5> QED BY <4>1, <5>3, <5>4 DEF prop, at
      <4>7. Bench!OutcomeCorrect' => Stands(p)'
        <5>1. Bench!OutcomeCorrect' => Expected(p)
          BY <4>1, <4>5 DEF Bench!OutcomeCorrect, Expected
        <5> HIDE DEF n, p, x
        <5>2. PICK i : i = n
          OBVIOUS
        <5>3. Stands(p) => Stands(Cases[i])'
          BY <2>2, <3>0, <5>2
        <5>4. p' = Cases[i]
          BY <3>0, <4>5, <5>2
        <5>5. Stands(p)' = Stands(Cases[i])'
          BY <5>4 DEF Stands, Expected, Overtaken
        <5> QED BY <5>1, <5>3, <5>5 DEF Stands
      <4>8. x' = first' \/ AwaitedBy(first, p)'
        BY <4>5, <4>6 DEF AwaitedBy
      <4> QED BY <4>1, <4>3, <4>4, <4>7, <4>8 DEF BenchInv, FirstReady
    <3>2. ASSUME Bench!AskAgain(x) PROVE BenchInv'
      <4> DEFINE counters == {"expected", "replay_total"}
                    \cup (IF x = first THEN {"replay_correct"} ELSE {})
                    \cup (IF Bench!OutcomeCorrect THEN {"correct"} ELSE {})
      <4>1. /\ step[1] = "again" /\ Bench!Count(counters) /\ first' = first /\ n = step[2]
            /\ step' = IF first.kind = "state" THEN <<"evidence", n>> ELSE Bench!NextCase(n)
        BY <3>2 DEF Bench!AskAgain, Bench!number
      <4>2. Measured(step) = 1..(n - 1)
        BY <4>1 DEF Measured
      <4>3. Measured(step') = 1..n
        <5>1. Measured(<<"evidence", n>>) = 1..n
          BY DEF Measured
        <5> QED BY <3>0, <4>1, <5>1, MeasuredNext
      <4>4. step'[1] # "again" /\ (step'[1] = "evidence" => first.kind = "state")
        <5>1. Bench!NextCase(n)[1] \in {"first", "done"}
          BY <3>n, NextCaseIs
        <5> QED BY <4>1, <5>1
      <4>5. FirstReady'
        <5>1. first.kind = "state" => first \in assertions
          BY <4>1 DEF BenchInv, FirstReady
        <5> QED BY <1>0, <4>1, <4>4, <5>1, StoresGrow DEF FirstReady
      <4>6. \A name : Bench!Counted(name)'
                 = Bench!Counted(name) \cup (IF name \in counters THEN {n} ELSE {})
        BY <4>1, CountAdds
      <4>7. /\ Bench!OutcomeCorrect => Stands(Cases[n])
        BY <3>0, <4>1 DEF BenchInv, FirstReady
      <4>8. /\ Bench!Counted("expected")' = Bench!Counted("expected") \cup {n}
            /\ Bench!Counted("correct")'
                  = Bench!Counted("correct") \cup (IF Bench!OutcomeCorrect THEN {n} ELSE {})
            /\ Bench!Counted("replay_total")' = Bench!Counted("replay_total") \cup {n}
            /\ Bench!Counted("replay_correct")'
                  = Bench!Counted("replay_correct") \cup (IF x = first THEN {n} ELSE {})
        BY <4>6
      <4> HIDE DEF n, p, x, counters
      <4>9. CountsRight'
        BY <1>a, <2>2, <3>n, <4>2, <4>3, <4>7, <4>8 DEF BenchInv, CountsRight
      <4> QED BY <4>5, <4>9 DEF BenchInv
    <3>3. ASSUME NEW found, Bench!AskEvidence(found) PROVE BenchInv'
      <4> DEFINE counters == {"actual_assertions"}
                    \cup (IF Bench!Supported(found) THEN {"provenance_supported"} ELSE {})
                    \cup (IF p.kind # "state" \/ ~Bench!Supported(found)
                            THEN {"unsupported_assertions"} ELSE {})
      <4>1. /\ step[1] = "evidence" /\ Bench!Count(counters) /\ n = step[2]
            /\ step' = Bench!NextCase(n)
        BY <3>3 DEF Bench!AskEvidence, Bench!number
      <4>2. Measured(step) = 1..n /\ Measured(step') = 1..n
        BY <3>0, <4>1, MeasuredNext DEF Measured
      <4>3. step'[1] \in {"first", "done"}
        BY <3>n, <4>1, NextCaseIs
      <4>4. /\ Bench!Counted("expected")' = Bench!Counted("expected")
            /\ Bench!Counted("correct")' = Bench!Counted("correct")
            /\ Bench!Counted("replay_total")' = Bench!Counted("replay_total")
            /\ Bench!Counted("replay_correct")' = Bench!Counted("replay_correct")
        <5>1. \A name : Bench!Counted(name)'
                 = Bench!Counted(name) \cup (IF name \in counters THEN {n} ELSE {})
          BY <4>1, CountAdds
        <5>2. \A name \in {"expected", "correct", "replay_total", "replay_correct"} :
                 name \notin counters
          OBVIOUS
        <5> HIDE DEF counters
        <5> QED BY <5>1, <5>2
      <4> HIDE DEF n, p, x, counters
      <4>5. CountsRight'
        BY <1>a, <2>2, <4>2, <4>4 DEF BenchInv, CountsRight
      <4> QED BY <4>3, <4>5 DEF BenchInv, FirstReady
    <3> QED BY <2>5, <3>1, <3>2, <3>3 DEF BenchmarkStep
  <2> QED BY <1>2, <1>3, <1>4, <2>4, <2>5 DEF ClientsNext
<1> QED BY <1>2, <1>4

LEMMA BenchInvInit == ClientsInit => BenchInv
BY DEF ClientsInit, Bench!BenchmarkInit, BenchInv, FirstReady, CountsRight,
       Measured, Bench!Counted

LEMMA BenchBase == ClientsSpec => [](BaseInv /\ BenchInv)
BY BenchInvInit, BenchInvNext, ClientsBase, PTL DEF ClientsSpec

\* An answer that is new to the replays that differ was counted when the first
\* answer was an assertion some claim about the case waited for.
LEMMA ReplaysNext ==
    ASSUME BaseInv, BenchInv, [ClientsNext]_allVars, NEW i \in Differing' \ Differing
    PROVE  /\ first.kind = "state"
           /\ \E c \in Active(claims, Cases[i].proposition, Cases[i].at) :
                 first \in c.parent_refs
<1> DEFINE p == Bench!case
           x == StateAt(p.proposition, p.at)
           n == Bench!number
<1>1. CASE score' = {} \/ score' = score
  BY <1>1 DEF Differing, Bench!Counted
<1>2. CASE BenchmarkStep /\ Bench!AskAgain(x)
  <2> DEFINE counters == {"expected", "replay_total"}
                    \cup (IF x = first THEN {"replay_correct"} ELSE {})
                    \cup (IF Bench!OutcomeCorrect THEN {"correct"} ELSE {})
  <2>1. step[1] = "again" /\ Bench!Count(counters) /\ p = Cases[n]
    BY <1>2 DEF Bench!AskAgain, Bench!case
  <2>2. /\ Bench!Counted("replay_total")' = Bench!Counted("replay_total") \cup {n}
        /\ Bench!Counted("replay_correct")'
              = Bench!Counted("replay_correct") \cup (IF x = first THEN {n} ELSE {})
    BY <2>1, CountAdds
  <2>3. x = first \/ AwaitedBy(first, p)
    BY <2>1 DEF BenchInv, FirstReady
  <2> HIDE DEF p, x, n, counters
  <2>4. i = n /\ x # first
    BY <2>2 DEF Differing
  <2> QED BY <2>1, <2>3, <2>4 DEF AwaitedBy
<1>3. ASSUME NEW found, Bench!AskEvidence(found) PROVE FALSE
  <2> DEFINE counters == {"actual_assertions"}
                    \cup (IF Bench!Supported(found) THEN {"provenance_supported"} ELSE {})
                    \cup (IF p.kind # "state" \/ ~Bench!Supported(found)
                            THEN {"unsupported_assertions"} ELSE {})
  <2>1. Bench!Count(counters)
    BY <1>3 DEF Bench!AskEvidence
  <2>2. \A name : Bench!Counted(name)'
             = Bench!Counted(name) \cup (IF name \in counters THEN {n} ELSE {})
    BY <2>1, CountAdds
  <2>3. "replay_total" \notin counters /\ "replay_correct" \notin counters
    OBVIOUS
  <2> HIDE DEF counters, n, p
  <2>4. Differing' = Differing
    BY <2>2, <2>3 DEF Differing
  <2> QED BY <2>4
<1>4. CASE BenchmarkStep
  <2>1. \/ Bench!AskFirst(x)
        \/ Bench!AskAgain(x)
        \/ \E found : Bench!AskEvidence(found)
    BY <1>4 DEF BenchmarkStep
  <2>2. Bench!AskFirst(x) => score' = score
    BY DEF Bench!AskFirst
  <2> QED BY <1>1, <1>2, <1>3, <1>4, <2>1, <2>2
<1> QED BY <1>1, <1>4
        DEF ClientsNext, Ingest, StartSuite, StartBenchmark, SuiteStep, ForgetScore,
            Bench!Begin, benchmarkVars, allVars, clientVars

\* An answer the benchmark finds changed when it asks again is derived from the very
\* assertion the first call answered with.
THEOREM BenchmarkAlwaysReplays == ClientsSpec => BenchmarkReplays
<1> DEFINE Replays ==
        \A i \in Differing' \ Differing :
           /\ first.kind = "state"
           /\ \E c \in Active(claims, Cases[i].proposition, Cases[i].at) :
                 first \in c.parent_refs
<1>1. BaseInv /\ BenchInv /\ [ClientsNext]_allVars => Replays
  BY ReplaysNext
<1> QED BY <1>1, BenchBase, PTL DEF ClientsSpec, BenchmarkReplays

\* When the benchmark looks up the evidence of its answer it finds all of it, so
\* an assertion it calls unsupported cites none.
THEOREM UnsupportedAlwaysDerived == ClientsSpec => []UnsupportedOnlyDerived
<1>1. BaseInv /\ BenchInv => UnsupportedOnlyDerived
  BY SupportRetrievable
     DEF BaseInv, StoreInv, EvidenceRetrievable, BenchInv, FirstReady,
         UnsupportedOnlyDerived, Bench!Supported
<1> QED BY <1>1, BenchBase, PTL

\* When every case is scored as correct, every case gets its expected answer when
\* the run returns or was overtaken by a derived claim.
THEOREM BenchmarkVerdictAlwaysStands == ClientsSpec => []BenchmarkVerdictStands
<1>1. BenchInv => BenchmarkVerdictStands
  <2> SUFFICES ASSUME BenchInv, step[1] = "done", Bench!PerfectScore
               PROVE  \A i \in DOMAIN Cases : Expected(Cases[i]) \/ Overtaken(Cases[i])
    BY DEF BenchmarkVerdictStands
  <2> DEFINE correct  == Bench!Counted("correct")
             expected == Bench!Counted("expected")
  <2>1. expected = 1..Len(Cases) /\ DOMAIN Cases = 1..Len(Cases) /\ Len(Cases) \in Nat
    BY QuestionNumbers DEF BenchInv, CountsRight, Measured
  <2>2. correct \subseteq expected /\ \A i \in correct : Stands(Cases[i])
    BY DEF BenchInv, CountsRight
  <2>3. Cardinality(correct) = Cardinality(expected)
    BY DEF Bench!PerfectScore, Bench!Perfect, Bench!Cardinality, Cardinality
  <2> HIDE DEF correct, expected
  <2>4. IsFiniteSet(expected)
    BY <2>1, FS_Interval
  <2>5. correct = expected
    BY <2>2, <2>3, <2>4, FS_Subset
  <2> QED BY <2>1, <2>2, <2>5 DEF Stands
<1> QED BY <1>1, BenchBase, PTL

----------------------------------------------------------------------------
(* A run comes to its end *)

\* What is left of a run is a number, and is nothing only once it is over.
LeftInv ==
    /\ CallsLeft(place) \in 0..(5 * Len(Probes))
    /\ Working <=> CallsLeft(place) > 0
    /\ Bench!CallsLeft(step) \in 0..(3 * Len(Cases))
    /\ Bench!Measuring <=> Bench!CallsLeft(step) > 0

LEMMA SuiteLeft ==
    ASSUME NEW p, p[2] \in DOMAIN Probes, p[1] \in {"probe", "snapshot", "replay"} \cup Lookups
    PROVE  CallsLeft(p) \in 1..(5 * Len(Probes))
<1>1. p[2] \in 1..Len(Probes) /\ Len(Probes) \in Nat
  BY QuestionNumbers
<1>2. CASE p[1] \in {"snapshot", "replay"}
  <2>1. \/ CallsLeft(p) = 1 + 2 * (Len(Probes) - p[2])
        \/ CallsLeft(p) = 2 + 2 * (Len(Probes) - p[2])
    BY <1>2 DEF CallsLeft
  <2> QED BY <1>1, <2>1
<1>3. CASE p[1] \in {"probe"} \cup Lookups
  <2> DEFINE more == 3 * (Len(Probes) - p[2]) + 2 * Len(Probes)
  <2>1. CallsLeft(p) \in {1 + more, 2 + more, 3 + more}
    <3>1. /\ p[1] \notin {"idle", "done", "snapshot", "replay"}
          /\ p[1] = "probe" \/ p[1] = "evidence" \/ p[1] \notin {"probe", "evidence", "snapshot"}
      BY <1>3 DEF Lookups
    <3>2. 1 + more = 1 + 3 * (Len(Probes) - p[2]) + 2 * Len(Probes)
          /\ 2 + more = 2 + 3 * (Len(Probes) - p[2]) + 2 * Len(Probes)
          /\ 3 + more = 3 + 3 * (Len(Probes) - p[2]) + 2 * Len(Probes)
      BY <1>1
    <3> HIDE DEF more
    <3> QED BY <3>1, <3>2 DEF CallsLeft
  <2> QED BY <1>1, <2>1
<1> QED BY <1>2, <1>3

LEMMA BenchmarkLeft ==
    ASSUME NEW p, p[2] \in DOMAIN Cases, p[1] \in {"first", "again", "evidence"}
    PROVE  Bench!CallsLeft(p) \in 1..(3 * Len(Cases))
<1>1. p[2] \in 1..Len(Cases) /\ Len(Cases) \in Nat
  BY QuestionNumbers
<1>2. \E here \in 1..3 : Bench!CallsLeft(p) = here + 3 * (Len(Cases) - p[2])
  BY DEF Bench!CallsLeft
<1> QED BY <1>1, <1>2

LEMMA LeftFromPlaces == PlacesOK => LeftInv
<1> SUFFICES ASSUME PlacesOK PROVE LeftInv
  OBVIOUS
<1>0. Len(Probes) \in Nat /\ Len(Cases) \in Nat
  BY QuestionNumbers
<1>1. CallsLeft(place) \in 0..(5 * Len(Probes)) /\ (Working <=> CallsLeft(place) > 0)
  <2>1. CASE Working
    <3>1. CallsLeft(place) \in 1..(5 * Len(Probes))
      BY <2>1, SuiteLeft DEF PlacesOK, Working, index
    <3> QED BY <1>0, <2>1, <3>1
  <2>2. CASE ~ Working
    <3>1. CallsLeft(place) = 0
      BY <2>2 DEF Working, CallsLeft
    <3> QED BY <1>0, <2>2, <3>1
  <2> QED BY <2>1, <2>2
<1>2. /\ Bench!CallsLeft(step) \in 0..(3 * Len(Cases))
      /\ Bench!Measuring <=> Bench!CallsLeft(step) > 0
  <2>1. CASE Bench!Measuring
    <3>1. Bench!CallsLeft(step) \in 1..(3 * Len(Cases))
      BY <2>1, BenchmarkLeft DEF PlacesOK, Bench!Measuring
    <3> QED BY <1>0, <2>1, <3>1
  <2>2. CASE ~ Bench!Measuring
    <3>1. Bench!CallsLeft(step) = 0
      BY <2>2 DEF Bench!Measuring, Bench!CallsLeft
    <3> QED BY <1>0, <2>2, <3>1
  <2> QED BY <2>1, <2>2
<1> QED BY <1>1, <1>2 DEF LeftInv

\* Going on from the i-th probe leaves no more than the probes after it need.
LEMMA TurnsLeave ==
    ASSUME NEW i \in DOMAIN Probes
    PROVE  /\ CallsLeft(NextProbe(i)) \in Nat
           /\ CallsLeft(NextProbe(i)) <= 3 * (Len(Probes) - i) + 2 * Len(Probes)
           /\ CallsLeft(NextSnapshot(i)) \in Nat
           /\ CallsLeft(NextSnapshot(i)) <= 2 * (Len(Probes) - i)
<1>1. i \in Nat /\ i <= Len(Probes) /\ Len(Probes) \in Nat
  BY QuestionNumbers
<1>2. ASSUME NEW j \in Nat, j <= Len(Probes)
      PROVE  /\ CallsLeft(NextSnapshot(j)) \in Nat
             /\ CallsLeft(NextSnapshot(j)) <= 2 * (Len(Probes) - j)
  BY <1>2, NextSnapshotIs, QuestionNumbers DEF CallsLeft
<1>3. CASE NextProbe(i) = NextSnapshot(0)
  BY <1>1, <1>2, <1>3
<1>4. CASE i + 1 \in DOMAIN Probes /\ NextProbe(i) = <<"probe", i + 1>>
  <2>1. CallsLeft(<<"probe", i + 1>>) = 3 + 3 * (Len(Probes) - (i + 1)) + 2 * Len(Probes)
    BY DEF CallsLeft
  <2>2. i + 1 \in 1..Len(Probes)
    BY <1>4, QuestionNumbers
  <2>3. /\ CallsLeft(<<"probe", i + 1>>) \in Nat
        /\ CallsLeft(<<"probe", i + 1>>) <= 3 * (Len(Probes) - i) + 2 * Len(Probes)
    BY <1>1, <2>1, <2>2
  <2> QED BY <1>1, <1>2, <1>4, <2>3
<1> QED BY <1>1, <1>2, <1>3, <1>4, NextProbeIs

\* Each call of the suite leaves fewer calls than there were before it.
LEMMA SuiteStepLess ==
    ASSUME PlacesOK, SuiteStep
    PROVE  CallsLeft(place') < CallsLeft(place)
<1>1. index \in DOMAIN Probes /\ index \in Nat /\ index <= Len(Probes) /\ Len(Probes) \in Nat
  BY QuestionNumbers DEF SuiteStep, PlacesOK
<1> DEFINE judging  == 3 * (Len(Probes) - index) + 2 * Len(Probes)
           snapping == 2 * (Len(Probes) - index)
           onward   == CallsLeft(NextProbe(index))
           after    == CallsLeft(NextSnapshot(index))
<1>2. /\ judging \in Nat /\ snapping \in Nat
      /\ onward \in Nat /\ onward <= judging
      /\ after \in Nat /\ after <= snapping
  BY <1>1, TurnsLeave
<1>3. ASSUME NEW p, p[2] = index
      PROVE  /\ p[1] = "probe" => CallsLeft(p) = 3 + judging
             /\ p[1] = "evidence" => CallsLeft(p) = 2 + judging
             /\ p[1] \in {"unknowns", "conflicts"} => CallsLeft(p) = 1 + judging
             /\ p[1] = "snapshot" => CallsLeft(p) = 2 + snapping
             /\ p[1] = "replay" => CallsLeft(p) = 1 + snapping
  BY <1>1, <1>3 DEF CallsLeft
<1>4. /\ place[1] = "probe" => CallsLeft(place) = 3 + judging
      /\ place[1] = "evidence" => CallsLeft(place) = 2 + judging
      /\ place[1] \in {"unknowns", "conflicts"} => CallsLeft(place) = 1 + judging
      /\ place[1] = "snapshot" => CallsLeft(place) = 2 + snapping
      /\ place[1] = "replay" => CallsLeft(place) = 1 + snapping
  BY <1>3 DEF index
<1>5. /\ CallsLeft(<<"evidence", index>>) = 2 + judging
      /\ CallsLeft(<<"unknowns", index>>) = 1 + judging
      /\ CallsLeft(<<"conflicts", index>>) = 1 + judging
      /\ CallsLeft(<<"replay", index>>) = 1 + snapping
  BY <1>3
<1> DEFINE moved ==
      \/ place[1] = "probe"
            /\ \/ place' = NextProbe(index)
               \/ place' = <<"evidence", index>>
               \/ place' = <<"unknowns", index>>
      \/ place[1] = "evidence"
            /\ (place' = NextProbe(index) \/ place' = <<"conflicts", index>>)
      \/ place[1] \in {"unknowns", "conflicts"} /\ place' = NextProbe(index)
      \/ place[1] = "snapshot" /\ place' = <<"replay", index>>
      \/ place[1] = "replay" /\ place' = NextSnapshot(index)
<1>6. moved
  <2>1. \A answer : AskState(answer) => moved
    BY DEF AskState, FirstLookup
  <2>2. \A found : AskEvidence(found) \/ AskUnknowns(found) \/ AskConflicts(found) => moved
    BY DEF AskEvidence, AskUnknowns, AskConflicts
  <2>3. \A snapshot : AskSnapshot(snapshot) \/ AskReplay(snapshot) => moved
    BY DEF AskSnapshot, AskReplay
  <2> HIDE DEF moved
  <2> QED BY <2>1, <2>2, <2>3 DEF SuiteStep
<1>7. \/ CallsLeft(place) = 3 + judging
            /\ CallsLeft(place') \in {onward, 2 + judging, 1 + judging}
      \/ CallsLeft(place) = 2 + judging /\ CallsLeft(place') \in {onward, 1 + judging}
      \/ CallsLeft(place) = 1 + judging /\ CallsLeft(place') = onward
      \/ CallsLeft(place) = 2 + snapping /\ CallsLeft(place') = 1 + snapping
      \/ CallsLeft(place) = 1 + snapping /\ CallsLeft(place') = after
  <2> HIDE DEF judging, snapping
  <2> QED BY <1>4, <1>5, <1>6
<1> HIDE DEF judging, snapping, onward, after
<1> QED BY <1>2, <1>7

\* Each call of the benchmark leaves fewer calls than there were before it.
LEMMA BenchmarkStepLess ==
    ASSUME PlacesOK, BenchmarkStep
    PROVE  Bench!CallsLeft(step') < Bench!CallsLeft(step)
<1> DEFINE n == step[2]
<1>1. n \in DOMAIN Cases /\ n \in Nat /\ n <= Len(Cases) /\ Len(Cases) \in Nat
  BY QuestionNumbers DEF BenchmarkStep, PlacesOK
<1>2. /\ step[1] = "first" => Bench!CallsLeft(step) = 3 + 3 * (Len(Cases) - n)
      /\ step[1] = "again" => Bench!CallsLeft(step) = 2 + 3 * (Len(Cases) - n)
      /\ step[1] = "evidence" => Bench!CallsLeft(step) = 1 + 3 * (Len(Cases) - n)
      /\ Bench!CallsLeft(<<"again", n>>) = 2 + 3 * (Len(Cases) - n)
      /\ Bench!CallsLeft(<<"evidence", n>>) = 1 + 3 * (Len(Cases) - n)
  BY <1>1 DEF Bench!CallsLeft
<1>3. /\ Bench!CallsLeft(Bench!NextCase(n)) \in Nat
      /\ Bench!CallsLeft(Bench!NextCase(n)) <= 3 * (Len(Cases) - n)
  BY <1>1, NextCaseIs DEF Bench!CallsLeft
<1>4. \/ step[1] = "first" /\ step' = <<"again", n>>
      \/ step[1] = "again" /\ step' \in {<<"evidence", n>>, Bench!NextCase(n)}
      \/ step[1] = "evidence" /\ step' = Bench!NextCase(n)
  BY DEF BenchmarkStep, Bench!AskFirst, Bench!AskAgain, Bench!AskEvidence, Bench!number
<1> HIDE DEF n
<1> QED BY <1>1, <1>2, <1>3, <1>4

\* A run of the suite or of the benchmark comes to its end within five calls for
\* each probe or three for each case: what is left of it is a number, every call
\* makes it smaller, and only a finished run has nothing left.
THEOREM RunsGetShorter ==
    ClientsSpec => /\ []LeftInv
                   /\ [][SuiteStep => CallsLeft(place') < CallsLeft(place)]_allVars
                   /\ [][BenchmarkStep =>
                            Bench!CallsLeft(step') < Bench!CallsLeft(step)]_allVars
<1> DEFINE Shorter1 == SuiteStep => CallsLeft(place') < CallsLeft(place)
           Shorter2 == BenchmarkStep => Bench!CallsLeft(step') < Bench!CallsLeft(step)
<1>1. BaseInv => LeftInv
  BY LeftFromPlaces DEF BaseInv
<1>2. BaseInv /\ [ClientsNext]_allVars => [Shorter1]_allVars /\ [Shorter2]_allVars
  BY SuiteStepLess, BenchmarkStepLess DEF BaseInv
<1> HIDE DEF Shorter1, Shorter2
<1>3. ClientsSpec => []LeftInv /\ [][Shorter1]_allVars /\ [][Shorter2]_allVars
  BY <1>1, <1>2, ClientsBase, PTL DEF ClientsSpec
<1> QED BY <1>3 DEF Shorter1, Shorter2
=============================================================================
