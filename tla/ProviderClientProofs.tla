-------------------------- MODULE ProviderClientProofs --------------------------
(***************************************************************************)
(* Proofs that what the conformance suite reports of the example providers *)
(* is so although the outside moves while it runs, for any probes and any  *)
(* records.                                                                *)
(***************************************************************************)
EXTENDS ProviderClients, ProviderProofs

----------------------------------------------------------------------------
(* Where the suite can be *)

\* Neither provider ever answers with a conflict, so the suite never looks one up.
PlacesOK ==
    /\ place[1] \in {"idle", "done", "probe", "evidence", "unknowns", "snapshot", "replay"}
    /\ Working => index \in DOMAIN Probes
    /\ place[1] = "evidence" => held.kind = "state"
    /\ subject \in Subjects

LEMMA ProbeNumbers == DOMAIN Probes = 1..Len(Probes) /\ Len(Probes) \in Nat
BY ProbesAssumption

\* After the i-th probe comes the next one, then the snapshots, then the end.
LEMMA NextSnapshotIs ==
    ASSUME NEW i \in Nat
    PROVE  \/ i + 1 \in DOMAIN Probes /\ NextSnapshot(i) = <<"snapshot", i + 1>>
           \/ NextSnapshot(i) = <<"done", 0>>
BY ProbeNumbers DEF NextSnapshot, Turn

LEMMA NextProbeIs ==
    ASSUME NEW i \in Nat
    PROVE  \/ i + 1 \in DOMAIN Probes /\ NextProbe(i) = <<"probe", i + 1>>
           \/ DOMAIN Probes \subseteq 1..i /\ NextProbe(i) = NextSnapshot(0)
BY ProbeNumbers DEF NextProbe, Turn

\* A place the suite can go to next.
Reachable(p) ==
    \/ p[1] \in {"probe", "snapshot"} /\ p[2] \in DOMAIN Probes
    \/ p[1] = "done"

LEMMA NextReachable ==
    ASSUME NEW i \in Nat
    PROVE  Reachable(NextProbe(i)) /\ Reachable(NextSnapshot(i))
BY NextSnapshotIs, NextProbeIs DEF Reachable

\* What an answer can be: never a conflict.
LEMMA AnswerKinds ==
    ASSUME RecordsOK, NEW prop, NEW at
    PROVE  Answer(prop, at).kind \in {"state", "unknown"}
BY ProjectionPlain, ExternalHonest DEF Answer, Plain, Honest

LEMMA PlacesNext ==
    ASSUME RecordsOK, PlacesOK, [ClientsNext]_allVars
    PROVE  PlacesOK'
<1> USE DEF PlacesOK, Working, index
<1>1. CASE Outside \/ UNCHANGED allVars
  BY <1>1 DEF Outside, allVars, clientVars, suiteVars
<1>2. CASE StartSuite
  <2>1. place' = NextProbe(0) /\ subject' \in Subjects
    BY <1>2 DEF StartSuite, Start
  <2> QED BY <2>1, NextReachable DEF Reachable
<1>3. CASE SuiteStep
  <2>1. index \in Nat /\ UNCHANGED subject
    BY <1>3, ProbeNumbers DEF SuiteStep
  <2>2. ASSUME place' \in {NextProbe(index), NextSnapshot(index)} PROVE PlacesOK'
    BY <2>1, <2>2, NextReachable DEF Reachable
  <2>3. ASSUME NEW call \in {"evidence", "unknowns", "replay"}, place' = <<call, index>>,
               call = "evidence" => held'.kind = "state"
        PROVE  PlacesOK'
    BY <1>3, <2>1, <2>3 DEF SuiteStep
  <2>4. ASSUME AskState(Answer(probe.proposition, probe.at)) PROVE PlacesOK'
    <3> DEFINE x == Answer(probe.proposition, probe.at)
    <3>1. x.kind \in {"state", "unknown"}
      BY AnswerKinds
    <3>2. held' = x /\ place' \in {NextProbe(index), <<FirstLookup(x), index>>}
      BY <2>4 DEF AskState
    <3> HIDE DEF x
    <3>3. FirstLookup(x) = IF x.kind = "state" THEN "evidence" ELSE "unknowns"
      BY <3>1 DEF FirstLookup
    <3> QED BY <2>2, <2>3, <3>1, <3>2, <3>3
  <2>5. ASSUME NEW found, AskEvidence(found) \/ AskUnknowns(found) PROVE PlacesOK'
    <3>1. place' = NextProbe(index)
      BY <2>5 DEF AskEvidence, AskUnknowns
    <3> QED BY <2>2, <3>1
  <2>6. ASSUME NEW snapshot, AskSnapshot(snapshot) \/ AskReplay(snapshot) PROVE PlacesOK'
    <3>1. place' \in {<<"replay", index>>, NextSnapshot(index)}
      BY <2>6 DEF AskSnapshot, AskReplay
    <3> QED BY <2>2, <2>3, <3>1
  <2> QED BY <1>3, <2>4, <2>5, <2>6 DEF SuiteStep, Calls
<1> QED BY <1>1, <1>2, <1>3 DEF ClientsNext

----------------------------------------------------------------------------
(* What the providers hold while the suite runs *)

ProviderInv == RecordsOK /\ ProjectionInv /\ ExternalInv

LEMMA ProjectionInvStays == ProjectionInv /\ UNCHANGED pVars => ProjectionInv'
BY DEF pVars, ProjectionInv, ToldPlain, ToldPaired, PairsCached, ToldListed

LEMMA ExternalInvStays == ExternalInv /\ UNCHANGED xVars => ExternalInv'
BY DEF xVars, ExternalInv, ExternalCited, ExternalLabelled,
       ExternalUnknownsListed, X!UnknownsListed, X!GetUnknowns

LEMMA RecordsStay == RecordsOK /\ UNCHANGED records => RecordsOK'
BY DEF RecordsOK

\* The provider the suite runs over tells its answer and keeps what it must.
LEMMA QueryKeeps ==
    ASSUME ProviderInv, NEW prop, NEW at, Query(prop, at), UNCHANGED records
    PROVE  ProviderInv'
<1>1. CASE Projecting
  <2>1. P!Tell({P!Answer(prop, at)}, None) /\ UNCHANGED xVars
    BY <1>1 DEF Query, P!QueryState
  <2>2. Plain({P!Answer(prop, at)})
    BY ProjectionPlain DEF ProviderInv
  <2> QED BY <2>1, <2>2, ProjectionInvTell, ExternalInvStays, RecordsStay DEF ProviderInv
<1>2. CASE ~Projecting
  <2>1. X!Tell({X!Answer(prop, at)}, X!Read(prop), at, None) /\ UNCHANGED pVars
    BY <1>2 DEF Query, X!QueryState
  <2>2. Honest({X!Answer(prop, at)}, X!Read(prop), at)
    BY ExternalHonest DEF ProviderInv
  <2> QED BY <2>1, <2>2, ExternalInvTell, ProjectionInvStays, RecordsStay DEF ProviderInv
<1> QED BY <1>1, <1>2

LEMMA SnapKeeps ==
    ASSUME ProviderInv, NEW at, Snap(at), UNCHANGED records
    PROVE  ProviderInv'
<1>1. CASE Projecting
  <2>1. P!Tell(P!SnapshotAnswers(None, at), None) /\ UNCHANGED xVars
    BY <1>1 DEF Snap, P!GetSnapshot
  <2>2. Plain(P!SnapshotAnswers(None, at))
    BY ProjectionPlain DEF ProviderInv
  <2> QED BY <2>1, <2>2, ProjectionInvTell, ExternalInvStays, RecordsStay DEF ProviderInv
<1>2. CASE ~Projecting
  <2>1. X!Tell(X!SnapshotAnswers(None, at), X!ReadAll(None), at, None) /\ UNCHANGED pVars
    BY <1>2 DEF Snap, X!GetSnapshot
  <2>2. Honest(X!SnapshotAnswers(None, at), X!ReadAll(None), at)
    BY ExternalHonest DEF ProviderInv
  <2> QED BY <2>1, <2>2, ExternalInvTell, ProjectionInvStays, RecordsStay DEF ProviderInv
<1> QED BY <1>1, <1>2

LEMMA ProviderInvNext ==
    ASSUME ProviderInv, [ClientsNext]_allVars
    PROVE  ProviderInv'
<1>1. CASE UNCHANGED <<records, pVars, xVars>>
  BY <1>1, RecordsStay, ProjectionInvStays, ExternalInvStays DEF ProviderInv
<1>2. CASE Outside
  <2>1. [Next]_vars /\ UNCHANGED <<pVars, xVars>>
    BY <1>2 DEF Outside, Next
  <2> QED BY <2>1, RecordsOKNext, ProjectionInvStays, ExternalInvStays DEF ProviderInv
<1>3. CASE SuiteStep
  <2>1. UNCHANGED records
    BY <1>3 DEF SuiteStep
  <2>2. \/ Query(probe.proposition, probe.at)
        \/ Snap(probe.at)
        \/ UNCHANGED <<pVars, xVars>>
    BY <1>3 DEF SuiteStep, Calls
  <2> QED BY <1>1, <2>1, <2>2, QueryKeeps, SnapKeeps
<1> QED BY <1>1, <1>2, <1>3 DEF ClientsNext, StartSuite, allVars, vars

BaseInv == ProviderInv /\ PlacesOK

LEMMA ClientsBase == ClientsSpec => []BaseInv
<1>1. ClientsInit => BaseInv
  BY DEF ClientsInit, Init, SuiteInit, P!ProviderInit, X!ProviderInit, BaseInv,
         ProviderInv, RecordsOK, ProjectionInv, ToldPlain, ToldPaired, PairsCached,
         ToldListed, ExternalInv, ExternalCited, ExternalLabelled,
         ExternalUnknownsListed, X!UnknownsListed, PlacesOK, Working
<1>2. BaseInv /\ [ClientsNext]_allVars => BaseInv'
  BY ProviderInvNext, PlacesNext DEF BaseInv, ProviderInv
<1> QED BY <1>1, <1>2, PTL DEF ClientsSpec

----------------------------------------------------------------------------
(* What the suite looks up *)

\* The answer the suite holds can be looked up where the suite will look.
HeldFound ==
    /\ place[1] = "evidence" => held.evidence_refs \subseteq {e.id : e \in EvidenceOn(held)}
    /\ place[1] = "unknowns" => held \in UnknownsOn(None)

\* An answer just told can be looked up.
LEMMA AnswerFound ==
    ASSUME ProviderInv, NEW prop, NEW at, Query(prop, at), UNCHANGED <<records, subject>>,
           NEW x, x = Answer(prop, at)
    PROVE  /\ x.kind = "state" => x.evidence_refs \subseteq {e.id : e \in EvidenceOn(x)'}
           /\ x.kind = "unknown" => x \in UnknownsOn(None)'
<1>1. CASE Projecting
  <2>1. P!Tell({x}, None) /\ Plain({x})
    BY <1>1, ProjectionPlain DEF Query, P!QueryState, ProviderInv, Answer
  <2>2. ProjectionInv' /\ <<None, x>> \in p_told'
    BY <2>1, ProjectionInvTell DEF ProviderInv, P!Tell
  <2>3. EvidenceOn(x)' = P!GetEvidence(x)' /\ UnknownsOn(None)' = P!GetUnknowns(None)'
    BY <1>1 DEF EvidenceOn, UnknownsOn, Projecting
  <2>4. ASSUME x.kind = "state", NEW i \in x.evidence_refs
        PROVE  \E e \in P!GetEvidence(x)' : e.id = i
    <3>1. <<x, i>> \in p_refs'
      BY <2>2, <2>4 DEF ProjectionInv, ToldPaired
    <3>2. PICK e \in p_evidence' : e.id = i
      BY <2>2, <3>1 DEF ProjectionInv, PairsCached
    <3> QED BY <3>1, <3>2 DEF P!GetEvidence
  <2>5. ASSUME x.kind = "unknown" PROVE x \in P!GetUnknowns(None)'
    BY <2>2, <2>5 DEF ProjectionInv, ToldListed, P!GetUnknowns
  <2> QED BY <2>3, <2>4, <2>5
<1>2. CASE ~Projecting
  <2>1. X!Tell({x}, X!Read(prop), at, None) /\ Honest({x}, X!Read(prop), at)
    BY <1>2, ExternalHonest DEF Query, X!QueryState, ProviderInv, Answer
  <2>2. EvidenceOn(x)' = X!GetEvidence(x)' /\ UnknownsOn(None)' = x_unknowns'
    BY <1>2 DEF EvidenceOn, UnknownsOn, Projecting, X!GetUnknowns
  <2>3. x.kind = "state" => {e.id : e \in X!GetEvidence(x)'} = x.evidence_refs
    BY <2>1, FreshTraceable DEF ProviderInv
  <2>4. x.kind = "unknown" => x \in x_unknowns'
    BY <2>1 DEF X!Tell
  <2> QED BY <2>2, <2>3, <2>4
<1> QED BY <1>1, <1>2

SuiteInv == HeldFound /\ LookupsSucceed

LEMMA SuiteInvNext ==
    ASSUME BaseInv, SuiteInv, [ClientsNext]_allVars
    PROVE  SuiteInv'
<1> USE DEF BaseInv, Working, index
<1>1. ASSUME UNCHANGED <<held, subject, pVars, xVars>>, place' = place, violations' = violations
      PROVE  SuiteInv'
  <2>1. UNCHANGED <<EvidenceOn(held), UnknownsOn(None)>>
    BY <1>1 DEF EvidenceOn, UnknownsOn, Projecting, P!GetEvidence, X!GetEvidence,
                P!GetUnknowns, X!GetUnknowns, pVars, xVars
  <2> QED BY <1>1, <2>1 DEF SuiteInv, HeldFound, LookupsSucceed
<1>2. ASSUME place'[1] \notin {"evidence", "unknowns"},
             \A v \in violations' : v \in violations \/ v[1] \in {"kind", "value", "reason", "replay"}
      PROVE  SuiteInv'
  BY <1>2 DEF SuiteInv, HeldFound, LookupsSucceed
<1>3. CASE Outside \/ UNCHANGED allVars
  BY <1>1, <1>3 DEF Outside, allVars, vars, clientVars, suiteVars
<1>4. CASE StartSuite
  <2>1. place' = NextProbe(0) /\ violations' = {}
    BY <1>4 DEF StartSuite, Start
  <2>2. place'[1] \notin {"evidence", "unknowns"}
    BY <2>1, NextReachable DEF Reachable
  <2> QED BY <1>2, <2>1, <2>2
<1>5. CASE SuiteStep
  <2>1. index \in Nat /\ UNCHANGED <<records, subject>>
    BY <1>5, ProbeNumbers DEF SuiteStep, PlacesOK
  <2>2. \A p \in {NextProbe(index), NextSnapshot(index), <<"replay", index>>} :
           p[1] \notin {"evidence", "unknowns"}
    BY <2>1, NextReachable DEF Reachable
  <2>3. ASSUME AskState(Answer(probe.proposition, probe.at)), Query(probe.proposition, probe.at)
        PROVE  SuiteInv'
    <3>1. PICK x : x = Answer(probe.proposition, probe.at)
      OBVIOUS
    <3>2. /\ x.kind = "state" => x.evidence_refs \subseteq {e.id : e \in EvidenceOn(x)'}
          /\ x.kind = "unknown" => x \in UnknownsOn(None)'
      BY <2>1, <2>3, <3>1, AnswerFound
    <3>3. x.kind \in {"state", "unknown"}
      BY <3>1, AnswerKinds DEF ProviderInv
    <3>4. held' = x /\ place' \in {NextProbe(index), <<FirstLookup(x), index>>}
      BY <2>3, <3>1 DEF AskState
    <3>5. \A v \in violations' : v \in violations \/ v[1] \in {"kind", "value", "reason", "replay"}
      BY <2>3 DEF AskState, Check
    <3>6. EvidenceOn(held)' = EvidenceOn(x)'
      BY <3>4 DEF EvidenceOn, P!GetEvidence, X!GetEvidence
    <3>7. CASE place' = NextProbe(index)
      BY <1>2, <2>2, <3>5, <3>7
    <3>8. CASE place' = <<FirstLookup(x), index>>
      <4>1. place'[1] = IF x.kind = "unknown" THEN "unknowns" ELSE "evidence"
        BY <3>8 DEF FirstLookup
      <4> QED BY <3>2, <3>3, <3>4, <3>5, <3>6, <4>1 DEF SuiteInv, HeldFound, LookupsSucceed
    <3> QED BY <3>4, <3>7, <3>8
  <2>4. ASSUME AskEvidence(EvidenceOn(held)) PROVE SuiteInv'
    <3>1. place' = NextProbe(index)
      BY <2>4 DEF AskEvidence, PlacesOK
    <3>2. violations' = violations
      BY <2>4 DEF AskEvidence, Check, SuiteInv, HeldFound
    <3> QED BY <1>2, <2>2, <3>1, <3>2
  <2>5. ASSUME AskUnknowns(UnknownsOn(None)) PROVE SuiteInv'
    <3>1. place' = NextProbe(index)
      BY <2>5 DEF AskUnknowns
    <3>2. violations' = violations
      BY <2>5 DEF AskUnknowns, Check, SuiteInv, HeldFound
    <3> QED BY <1>2, <2>2, <3>1, <3>2
  <2>6. ASSUME NEW snapshot, AskSnapshot(snapshot) \/ AskReplay(snapshot) PROVE SuiteInv'
    <3>1. place' \in {<<"replay", index>>, NextSnapshot(index)}
      BY <2>6 DEF AskSnapshot, AskReplay
    <3>2. \A v \in violations' : v \in violations \/ v[1] = "replay"
      BY <2>6 DEF AskSnapshot, AskReplay, Check
    <3> QED BY <1>2, <2>2, <3>1, <3>2
  <2> QED BY <1>5, <2>3, <2>4, <2>5, <2>6 DEF SuiteStep, Calls
<1> QED BY <1>3, <1>4, <1>5 DEF ClientsNext

\* Whatever the outside does while the suite runs, the suite finds the evidence of
\* each answer and each Unknown listed.
THEOREM ProviderLookupsAlwaysSucceed == ClientsSpec => []LookupsSucceed
<1>1. ClientsInit => SuiteInv
  BY DEF ClientsInit, SuiteInit, SuiteInv, HeldFound, LookupsSucceed
<1>2. SuiteInv => LookupsSucceed
  BY DEF SuiteInv
<1> QED BY <1>1, <1>2, SuiteInvNext, ClientsBase, PTL DEF ClientsSpec

----------------------------------------------------------------------------
(* What the suite takes for unstable *)

\* A snapshot is a function of what the outside holds.
LEMMA SnapshotStays ==
    ASSUME UNCHANGED <<records, available, subject>>, NEW at
    PROVE  SnapshotOn(at)' = SnapshotOn(at)
BY DEF SnapshotOn, Projecting, P!Engine!Snapshot, P!Engine!SnapshotResults,
       P!Engine!SourceVersions, P!Engine!Selected, P!Engine!Availability,
       X!SnapshotAnswers, X!ReadAll

MovesCounted == moves \in Nat /\ snapped \in Nat /\ snapped <= moves

\* As long as nothing moved the snapshot held is the one that can be taken.
SnapshotHeld == place[1] = "replay" /\ moves = snapped => held = SnapshotOn(probe.at)

\* A replay was reported for a probe whose snapshots have been compared.
ReplaysCompared ==
    \A v \in violations : v[1] = "replay" =>
        /\ v[2] \in Nat
        /\ place[1] = "done" \/ (place[1] \in {"snapshot", "replay"} /\ v[2] < index)

ReplayInv == MovesCounted /\ SnapshotHeld /\ ReplaysCompared

LEMMA ReplayInvNext ==
    ASSUME BaseInv, ReplayInv, [ClientsNext]_allVars
    PROVE  ReplayInv'
<1> USE DEF BaseInv, Working, index, ReplayInv
<1>1. CASE UNCHANGED allVars
  <2>1. UNCHANGED <<records, available, subject, moves, snapped, place, held, violations>>
    BY <1>1 DEF allVars, vars, clientVars, suiteVars, auditVars
  <2>2. \A at : SnapshotOn(at)' = SnapshotOn(at)
    BY <2>1, SnapshotStays
  <2>3. SnapshotHeld'
    BY <2>1, <2>2 DEF SnapshotHeld, probe
  <2> QED BY <2>1, <2>3 DEF MovesCounted, ReplaysCompared
<1>2. CASE Outside
  <2>1. moves' = moves + 1 /\ UNCHANGED <<snapped, place, held, violations>>
    BY <1>2 DEF Outside, suiteVars
  <2> QED BY <2>1 DEF MovesCounted, SnapshotHeld, ReplaysCompared
<1>3. CASE StartSuite
  <2>1. place' = NextProbe(0) /\ violations' = {} /\ UNCHANGED <<moves, snapped>>
    BY <1>3 DEF StartSuite, Start
  <2>2. place'[1] # "replay"
    BY <2>1, NextReachable DEF Reachable
  <2> QED BY <2>1, <2>2 DEF MovesCounted, SnapshotHeld, ReplaysCompared
<1>4. CASE SuiteStep
  <2>1. index \in Nat /\ UNCHANGED <<records, available, subject, moves>>
    BY <1>4, ProbeNumbers DEF SuiteStep, PlacesOK
  <2>2. snapped' = IF place[1] = "snapshot" THEN moves ELSE snapped
    BY <1>4 DEF SuiteStep
  <2>3. MovesCounted'
    BY <2>1, <2>2 DEF MovesCounted
  <2>4. ASSUME NEW answer, AskState(answer) PROVE ReplayInv'
    <3>1. place[1] = "probe" /\ place' \in {NextProbe(index), <<FirstLookup(answer), index>>}
      BY <2>4 DEF AskState
    <3>2. place'[1] # "replay"
      BY <2>1, <3>1, NextReachable DEF Reachable, FirstLookup
    <3>3. \A v \in violations' : v[1] # "replay"
      BY <2>4, <3>1 DEF AskState, Check, ReplaysCompared
    <3> QED BY <2>3, <3>2, <3>3 DEF SnapshotHeld, ReplaysCompared
  <2>5. ASSUME NEW found, AskEvidence(found) \/ AskUnknowns(found) PROVE ReplayInv'
    <3>1. place[1] \in {"evidence", "unknowns"} /\ place' = NextProbe(index)
      BY <2>5 DEF AskEvidence, AskUnknowns, PlacesOK
    <3>2. place'[1] # "replay"
      BY <2>1, <3>1, NextReachable DEF Reachable
    <3>3. \A v \in violations' : v[1] # "replay"
      BY <2>5, <3>1 DEF AskEvidence, AskUnknowns, Check, ReplaysCompared
    <3> QED BY <2>3, <3>2, <3>3 DEF SnapshotHeld, ReplaysCompared
  <2>6. ASSUME AskSnapshot(SnapshotOn(probe.at)) PROVE ReplayInv'
    <3>1. /\ place[1] = "snapshot" /\ place' = <<"replay", index>>
          /\ held' = SnapshotOn(probe.at) /\ violations' = violations
      BY <2>6 DEF AskSnapshot
    <3>2. probe' = probe
      BY <3>1 DEF probe
    <3>3. \A at : SnapshotOn(at)' = SnapshotOn(at)
      BY <2>1, SnapshotStays
    <3>4. PICK at : at = probe.at
      OBVIOUS
    <3>5. SnapshotOn(probe.at)' = SnapshotOn(at)'
      BY <3>2, <3>4 DEF SnapshotOn, P!Engine!Snapshot, P!Engine!SnapshotResults,
                        P!Engine!SourceVersions, P!Engine!Selected, P!Engine!Availability,
                        X!SnapshotAnswers, X!ReadAll
    <3>6. held' = SnapshotOn(probe.at)'
      BY <3>1, <3>3, <3>4, <3>5
    <3> QED BY <2>3, <3>1, <3>6 DEF SnapshotHeld, ReplaysCompared
  <2>7. ASSUME AskReplay(SnapshotOn(probe.at)) PROVE ReplayInv'
    <3>1. place[1] = "replay" /\ place' = NextSnapshot(index)
      BY <2>7 DEF AskReplay
    <3>2. \/ place' = <<"snapshot", index + 1>>
          \/ place' = <<"done", 0>>
      BY <2>1, <3>1, NextSnapshotIs
    <3>3. \A v \in violations' : v \in violations \/ v = <<"replay", index>>
      BY <2>7 DEF AskReplay, Check
    <3>4. \A v \in violations' : v[1] = "replay" => v[2] \in Nat /\ v[2] < index + 1
      BY <2>1, <3>1, <3>3 DEF ReplaysCompared
    <3> QED BY <2>3, <3>2, <3>4 DEF SnapshotHeld, ReplaysCompared
  <2> QED BY <1>4, <2>4, <2>5, <2>6, <2>7 DEF SuiteStep, Calls
<1> QED BY <1>1, <1>2, <1>3, <1>4 DEF ClientsNext

LEMMA ReplayBase == ClientsSpec => [](BaseInv /\ ReplayInv)
<1>1. ClientsInit => ReplayInv
  BY DEF ClientsInit, SuiteInit, ReplayInv, MovesCounted, SnapshotHeld, ReplaysCompared
<1> QED BY <1>1, ReplayInvNext, ClientsBase, PTL DEF ClientsSpec

\* A snapshot taken twice differs only if the outside moved in between.
THEOREM ReplaysOnlyIfMoved == ClientsSpec => ReplayOnlyIfMoved
<1>1. ASSUME BaseInv, ReplayInv, [ClientsNext]_allVars
      PROVE  [(place[1] = "replay" /\ moves = snapped)
                 => <<"replay", index>> \notin violations']_place
  <2> SUFFICES ASSUME place' # place, place[1] = "replay", moves = snapped
               PROVE  <<"replay", index>> \notin violations'
    OBVIOUS
  <2>1. SuiteStep
    BY <1>1 DEF ClientsNext, Outside, StartSuite, Start, Working, allVars, clientVars, suiteVars
  <2>2. AskReplay(SnapshotOn(probe.at))
    BY <2>1 DEF SuiteStep, Calls, AskState, AskEvidence, AskUnknowns, AskSnapshot
  <2>3. violations' = violations
    BY <1>1, <2>2 DEF AskReplay, Check, ReplayInv, SnapshotHeld
  <2>4. index \in Nat
    BY <1>1, ProbeNumbers DEF BaseInv, PlacesOK, Working
  <2>5. <<"replay", index>> \notin violations
    BY <1>1, <2>4 DEF ReplayInv, ReplaysCompared
  <2> QED BY <2>3, <2>5
<1> QED BY <1>1, ReplayBase, PTL DEF ClientsSpec, ReplayOnlyIfMoved

----------------------------------------------------------------------------
(* What an undisturbed run reports *)

\* The answer of the provider named s.
AnswerOf(s, prop, at) == IF s = "projection" THEN P!Answer(prop, at) ELSE X!Answer(prop, at)

\* What the suite has to complain of an answer x to a probe p.
Complaint(x, p) ==
    IF x.kind # p.kind THEN {"kind"}
    ELSE IF x.kind = "state" /\ p.value \notin {None, x.value} THEN {"value"}
    ELSE IF x.kind = "unknown" /\ p.reason \notin {None, x.reason} THEN {"reason"}
    ELSE {}

ComplaintOf(s, i) ==
    Complaint(AnswerOf(s, Probes[i].proposition, Probes[i].at), Probes[i])

\* The report on the first probes of a run over s that nothing disturbs.
Report(s, probes) == UNION {ComplaintOf(s, i) \X {i} : i \in probes}

\* The probes that have been judged when the suite is at p.
Judged(p) ==
    IF p[1] = "probe" THEN 1..(p[2] - 1)
    ELSE IF p[1] \in {"evidence", "unknowns"} THEN 1..p[2]
    ELSE DOMAIN Probes

LEMMA JudgedNext ==
    ASSUME NEW i \in Nat, 1..i \subseteq DOMAIN Probes
    PROVE  /\ Judged(NextProbe(i)) = 1..i
           /\ Judged(NextSnapshot(i)) = DOMAIN Probes
<1>1. Judged(NextSnapshot(0)) = DOMAIN Probes /\ Judged(NextSnapshot(i)) = DOMAIN Probes
  BY NextSnapshotIs DEF Judged
<1>2. CASE NextProbe(i) = <<"probe", i + 1>>
  <2>1. Judged(<<"probe", i + 1>>) = 1..((i + 1) - 1) /\ (i + 1) - 1 = i
    BY DEF Judged
  <2> QED BY <1>1, <1>2, <2>1
<1>3. CASE DOMAIN Probes \subseteq 1..i /\ NextProbe(i) = NextSnapshot(0)
  BY <1>1, <1>3
<1> QED BY <1>2, <1>3, NextProbeIs

\* A report is a function of what the outside holds.
LEMMA ReportStays ==
    ASSUME UNCHANGED <<records, available>>, NEW s, NEW probes
    PROVE  Report(s, probes)' = Report(s, probes)
<1>1. \A prop, at : AnswerOf(s, prop, at)' = AnswerOf(s, prop, at)
  BY DEF AnswerOf, P!Answer, P!Engine!StateAt, P!Engine!Availability, X!Answer, X!Read
<1>2. \A i : ComplaintOf(s, i)' = ComplaintOf(s, i)
  BY <1>1 DEF ComplaintOf, Complaint
<1> QED BY <1>2 DEF Report

\* As long as the source answers, the report is the same over either provider.
LEMMA ReportsAlike ==
    ASSUME RecordsOK, available, NEW s \in Subjects, NEW t \in Subjects
    PROVE  Report(s, DOMAIN Probes) = Report(t, DOMAIN Probes)
<1>1. ASSUME NEW i \in DOMAIN Probes PROVE ComplaintOf(s, i) = ComplaintOf(t, i)
  <2> DEFINE prop == Probes[i].proposition
             at   == Probes[i].at
             x == P!Answer(prop, at)
             y == X!Answer(prop, at)
  <2>1. at \in Nat
    BY ProbesAssumption DEF Instant
  <2>2. Seen(x) = Seen(y)
    BY <2>1, AnswersAlike
  <2>3. x.kind \in {"state", "unknown"} /\ y.kind \in {"state", "unknown"}
    BY ProjectionPlain, ExternalHonest DEF Plain, Honest
  <2> HIDE DEF prop, at, x, y
  <2>4. /\ Seen(x)[1] = x.kind /\ Seen(y)[1] = y.kind
        /\ x.kind = "state" => Seen(x)[3] = x.value
        /\ y.kind = "state" => Seen(y)[3] = y.value
        /\ x.kind # "state" => Seen(x)[4] = x.reason
        /\ y.kind # "state" => Seen(y)[4] = y.reason
    BY DEF Seen
  <2>5. Complaint(x, Probes[i]) = Complaint(y, Probes[i])
    BY <2>2, <2>3, <2>4 DEF Complaint
  <2> QED BY <2>5 DEF ComplaintOf, AnswerOf, x, y, prop, at
<1> QED BY <1>1 DEF Report

\* A run that nothing has disturbed yet has reported what it must.
RunReported == Working /\ began = moves => violations = Report(subject, Judged(place))

RunsCounted ==
    /\ began \in Nat /\ began <= moves
    /\ place[1] = "replay" => began <= snapped

\* The last report counts as long as nothing has moved since.
LastReported ==
    last # None =>
        /\ last.moves \in Nat /\ last.moves <= moves
        /\ Working => last.moves <= began
        /\ last.subject \in Subjects
        /\ last.moves = moves => last.report = Report(last.subject, DOMAIN Probes)

AuditInv == RunReported /\ RunsCounted /\ LastReported

FoundInv == BaseInv /\ SuiteInv /\ ReplayInv

\* A call of a run that nothing disturbs reports what it must.
LEMMA ReportNext ==
    ASSUME FoundInv, AuditInv, SuiteStep, began = moves
    PROVE  violations' = Report(subject, Judged(place'))
<1> USE DEF FoundInv, BaseInv, Working, index
<1>1. /\ index \in DOMAIN Probes /\ index \in Nat /\ index >= 1
      /\ 1..index \subseteq DOMAIN Probes
  BY ProbeNumbers DEF SuiteStep, PlacesOK
<1>2. violations = Report(subject, Judged(place))
  BY DEF AuditInv, RunReported, SuiteStep
<1>3. ASSUME violations' = violations, Judged(place') = Judged(place)
      PROVE  violations' = Report(subject, Judged(place'))
  BY <1>2, <1>3
<1>4. ASSUME AskState(Answer(probe.proposition, probe.at))
      PROVE  violations' = Report(subject, Judged(place'))
  <2> DEFINE x == Answer(probe.proposition, probe.at)
  <2>1. place[1] = "probe" /\ place' \in {NextProbe(index), <<FirstLookup(x), index>>}
    BY <1>4 DEF AskState
  <2>2. Judged(place) = 1..(index - 1)
    BY <2>1 DEF Judged
  <2>3. Judged(place') = 1..index
    <3>1. FirstLookup(x) \in {"evidence", "unknowns"}
      BY DEF FirstLookup
    <3>2. Judged(<<FirstLookup(x), index>>) = 1..index
      BY <3>1 DEF Judged
    <3> QED BY <1>1, <2>1, <3>2, JudgedNext
  <2>4. x.kind \in {"state", "unknown"}
    BY AnswerKinds DEF ProviderInv
  <2>5. violations' = violations \cup (Complaint(x, probe) \X {index})
    <3> HIDE DEF x
    <3>1. \/ x.kind # probe.kind /\ violations' = violations \cup {<<"kind", index>>}
          \/ /\ x.kind = probe.kind
             /\ violations' = IF AnswerFits(x) THEN violations
                              ELSE violations \cup
                                     {<<IF x.kind = "state" THEN "value" ELSE "reason", index>>}
      BY <1>4 DEF AskState, Check, x
    <3> QED BY <2>4, <3>1 DEF Complaint, AnswerFits
  <2>6. Complaint(x, probe) = ComplaintOf(subject, index)
    BY DEF ComplaintOf, AnswerOf, Answer, Projecting, probe
  <2>7. 1..index = (1..(index - 1)) \cup {index}
    BY <1>1
  <2> HIDE DEF x
  <2> QED BY <1>2, <2>2, <2>3, <2>5, <2>6, <2>7 DEF Report
<1>5. ASSUME AskEvidence(EvidenceOn(held)) \/ AskUnknowns(UnknownsOn(None))
      PROVE  violations' = Report(subject, Judged(place'))
  <2>1. place[1] \in {"evidence", "unknowns"} /\ place' = NextProbe(index)
    BY <1>5 DEF AskEvidence, AskUnknowns, PlacesOK
  <2>2. violations' = violations
    BY <1>5 DEF AskEvidence, AskUnknowns, Check, SuiteInv, HeldFound
  <2>3. Judged(place) = 1..index
    BY <2>1 DEF Judged
  <2> QED BY <1>1, <1>3, <2>1, <2>2, <2>3, JudgedNext
<1>6. ASSUME AskSnapshot(SnapshotOn(probe.at)) \/ AskReplay(SnapshotOn(probe.at))
      PROVE  violations' = Report(subject, Judged(place'))
  <2>1. /\ place[1] \in {"snapshot", "replay"}
        /\ place' \in {<<"replay", index>>, NextSnapshot(index)}
    BY <1>6 DEF AskSnapshot, AskReplay
  <2>2. place[1] = "replay" => moves = snapped
    BY DEF AuditInv, RunsCounted, ReplayInv, MovesCounted
  <2>3. violations' = violations
    BY <1>6, <2>2 DEF AskSnapshot, AskReplay, Check, ReplayInv, SnapshotHeld
  <2>4. Judged(place) = DOMAIN Probes /\ Judged(<<"replay", index>>) = DOMAIN Probes
    BY <2>1 DEF Judged
  <2> QED BY <1>1, <1>3, <2>1, <2>3, <2>4, JudgedNext
<1> QED BY <1>4, <1>5, <1>6 DEF SuiteStep, Calls

\* What must have been reported changes with the run only.
LEMMA ReportThen ==
    ASSUME UNCHANGED <<records, available>>
    PROVE  /\ Report(subject, Judged(place))' = Report(subject', Judged(place'))
           /\ Report(last.subject, DOMAIN Probes)' = Report(last'.subject, DOMAIN Probes)
<1>1. PICK s : s = subject'
  OBVIOUS
<1>2. PICK probes : probes = Judged(place')
  OBVIOUS
<1>3. PICK t : t = last'.subject
  OBVIOUS
<1>4. Judged(place)' = Judged(place')
  BY DEF Judged
<1>5. /\ Report(s, probes)' = Report(s, probes)
      /\ Report(t, DOMAIN Probes)' = Report(t, DOMAIN Probes)
  BY ReportStays
<1>6. Report(subject, Judged(place))' = Report(s, probes)'
  BY <1>1, <1>2, <1>4 DEF Report, ComplaintOf, AnswerOf
<1>7. Report(last.subject, DOMAIN Probes)' = Report(t, DOMAIN Probes)'
  BY <1>3 DEF Report, ComplaintOf, AnswerOf
<1> QED BY <1>1, <1>2, <1>3, <1>5, <1>6, <1>7

\* At the end of a run every probe has been judged.
LEMMA JudgedDone == ASSUME place'[1] = "done" PROVE Judged(place') = DOMAIN Probes
BY DEF Judged

LEMMA AuditInvNext ==
    ASSUME FoundInv, AuditInv, [ClientsNext]_allVars
    PROVE  AuditInv'
<1> USE DEF AuditInv, FoundInv, BaseInv
<1>1. moves \in Nat /\ snapped \in Nat /\ snapped <= moves
  BY DEF ReplayInv, MovesCounted
<1>2. CASE UNCHANGED allVars
  <2>1. UNCHANGED <<records, available, place, violations, subject, moves, began, snapped, last>>
    BY <1>2 DEF allVars, vars, clientVars, suiteVars, auditVars
  <2>2. RunReported'
    BY <2>1, ReportThen DEF RunReported, Working
  <2>3. LastReported'
    BY <2>1, ReportThen DEF LastReported, Working
  <2> QED BY <2>1, <2>2, <2>3 DEF RunsCounted
<1>3. CASE Outside
  <2>1. /\ moves' = moves + 1
        /\ UNCHANGED <<place, violations, subject, began, snapped, last>>
    BY <1>3 DEF Outside, suiteVars
  <2>2. began' # moves' /\ (last' # None => last'.moves # moves')
    BY <1>1, <2>1 DEF RunsCounted, LastReported
  <2> QED BY <1>1, <2>1, <2>2 DEF RunReported, RunsCounted, LastReported, Working
<1>4. CASE StartSuite
  <2>1. /\ UNCHANGED <<records, available, moves, snapped, last>>
        /\ place' = NextProbe(0) /\ violations' = {} /\ began' = moves
    BY <1>4 DEF StartSuite, Start, vars
  <2>2. Judged(place') = {}
    <3>1. Judged(NextProbe(0)) = 1..0
      BY JudgedNext
    <3> QED BY <2>1, <3>1
  <2>3. Report(subject', {}) = {}
    BY DEF Report
  <2>4. RunReported'
    BY <2>1, <2>2, <2>3, ReportThen DEF RunReported
  <2>5. RunsCounted'
    BY <1>1, <2>1, NextReachable DEF RunsCounted, Reachable
  <2>6. LastReported'
    BY <1>1, <2>1, ReportThen DEF LastReported
  <2> QED BY <2>4, <2>5, <2>6
<1>5. CASE SuiteStep
  <2>1. /\ UNCHANGED <<records, available, subject, moves, began>>
        /\ snapped' = IF place[1] = "snapshot" THEN moves ELSE snapped
        /\ last' = IF place'[1] # "done" THEN last
                   ELSE IF began # moves THEN None
                   ELSE [subject |-> subject, moves |-> moves, report |-> violations']
    BY <1>5 DEF SuiteStep
  <2>2. began = moves => violations' = Report(subject, Judged(place'))
    BY <1>5, ReportNext
  <2>3. RunReported'
    BY <2>1, <2>2, ReportThen DEF RunReported
  <2>4. RunsCounted'
    <3>1. ASSUME place'[1] = "replay" PROVE place[1] = "snapshot"
      <4>1. index \in Nat
        BY <1>5, ProbeNumbers DEF SuiteStep, PlacesOK
      <4>2. \A p \in {NextProbe(index), NextSnapshot(index)} : p[1] # "replay"
        BY <4>1, NextReachable DEF Reachable
      <4>3. ASSUME NEW answer, AskState(answer) PROVE FALSE
        <5>1. place' \in {NextProbe(index), <<FirstLookup(answer), index>>}
          BY <4>3 DEF AskState
        <5>2. FirstLookup(answer) # "replay"
          BY DEF FirstLookup
        <5> QED BY <3>1, <4>2, <5>1, <5>2
      <4>4. ASSUME NEW found, AskEvidence(found) \/ AskUnknowns(found) PROVE FALSE
        BY <3>1, <4>2, <4>4 DEF AskEvidence, AskUnknowns, PlacesOK
      <4>5. ASSUME NEW snapshot, AskSnapshot(snapshot) \/ AskReplay(snapshot)
            PROVE  place[1] = "snapshot"
        BY <3>1, <4>2, <4>5 DEF AskSnapshot, AskReplay
      <4> QED BY <1>5, <4>3, <4>4, <4>5 DEF SuiteStep, Calls
    <3> QED BY <1>1, <2>1, <3>1 DEF RunsCounted
  <2>5. LastReported'
    <3>1. CASE place'[1] # "done"
      <4>1. last' = last
        BY <2>1, <3>1
      <4> QED BY <1>5, <2>1, <4>1, ReportThen DEF LastReported, SuiteStep
    <3>2. CASE place'[1] = "done" /\ began # moves
      BY <2>1, <3>2 DEF LastReported
    <3>3. CASE place'[1] = "done" /\ began = moves
      <4>1. last' = [subject |-> subject, moves |-> moves, report |-> violations']
        BY <2>1, <3>3
      <4>2. last'.report = Report(last'.subject, DOMAIN Probes)
        BY <2>2, <3>3, <4>1, JudgedDone
      <4>3. ~(Working)'
        BY <3>3 DEF Working
      <4> QED BY <1>1, <2>1, <4>1, <4>2, <4>3, ReportThen DEF LastReported, PlacesOK
    <3> QED BY <3>1, <3>2, <3>3
  <2> QED BY <2>3, <2>4, <2>5
<1> QED BY <1>2, <1>3, <1>4, <1>5 DEF ClientsNext

LEMMA ClientsFound == ClientsSpec => [](FoundInv /\ AuditInv)
<1>1. ClientsInit => SuiteInv
  BY DEF ClientsInit, SuiteInit, SuiteInv, HeldFound, LookupsSucceed
<1>2. ClientsInit => AuditInv
  BY DEF ClientsInit, SuiteInit, AuditInv, RunReported, RunsCounted, LastReported, Working
<1>3. BaseInv /\ ReplayInv /\ SuiteInv => FoundInv
  BY DEF FoundInv
<1> QED BY <1>1, <1>2, <1>3, SuiteInvNext, AuditInvNext, ReplayBase, PTL DEF ClientsSpec

\* With the source up and left alone during two runs, the suite's verdict is the
\* same whichever provider each ran over; with the source down, it is the same
\* over the same provider.
THEOREM VerdictsAlwaysRepeat == ClientsSpec => VerdictRepeats
<1>1. ASSUME FoundInv, AuditInv, [ClientsNext]_allVars
      PROVE  [(place'[1] = "done" /\ last # None /\ last.moves = moves
                  /\ (available \/ last.subject = subject))
                => violations' = last.report]_place
  <2> USE DEF FoundInv, AuditInv, BaseInv
  <2> SUFFICES ASSUME place' # place, place'[1] = "done", last # None, last.moves = moves,
                      available \/ last.subject = subject
               PROVE  violations' = last.report
    OBVIOUS
  <2>1. /\ last.report = Report(last.subject, DOMAIN Probes)
        /\ last.subject \in Subjects /\ subject \in Subjects
    BY <1>1 DEF LastReported, PlacesOK
  <2>2. Report(last.subject, DOMAIN Probes) = Report(subject, DOMAIN Probes)
    BY <1>1, <2>1, ReportsAlike DEF ProviderInv
  <2>3. CASE StartSuite
    <3>1. violations' = {} /\ place' = NextProbe(0)
      BY <2>3 DEF StartSuite, Start
    <3>2. DOMAIN Probes = 1..0
      <4>1. Judged(NextProbe(0)) = 1..0
        BY JudgedNext
      <4> QED BY <3>1, <4>1, JudgedDone
    <3>3. Report(subject, DOMAIN Probes) = {}
      BY <3>2 DEF Report
    <3> QED BY <2>1, <2>2, <3>1, <3>3
  <2>4. CASE SuiteStep
    <3>1. began = moves
      BY <1>1, <2>4 DEF LastReported, RunsCounted, ReplayInv, MovesCounted, SuiteStep
    <3>2. violations' = Report(subject, Judged(place'))
      BY <1>1, <2>4, <3>1, ReportNext
    <3> QED BY <2>1, <2>2, <3>2, JudgedDone
  <2> QED BY <1>1, <2>3, <2>4 DEF ClientsNext, Outside, allVars, clientVars, suiteVars
<1> QED BY <1>1, ClientsFound, PTL DEF ClientsSpec, VerdictRepeats

----------------------------------------------------------------------------
(* A run comes to its end *)

\* What is left of a run is a number, and is nothing only once it is over.
LeftInv ==
    /\ CallsLeft(place) \in 0..(5 * Len(Probes))
    /\ Working <=> CallsLeft(place) > 0

LEMMA SuiteLeft ==
    ASSUME NEW p, p[2] \in DOMAIN Probes,
           p[1] \in {"probe", "evidence", "unknowns", "snapshot", "replay"}
    PROVE  CallsLeft(p) \in 1..(5 * Len(Probes))
<1>1. p[2] \in 1..Len(Probes) /\ Len(Probes) \in Nat
  BY ProbeNumbers
<1>2. CASE p[1] \in {"snapshot", "replay"}
  <2>1. \/ CallsLeft(p) = 1 + 2 * (Len(Probes) - p[2])
        \/ CallsLeft(p) = 2 + 2 * (Len(Probes) - p[2])
    BY <1>2 DEF CallsLeft
  <2> QED BY <1>1, <2>1
<1>3. CASE p[1] \in {"probe", "evidence", "unknowns"}
  <2> DEFINE more == 3 * (Len(Probes) - p[2]) + 2 * Len(Probes)
  <2>1. CallsLeft(p) \in {1 + more, 2 + more, 3 + more}
    <3>1. /\ p[1] \notin {"idle", "done", "snapshot", "replay"}
          /\ p[1] = "probe" \/ p[1] = "evidence" \/ p[1] \notin {"probe", "evidence", "snapshot"}
      BY <1>3
    <3>2. 1 + more = 1 + 3 * (Len(Probes) - p[2]) + 2 * Len(Probes)
          /\ 2 + more = 2 + 3 * (Len(Probes) - p[2]) + 2 * Len(Probes)
          /\ 3 + more = 3 + 3 * (Len(Probes) - p[2]) + 2 * Len(Probes)
      BY <1>1
    <3> HIDE DEF more
    <3> QED BY <3>1, <3>2 DEF CallsLeft
  <2> QED BY <1>1, <2>1
<1> QED BY <1>2, <1>3

LEMMA LeftFromPlaces == PlacesOK => LeftInv
<1> SUFFICES ASSUME PlacesOK PROVE LeftInv
  OBVIOUS
<1>0. Len(Probes) \in Nat
  BY ProbeNumbers
<1>1. CASE Working
  <2>1. CallsLeft(place) \in 1..(5 * Len(Probes))
    BY <1>1, SuiteLeft DEF PlacesOK, Working, index
  <2> QED BY <1>0, <1>1, <2>1 DEF LeftInv
<1>2. CASE ~ Working
  <2>1. CallsLeft(place) = 0
    BY <1>2 DEF Working, CallsLeft
  <2> QED BY <1>0, <1>2, <2>1 DEF LeftInv
<1> QED BY <1>1, <1>2

\* Going on from the i-th probe leaves no more than the probes after it need.
LEMMA TurnsLeave ==
    ASSUME NEW i \in DOMAIN Probes
    PROVE  /\ CallsLeft(NextProbe(i)) \in Nat
           /\ CallsLeft(NextProbe(i)) <= 3 * (Len(Probes) - i) + 2 * Len(Probes)
           /\ CallsLeft(NextSnapshot(i)) \in Nat
           /\ CallsLeft(NextSnapshot(i)) <= 2 * (Len(Probes) - i)
<1>1. i \in Nat /\ i <= Len(Probes) /\ Len(Probes) \in Nat
  BY ProbeNumbers
<1>2. ASSUME NEW j \in Nat, j <= Len(Probes)
      PROVE  /\ CallsLeft(NextSnapshot(j)) \in Nat
             /\ CallsLeft(NextSnapshot(j)) <= 2 * (Len(Probes) - j)
  BY <1>2, NextSnapshotIs, ProbeNumbers DEF CallsLeft
<1>3. CASE NextProbe(i) = NextSnapshot(0)
  BY <1>1, <1>2, <1>3
<1>4. CASE i + 1 \in DOMAIN Probes /\ NextProbe(i) = <<"probe", i + 1>>
  <2>1. CallsLeft(<<"probe", i + 1>>) = 3 + 3 * (Len(Probes) - (i + 1)) + 2 * Len(Probes)
    BY DEF CallsLeft
  <2>2. i + 1 \in 1..Len(Probes)
    BY <1>4, ProbeNumbers
  <2>3. /\ CallsLeft(<<"probe", i + 1>>) \in Nat
        /\ CallsLeft(<<"probe", i + 1>>) <= 3 * (Len(Probes) - i) + 2 * Len(Probes)
    BY <1>1, <2>1, <2>2
  <2> QED BY <1>1, <1>2, <1>4, <2>3
<1> QED BY <1>1, <1>2, <1>3, <1>4, NextProbeIs

\* Each call of the suite leaves fewer calls than there were before it.
LEMMA SuiteStepLess ==
    ASSUME PlacesOK, SuiteStep
    PROVE  CallsLeft(place') < CallsLeft(place)
<1>1. index \in DOMAIN Probes /\ index \in Nat /\ index <= Len(Probes) /\ Len(Probes) \in Nat
  BY ProbeNumbers DEF SuiteStep, PlacesOK
<1> DEFINE judging  == 3 * (Len(Probes) - index) + 2 * Len(Probes)
           snapping == 2 * (Len(Probes) - index)
           onward   == CallsLeft(NextProbe(index))
           after    == CallsLeft(NextSnapshot(index))
<1>2. /\ judging \in Nat /\ snapping \in Nat
      /\ onward \in Nat /\ onward <= judging
      /\ after \in Nat /\ after <= snapping
  BY <1>1, TurnsLeave
<1>3. ASSUME NEW p, p[2] = index
      PROVE  /\ p[1] = "probe" => CallsLeft(p) = 3 + judging
             /\ p[1] = "evidence" => CallsLeft(p) = 2 + judging
             /\ p[1] \in {"unknowns", "conflicts"} => CallsLeft(p) = 1 + judging
             /\ p[1] = "snapshot" => CallsLeft(p) = 2 + snapping
             /\ p[1] = "replay" => CallsLeft(p) = 1 + snapping
  BY <1>1, <1>3 DEF CallsLeft
<1>4. /\ place[1] = "probe" => CallsLeft(place) = 3 + judging
      /\ place[1] = "evidence" => CallsLeft(place) = 2 + judging
      /\ place[1] \in {"unknowns", "conflicts"} => CallsLeft(place) = 1 + judging
      /\ place[1] = "snapshot" => CallsLeft(place) = 2 + snapping
      /\ place[1] = "replay" => CallsLeft(place) = 1 + snapping
  BY <1>3 DEF index
<1>5. /\ CallsLeft(<<"evidence", index>>) = 2 + judging
      /\ CallsLeft(<<"unknowns", index>>) = 1 + judging
      /\ CallsLeft(<<"conflicts", index>>) = 1 + judging
      /\ CallsLeft(<<"replay", index>>) = 1 + snapping
  BY <1>3
<1> DEFINE moved ==
      \/ place[1] = "probe"
            /\ \/ place' = NextProbe(index)
               \/ place' = <<"evidence", index>>
               \/ place' = <<"unknowns", index>>
      \/ place[1] = "evidence"
            /\ (place' = NextProbe(index) \/ place' = <<"conflicts", index>>)
      \/ place[1] \in {"unknowns", "conflicts"} /\ place' = NextProbe(index)
      \/ place[1] = "snapshot" /\ place' = <<"replay", index>>
      \/ place[1] = "replay" /\ place' = NextSnapshot(index)
<1>6. moved
  <2>1. \A answer : AskState(answer) => moved
    BY DEF AskState, FirstLookup
  <2>2. \A found : AskEvidence(found) \/ AskUnknowns(found) => moved
    BY DEF AskEvidence, AskUnknowns
  <2>3. \A snapshot : AskSnapshot(snapshot) \/ AskReplay(snapshot) => moved
    BY DEF AskSnapshot, AskReplay
  <2> HIDE DEF moved
  <2> QED BY <2>1, <2>2, <2>3 DEF SuiteStep, Calls
<1>7. \/ CallsLeft(place) = 3 + judging
            /\ CallsLeft(place') \in {onward, 2 + judging, 1 + judging}
      \/ CallsLeft(place) = 2 + judging /\ CallsLeft(place') \in {onward, 1 + judging}
      \/ CallsLeft(place) = 1 + judging /\ CallsLeft(place') = onward
      \/ CallsLeft(place) = 2 + snapping /\ CallsLeft(place') = 1 + snapping
      \/ CallsLeft(place) = 1 + snapping /\ CallsLeft(place') = after
  <2> HIDE DEF judging, snapping
  <2> QED BY <1>4, <1>5, <1>6
<1> HIDE DEF judging, snapping, onward, after
<1> QED BY <1>2, <1>7

\* Over either provider, and however the outside moves, a run of the suite comes to its
\* end within five calls for each probe: what is left of it is a number, the outside
\* leaves it alone, every call makes it smaller, and only a finished run has nothing
\* left.
THEOREM ProviderRunsGetShorter ==
    ClientsSpec => /\ []LeftInv
                   /\ [][\/ StartSuite
                         \/ SuiteStep /\ CallsLeft(place') < CallsLeft(place)
                         \/ Outside /\ UNCHANGED place]_allVars
<1> DEFINE Shorter == \/ StartSuite
                      \/ SuiteStep /\ CallsLeft(place') < CallsLeft(place)
                      \/ Outside /\ UNCHANGED place
<1>1. BaseInv => LeftInv
  BY LeftFromPlaces DEF BaseInv
<1>2. BaseInv /\ [ClientsNext]_allVars => [Shorter]_allVars
  BY SuiteStepLess DEF BaseInv, ClientsNext, Outside, suiteVars
<1> HIDE DEF Shorter
<1>3. ClientsSpec => []LeftInv /\ [][Shorter]_allVars
  BY <1>1, <1>2, ClientsBase, PTL DEF ClientsSpec
<1> QED BY <1>3 DEF Shorter
=============================================================================
