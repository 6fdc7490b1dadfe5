# WorldState: TLA+ models, model checking and proofs

WorldState (`src/src/worldstate`) represents what is known about the world as
explicit values.  Callers register *evidence* and *claims*; a *provider* answers
questions about a proposition (an entity and a property key) at an instant with
exactly one of three outcomes: a `StateAssertion`, an `Unknown` that says why, or
a `Conflict` that names the claims that disagree.  Nothing is overwritten and
nothing is ranked.  This directory models the provider and its resolver, the two
example providers, the clients that probe a provider (the conformance suite and
the benchmark), what consumers get over the wire, and the ids that tell values
apart.  TLC checks the models on small universes.  TLAPS proves for all universes
what the providers, the clients, the wire and the ids guarantee: every safety
property that a passing run checks.

Paths below are relative to the repository, which is at `src/`.

## 1. Inventory

| Component | State | Operations | Interacts with |
|---|---|---|---|
| `models.py`: frozen value objects | none | constructors, which refuse ill-formed values | everything |
| `ids.py`: canonical JSON, `semantic_id` | none | pure | every object whose id hashes its content |
| `resolution.py`: `ReferenceResolver` | none | `resolve_state`: claims, proposition, instant, availability to one outcome | called by the store for each query |
| `memory.py`: `InMemoryWorldState` | observations, evidence, claims, transitions; cached assertions, unknowns, conflicts; scopes of outcomes | four `add_*`, `query_state`, `query_relation`, `get_snapshot`, four lookups | resolver, snapshot builder; its cache feeds later resolutions |
| `snapshot.py`: `build_snapshot` | none | sorts outcomes, derives the id | called by the store |
| `history.py`: `build_transition` | none | joins two assertions' provenance | its result is registered by callers |
| `provider.py`: `WorldStateProvider` | none | the protocol of seven reads | implemented by three providers |
| `conformance.py` | a local list of violations | probes a provider in order | a client of any provider |
| `wire.py` | none | outcomes and snapshots to JSON objects | pure |
| `examples/cross_domain/benchmark.py` | local counters | asks every case twice and scores the answers | a client of any provider |
| `examples/integrations/agentreality_wire.py` | none | the projection of an outcome for one consumer | pure |
| `examples/providers/projection.py` | the outside record store; evidence cache, outcome cache, scope references | `put`; the protocol | builds a fresh `InMemoryWorldState` for each query |
| `examples/providers/external.py` | the outside source and whether it answers; evidence and unknown caches | `put`; the protocol | no engine |
| other files of `examples/cross_domain`, `examples/integrations` | none that outlives a call | fixed scenarios, a live demonstration, generators of golden files | reference provider, wire |

**What is hard here.**  The library is synchronous, single-threaded, in memory:
there are no messages, threads, timeouts or restarts in it.  The one thing that
moves on its own is the outside system behind the example providers, between any
two calls of a client.  What is hard is the *order of legal calls* and *time as
data*:

* there is no clock; records may be dated before queries already answered and
  arrive afterwards, and queries may go back in time;
* a read is not only a read: it caches its outcome, `get_evidence`,
  `get_unknowns` and `get_conflicts` answer from that cache, and a cached
  assertion is the parent a derived claim was waiting for;
* five stages (matching, visible, active, usable, agreeing) each compare
  another pair of instants or references, and an aggregate of several windows
  must still contain the instant;
* two values may carry one caller-chosen id;
* what an outcome cites must stay retrievable for ever, in the external provider
  from a cache keyed by something else;
* an outside source may be unavailable, and its records are replaced, also
  between a client's query and the lookup of what it was told;
* a client's verdict is about a provider that its own later calls change;
* instants lose precision on their way to a consumer;
* values are told apart by canonical text, and built from containers that their
  caller keeps and changes.

**What makes each component correct.**  Resolver: an assertion only from usable,
agreeing claims, with all their provenance and their common window; a conflict
only for a real disagreement; never an exception.  Store: outcomes stay supported
and traceable, answers are refined and not retracted, the future is invisible,
scopes do not leak.  Transitions: both sides' provenance.  Projection: evidence
outlives the record it came from.  External provider: same answers as the
reference resolution, an outage is never an absence, evidence can be traced.
Suite and benchmark: they finish, they blame a provider only for what it did,
and what they pass is so.  Wire: no two outcomes become one.  Adapter: its window
may be relied on.  Ids: one id, one content, for ever.

The hazards behind this list are in `PROJECT.json` under `hazards`, each at its line.

## 2. Modules

| Module | Models | Notes |
|---|---|---|
| `Models` | value objects, what constructors accept | objects are records; a content-hashed object is its own id |
| `Resolution` | `resolution.py` | operators; `ResolveState` has the stages and reasons of the code |
| `History` | `history.py` | operators |
| `MemoryStore` | `memory.py`, `snapshot.py` | the state machine: eight variables, one action per operation |
| `StoreProperties` | | what callers of the store rely on; the refinement mapping to `Knowledge` |
| `Knowledge` | | the abstract specification of the store: a body of answers that improve, and what it told |
| `Consumers` | `wire.py`, `agentreality_wire.py` | payloads and projections as operators over the store's outcomes |
| `Records` | the outside store of the examples, shared helpers | |
| `ProjectionProvider` | `projection.py` | `_project` is `INSTANCE MemoryStore` with its registries substituted by the projected records |
| `ExternalProvider` | `external.py` | |
| `Providers` | both example providers over one outside store | composition of the two by `INSTANCE` with their own caches |
| `Conformance` | `conformance.py` | the suite: one action per call it makes, the reply a parameter |
| `Benchmark` | `benchmark.py` | the benchmark, in the same form |
| `StoreClients` | both clients over the reference provider | composition: a client's call is also the provider's action |
| `ProviderClients` | the suite over the example providers, with an outside that moves | composition with `Providers` |
| `CanonicalJson` | `freeze_json`, `canonical_json` | nested values on a heap of the caller's containers; the text as a recursive function of the memory |
| `MCStore`, `MCProviders`, `MCStoreClients`, `MCProviderClients`, `MCCanonicalJson` | small universes of records, probes and values, and the bounds | |
| `ResolutionProofs`, `StoreProofs`, `KnowledgeProofs`, `ConsumerProofs` | | theorems about the resolver, the store, its refinement, the wire |
| `ClientProofs` | | theorems about `StoreClients` |
| `ProviderProofs`, `ProviderClientProofs` | | theorems about `Providers` and `ProviderClients` |
| `CanonicalProofs` | | theorems about `CanonicalJson` |

**Correspondence.**  A dictionary keyed by its values' own ids is the set of its
values; the store's dictionaries become `observations`, `evidence`, `claims`,
`transitions`, `assertions`, `unknowns`, `conflicts`, and `_outcome_scopes` is a
set of pairs.  `_put_unique` is `PutUnique`: the first value under an id stays,
another one raises and changes nothing.  `query_state`, `query_relation` and
`get_snapshot` are actions that include the caching (`Register`); a query whose
outcome a constructor would refuse raises before it registers anything, which is
the guard `Constructible`.  Lookups are operators over the state.  `CanBuildTransition` has
the refusals of `build_transition`.  Sorted tuples are sets: the order of a
canonical tuple is not modelled, what is in it is.

In `Models` an assertion, unknown, conflict or transition carries no id field.
Its id is `semantic_id` of a payload that determines its content, so with a
collision-free hash the object can stand for its id; this is what lets a claim name
a parent assertion before it has been resolved.  Ids of observations,
evidence and claims are chosen by the caller and are a field.

**Refinement.**  `Knowledge` has two variables: the answer to each question (a
scope, a proposition, an instant) and the pairs of question and answer told so
far.  In the store the first is `ResolveState` over the selected claims and the
present availability (`KnownNow`), and the second the outcome cache with its
scopes (`ToldNow`); relation queries, which are never resolved, tell nothing.

**Clients.**  A call of `query_state` or `get_snapshot` by the suite or the
benchmark is one step: the provider's own action with its caching, conjoined with
the client's reaction to the reply.  A lookup is a step of its own, as it is a
call of its own.  The suite's place in its two loops is `place`; the benchmark's
is `step`.  In `StoreClients` a run occupies the only thread, so records are
registered between runs; in `ProviderClients` the outside is another
system and moves between any two calls.

**Values.**  In `CanonicalJson` a list or a dictionary is a container at an address
of the caller's and can be shared and changed; what `freeze_json` makes of it is a
container of the record's own.  A memory maps references to containers, and
`Canonical` maps them to texts: the text of a container is rendered from its scalars
and the texts of the containers it leads to, as `_canonical` and `json.dumps` go
down a nested value.  A text is a sequence of tokens (brackets, separators, the
spelling of a scalar or of a key).  A record is built as the external provider
builds its assertions: the id from the value as it was passed, the value frozen by
the constructor.  It keeps a copy of every address, most of which nothing in it
leads to; its text and its content are what can be reached from its value.

Operators commented as *faults* (`VisibleNewest`, `TellFirst`, ...) are no part of
the system.  Each is a plausible mistake in the definition after it, and is used
only to confirm that a property fails when the code is wrong in that way.

## 3. What the runs check

**Fairness.**  The library does nothing on its own, every step of a provider is a
caller's call, and nothing obliges a caller to call, so the providers' runs
assume no fairness.  The clients' runs assume weak fairness of one thing: the next
step of a suite or benchmark that has been started, because it is a function that
runs on in its caller's thread.  Starting a run, registering a record and every
move of the outside are not fair.  A provider's action that would raise is
disabled, so `RunsFinish` and `RunFinishes` say that no call raises on the way.
`SuiteSettles` has its premise in its statement: it speaks of behaviours in which
the suite is started again and again.

Only `canonical` disables deadlock checking: its callers stop at the bounds.

| Run | Question | Universe and bounds |
|---|---|---|
| `store_window` | Are cached outcomes supported, genuine, traceable and consistent with their windows, whatever arrives in whatever order, and does no query raise? | five claims: a window that ends, one that starts later, a dissenter, two claims with one id, a claim derived from an assertion; instants 0..2; `MaxOutcomes` 2 |
| `store_answers` | How may the answer to one question change from one step to the next? | a scoped claim, a dissenter, a derived claim; instants 0..1; `MaxOutcomes` 2 |
| `store_scopes` | Do scopes leak, and is what a snapshot knows bounded by its instant? | claims for scopes A, B and none; one source with two versions; a relation; `MaxOutcomes` 2 |
| `store_history` | Do transitions lead back to the evidence of both sides? | a claim that ends and one of another value that begins then, each with its own evidence, a claim derived from the first, and a claim with the id of the transition between them; observations with one id and relation queries; `MaxOutcomes` 3, `MaxTransitions` 2 |
| `providers_both` | Do the two example providers answer alike, and keep what their lookups promise? | a record that is replaced twice (later date, other scope, a window), a second proposition kept under the first one's record id, outages; `MaxTold` 2 over both providers |
| `clients_store` | What do the suite's report and the benchmark's score say of the store, and do they come to an end? | a claim about each of two propositions, a dissent about the first derived from the second, a claim about the first derived from both; three probes about the first and a case about each, some of whose expectations fail in some stores; one instant; no bound on runs |
| `clients_providers` | What does the suite say of a provider whose source moves under it? | one record and its replacement, outages, two probes at two instants; `MaxMoves` 2 moves of the outside in all |
| `canonical` | Do ids keep telling contents apart? | two containers of up to two items that may share a third one; `None`, `1`, `1.0`, `True` and `"1"`; `MaxRecords` 2, `MaxEdits` 1 |

**Why the bounds are enough to be interesting.**  `MaxOutcomes`, `MaxTransitions`
and `MaxTold` are state constraints: a state beyond the bound is still checked, so
every property is checked one query further than the bound says.
All subsets of the registrable records are reached
in every order with the queries between them.  The effects the properties speak of
need at most three claims (two that agree and one that differs), two instants (one on
each side of a date) plus a third for a window with an inside, and two outcomes (a
parent and its child).  The fault operators confirm it: each property fails under
its fault within these bounds.  The proofs remove the bounds (section 4).
In `clients_store` nothing is bounded but the universe: runs go on for ever, over
every set of registered records, with whatever the runs before left in the cache.
The suite asks only about one of the two propositions, so that the other one is
first resolved by a snapshot: with that, a snapshot can resolve one of two parents
that a claim waits for.  Its probes go on from one that caches what the second's
claim waits for, and the benchmark's second case caches what the first one's dissent
waits for: in both a judgement is overtaken within the run that made it.
Two moves of the outside are enough for each kind of harm in `clients_providers`:
a change between a query and its lookup, or between a snapshot and its replay,
and one that undoes it.  In `canonical` two values are all an id can confuse, and two
levels of nesting show where a bracket or a shallow copy is missing.
`Grain` is 2 in the store's runs: one of the instants 0..2 is no whole
millisecond, and a window ends at it.

The properties (their comments in the modules say more):

* `TypeOK`, `Supported`, `ConflictGenuine`, `EvidenceRetrievable`,
  `QueriesNeverRaise`, `ScopeIsolation`, `TransitionTraceable`: what stands behind
  every outcome, for as long as it is cached.
* `WindowHolds`: while an assertion's validity lasts, a later query never
  comes back Unknown or with less evidence.
* `AnswersOnlyGrow`: for one proposition, instant and scope the answer moves only
  from Unknown to an assertion to a conflict.  `ScopeWidening`: the unscoped
  answer says at least what a scoped one says.
* `FutureInvisible`, `SnapshotKnowledgeBounded`: later-dated records do not reach
  an answer, nor the known part of a snapshot.
* `ReadsOnlyUnblock`: asking changes a later answer in one way only.
* `ImplementsKnowledge`, `ToldStands`: the store refines `Knowledge`, where an
  answer once told stands.
* `WireLossless`: no two outcomes or snapshots have one payload.
  `ProjectedWindowHolds`: a consumer that was sent a window in milliseconds may go
  by it, although it was cut.
* `Interchangeable` and the seven properties of the example providers.
* `LookupsSucceed`: the suite never misses what a provider told, though the
  source changes or goes away in between (checked over all three providers).
* `ReplayOnlyAwaited`, `ReplayOnlyIfMoved`: the suite takes a provider for unstable
  only for the known reason, a claim in force awaited an assertion resolved at that
  instant, or because the outside moved.  `BenchmarkReplays`: two answers in a row
  differ only if a claim about that very question names the first of them as a parent.
* `SuiteVerdictStands`, `BenchmarkVerdictStands`: what a run passed is still so when
  it returns, or was overtaken: a claim with a parent became usable, and the answer
  grew from an Unknown, or from an assertion to a conflict.  `VerdictRepeats`: two
  runs undisturbed by the outside agree, whichever provider each ran over.
* `UnsupportedOnlyDerived`: what the benchmark counts as unsupported rests on
  parents alone.
* `RunsFinish`, `RunFinishes`: a run comes to its end.  `SuiteSettles`: on a store
  that is left alone, repeating the suite comes to reports without unstable
  snapshots.  (A caller that registers a claim and one derived from it between any
  two runs can make every report complain.)
* `IdDescribesContent`, `SameIdSameContent`, `SameContentSameId`: an id stays the
  digest of its record's content whatever its caller does, and ids are equal
  exactly for contents that say the same.

### Where documents and code disagree

Four runs state a sentence of the documents and show a behaviour of the code that
contradicts it (`findings` in `PROJECT.json` quotes the lines).

1. `store_replay` / `SnapshotReplay`.  A derived claim and the claim behind its
   parent are registered.  The first `get_snapshot` finds the parent not yet
   resolved, so the derived proposition is Unknown, and caches the parent.  The
   same call again asserts the derived proposition.  The reference provider thus
   fails the conformance suite's replay check.  What does hold is
   `ReadsOnlyUnblock`.
2. `store_bounded` / `SnapshotBounded`.  A claim created after an instant adds an
   `Unknown(NO_EVIDENCE)` to a snapshot as of that instant and changes its id.
   What does hold is `SnapshotKnowledgeBounded`.
3. `store_agreeing` / `AgreeingClaimsAssert`.  Claims that agree on value and
   epistemic mode but were made for different scopes resolve to a Conflict.
4. `providers_evidence` / `ExternalEvidenceKept`.  One record asked about at two
   instants gives two assertions and one cached piece of evidence, labelled with
   the second; the evidence of the first can no longer be retrieved.  What does
   hold is `ExternalEvidenceCoherent` and `ExternalFreshEvidence`.  In this run each
   proposition has a record id of its own.  The same happens within one snapshot when
   two properties are kept under one record id, which nothing forbids, with one
   version and date: both are asserted from one piece of evidence, and the evidence of
   one of them cannot be retrieved, not even at once.  `ExternalFreshEvidence` is
   therefore stated for one of the two, and `providers_both` contains the case.

## 4. What is proved

For every universe of records, every set of propositions and scopes, all instants
and all probes and cases:

| Module | Of | Proved |
|---|---|---|
| `StoreProofs` | the reference provider | `TypeOK`, `Supported`, `ConflictGenuine`, `EvidenceRetrievable`, `QueriesNeverRaise`, `WindowHolds`, `ScopeWidening`, `ScopeIsolation`, `TransitionTraceable`; of its steps `AnswersOnlyGrow`, `FutureInvisible`, `SnapshotKnowledgeBounded`, `ReadsOnlyUnblock` |
| `KnowledgeProofs` | the refinement | `ImplementsKnowledge`, and with it `ToldStands` |
| `ConsumerProofs` | the wire and the adapter | `WireLossless`; `ProjectedWindowHolds` for every number of instants in a millisecond |
| `ClientProofs` | both clients over the reference provider | `LookupsSucceed`, `ReplayOnlyAwaited`, `SuiteVerdictStands`, `BenchmarkReplays`, `UnsupportedOnlyDerived`, `BenchmarkVerdictStands`; `RunsGetShorter` |
| `ProviderProofs` | the example providers | `Interchangeable`; `ProjectionEvidenceKept`, `ProjectionUnknownsListed`, `ProjectionNeverConflicts`; `ExternalEvidenceCoherent`, `ExternalUnknownsListed`, `ExternalFreshEvidence`, `ExternalNoFalseAbsence` |
| `ProviderClientProofs` | the suite over them, the outside moving as often as it likes | `LookupsSucceed`, `ReplayOnlyIfMoved`, `VerdictRepeats`; `ProviderRunsGetShorter` |
| `CanonicalProofs` | ids and the values they stand for, at any depth | `IdDescribesContent`, `SameContentSameId`; `SameIdSameContent` given `SpellingApart` |

**Assumptions.**  Those the modules name.  Instants are naturals (`TimeAssumption`,
`InstantsAssumption`): in the code a zoned datetime, compared and never reckoned
with.  Claims, evidence and records were accepted by their constructors
(`ClaimsAssumption`, `EvidenceAssumption`, `RecordsAssumption`).  The clients ask
what the provider may be asked: known propositions, instants of its time
(`QuestionsAssumption`, `ProbesAssumption`).  `None` is neither an instant nor a
scope.  Claims may be infinitely many, and two may share an id.  What a caller holds
is lists and dictionaries of scalars and of less nested containers, and sorting a set
of keys lists just them (`CanonicalAssumption`).  Nothing is assumed
of record ids.  One theorem needs more: `SameIdAlwaysSameContent` has `SpellingApart`
in its statement, that no two scalars are spelled alike, and none like punctuation.  That is what `json.dumps` does with `1`, `1.0`, `true` and `"1"`, but
spelling is made of characters, of which the provers know nothing.  It holds of the
values of the run `canonical`, and `ScalarTextBare`, which leaves out the quotes, is
the fault that breaks it there.

**Argument: the store and its consumers.**

1. `TypeOK` is inductive.  Its part that matters is that no two registered values
   share an id, which `PutUnique` keeps.
2. `StoresGrow`: nothing registered or cached ever leaves.  `NewOutcomes`: a step
   that caches something changes no input, and what it caches was resolved from the
   claims of its scope in the state it started from.
3. `Supported` is therefore inductive given `TypeOK`: a new assertion is supported
   by its usable claims (`ResolvedSupported`), an old one keeps its support
   (`SupportGrows`).  `ConflictGenuine` likewise, where unique ids are needed for
   the candidate ids to keep naming the same claims (`NamesBack`).
   `EvidenceRetrievable` follows from the two; on its own it is not inductive.
4. The window lemmas (`ResolutionProofs`): in a finite range of naturals a
   non-empty set has a least and a greatest element, so `LatestStart` and
   `EarliestEnd` are bounds that are attained; as all claims used are in force at
   the instant, the common window contains it.  That gives `AssertionConstructible`
   and with it `QueriesNeverRaise`.  The maximum over starts exists for an infinite
   set of claims too, because starts are bounded by the instant, and the minimum
   over ends because the naturals are well founded.
5. `UsableGrows`: more claims and more available references never make a usable
   claim unusable.  With `ResolveGrows` it gives `AnswersOnlyGrow`, `ScopeWidening`
   and `WindowHolds`.
6. The refinement: at first every answer is Unknown; a step improves answers
   (`AnswersGrowNext`), forgets nothing told (`StoresGrow`), and files under a scope
   only the answer of that moment to a question of that scope (`NewlyFiled`).
   `ToldStands` is then inductive in the abstract specification, because "says at
   least" is transitive (`AtLeastTransitive`), given that all told was asked.
7. The projected window: cutting instants is monotone and never moves one forward
   (`IsoUtcMonotone`, `IsoUtcFloor`).  So a whole millisecond after the projected
   instant is after the instant, one not after the projected end is not after the
   end, and the window's beginning was reached when the assertion was resolved;
   `WindowAlwaysHolds` does the rest.

8. Snapshots: the results that say more than that no claim is known are those about
   the propositions of claims created by the instant (`NoEvidenceIs`,
   `KnownResults`), and a step that adds only later-dated records touches nothing
   these are resolved from (`ResolveByKnown`).
9. The wire: a payload flattens its outcome, so the shape of outcomes is kept as an
   invariant (`OutcomesShaped`) and each kind's payload is shown to give every field
   back (`PayloadTells`).  For snapshots this is proved of any two snapshots of that
   shape, whether or not one store gave both.

**Argument: the clients.**  Both clients are proved to keep the provider inside its
own specification (`ClientsUseStore`), so the store's invariants carry over; the
places of their loops are typed (`PlacesOK`).  Then:

1. `LookupsReady`: what the suite is about to look up is cached, and the store's
   `EvidenceRetrievable` holds of whatever is cached.  `LookupsSucceed` is inductive
   together with it; alone it is not.
2. The verdicts: during a run nothing is registered, and a read changes an answer
   only where a claim in force waits for a parent (`ReadsOnlyUnblockNext`), so a
   judgement stands, or is overtaken and stays so, until the run returns
   (`StandsNext`): a usable claim stays usable, those that become so have parents
   (`NewlyUsable`), and an answer that changed has only grown.  The invariants say so of
   the probes judged so far, and of the cases measured so far, whose counters are
   sets (`CountAdds`).
3. The replays: between the two snapshots only the first one's outcomes have been
   cached, all resolved at its instant, and an answer changes only where a claim in
   force names one of them as a parent.  The obvious stronger statement, that
   the claim has been *unblocked*, is false, as the attempt to prove it showed: a
   claim that waits for two parents, one of which the snapshot resolves, stays
   blocked and is told to miss one reference less, and the two snapshots differ in
   that Unknown.  `ReplayOnlyAwaited` says what is so, and the universe of
   `clients_store` contains the case.
4. The benchmark's replays: a query caches its own answer and nothing else
   (`AskedCachesOne`), so the second answer differs from the first only if a claim in
   force about the question names the first as a parent (`AskedAgain`).  Nothing
   moves between the two, hence `BenchmarkReplays`.

**Argument: the example providers.**

1. There is at most one current record for a proposition (`RecordsOK`).  Everything
   the projection answers is then resolved from at most one claim (`ResolveOne`):
   never a conflict, and always with the record's own window and evidence.
2. What the projection keeps is proved from pairs: all that was told is plain, each
   assertion told is paired with its evidence references, each pair's evidence is
   cached, and each Unknown is listed for its scope.  No one of them refers to the
   present records, which is why a replacement harms none.
3. The external cache is keyed by evidence id, so a new answer may overwrite an old
   one's label, and one record of a snapshot that of another.  The invariant says what
   survives: each id cited is cached (`ExternalCited`) under one label that cites it
   alone (`ExternalLabelled`).  What a step writes is one piece for each id its answers
   cite, labelled by one of them (`FreshIs`), and no older piece under these ids stays
   (`FreshTraceable`): that is `ExternalFreshEvidence`, and it needs nothing of the
   record ids.
4. `Interchangeable`: with one record the engine's five stages come down to the
   comparison of two dates and a window (`ShortCut`), which is what the external
   provider computes; propositions without a record are Unknown in both.

**Argument: the suite over a source that moves.**  Evidence and Unknowns are looked
up in caches the outside does not touch, so `HeldFound` survives its moves.
A snapshot is a function of the records, the availability and the instant
(`SnapshotStays`), and `moves` counts every change of the first two.  For
`VerdictRepeats` the report of an undisturbed run is written as a function of what
the outside holds and of the probes judged so far (`Report`); the invariant says
that a run that nothing has disturbed has reported exactly that.  It needs
`LookupsSucceed` and the snapshot invariant, for lookups and replays must add
nothing.  With the source up the function is the same over both providers
(`ReportsAlike`), which is `Interchangeable` once more.

**Argument: runs come to their end.**  `CallsLeft` counts the calls a place leaves
a client to make: three for each probe still to be judged and two snapshots for
each, or three for each case.  `RunsGetShorter` and `ProviderRunsGetShorter` say
that it is a number within that bound, that every call makes it smaller whatever
the answer was, that nothing but the client's own calls changes it, and that it is
zero only of a run that is over.  Liveness then needs only that the next call is
made and does not raise, which the runs check.

**Argument: ids.**

1. Every nested value is finite: what the caller holds and what a record keeps lead
   to less nested containers of the same memory only (`HeldOK`, `MemoryWell`).  That
   makes the recursion of `Canonical` one that has a value (`CanonicalIs`), and lets
   what follows be shown depth by depth.  The library's induction theorem cannot be
   applied here, because it takes a predicate as its parameter; `AllNumbers` says the
   same of sets, and each induction is about the set of depths up to which a
   statement holds.
2. Containers that correspond, and lead to containers that correspond, have the same
   text (`CorrespondingTexts`).  A record's copies correspond to what the caller held
   (`CopiesAgree`), which gives the text its id was made from; they correspond to
   themselves after every later step (`TextStays`), because nothing in a record
   leads back to the caller's heap (`PartsLead`), so the text stays that one.  This is
   `IdAlwaysDescribesContent`.
3. Records that say the same correspond (`SameTexts`), so they have one text:
   `SameContentAlwaysSameId`.  Rendering asks a container for its labels in sorted
   order and for nothing else that could tell two fillings apart (`RenderedAlike`).
4. For the converse a text must be readable in one way only.  The invariant of the
   induction is stronger than that different values have different texts: no text,
   *followed by anything*, reads like another one followed by anything
   (`Apart`, `TextsApart`).  Entries that are apart stay so when they are joined by
   commas and closed by a bracket, because no entry begins with either
   (`JoinedApart`).  Equal texts then have the same entries, equal entries the same key
   and the same text of a value (`EntriesRead`), and so on down: the pairs of
   containers with equal texts are the correspondence that `Same` asks for
   (`SameTextRead`, `OneTextSame`).

**Only model-checked.**  Liveness under fairness (`RunsFinish`, `RunFinishes`,
`SuiteSettles`) is out of TLAPS's reach, and with it that the next call of a client is
always possible (`ENABLED`).  `SpellingApart` is a hypothesis, not a theorem.
Counterexamples (section 3) are TLC's.

## 5. Not modelled

* Text checks, enum spellings, wording of errors and violations: an object either
  exists and is immutable or its construction raised.
* What `freeze_json` and `canonical_json` refuse (non-finite floats, keys that are no
  strings, instants without a zone), and cyclic containers: such a call raises and
  leaves nothing behind.  How a number or a string is spelt beyond what tells two
  apart; negative zero, which is spelt differently from zero and counts as a number
  of its own.  A caller that turns the nesting of its containers round (`a` in `b`,
  later `b` in `a`): each address has one place in the nesting.  The digest itself,
  taken to be free of collisions.  In all modules but `CanonicalJson` a value is a
  model value.
* The order inside canonical tuples; with it the suite's checks that a snapshot's
  tuples are sorted.
* The suite's check that an object is a provider at all, and its count of checks.
* Validity cases of the benchmark, which count a judgement a second time.
* `RelationAssertion` and `subscribe_changes`: declared, never built or called.
* `reason` of a transition, which only enters its id; superseded assertions, which
  no code makes.
* The clearing of the outside store: the examples never delete a record.
* The scenario builders, the live demonstration and the generators of golden files
  (`sensor_state.py`, `registry_state.py`, `m3b_reference_live.py`, `*_vectors.py`):
  constant inputs to what is modelled, with no choice to explore.

## 6. Plan

Done, in this order: `Models`, `Resolution`, `History`, `MemoryStore`,
`StoreProperties` with the four store runs; `ResolutionProofs`, `StoreProofs`;
`Records`, `ProjectionProvider`, `ExternalProvider`, `Providers`; `Conformance`,
`Benchmark`, `StoreClients`, `ProviderClients`; `Knowledge` with its refinement and
proof; `Consumers` and `ConsumerProofs`; `CanonicalJson`; then the proofs about
snapshots, the wire, the clients and the example providers; `CanonicalProofs`, for
which the text became a recursive function, and the bounds on the clients' runs.

Every safety property of the runs is proved.  What could follow: an abstract
specification of the example providers' promises, as `Knowledge` is of the store's:
what was told stays traceable, listed or labelled.
