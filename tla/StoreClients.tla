------------------------------ MODULE StoreClients ------------------------------
(***************************************************************************)
(* The reference provider with its two clients: the conformance suite and  *)
(* the benchmark.  Both are functions that call the provider and run in    *)
(* the caller's thread, so callers register records before, between and    *)
(* after their runs and a run of one does not overlap a run of the other.  *)
(* What a run asks stays in the provider's cache for the runs after it.    *)
(***************************************************************************)
EXTENDS StoreProperties, Conformance

CONSTANT Cases

\* Cases are a sequence, and probes and cases ask what callers may ask.
ASSUME QuestionsAssumption ==
    /\ Cases \in Seq({Cases[i] : i \in DOMAIN Cases})
    /\ \A i \in DOMAIN Probes :
          Probes[i].proposition \in Propositions /\ Probes[i].at \in Time
    /\ \A i \in DOMAIN Cases :
          Cases[i].proposition \in Propositions /\ Cases[i].at \in Time

VARIABLES step, first, score

Bench == INSTANCE Benchmark

benchmarkVars == <<step, first, score>>
clientVars    == <<suiteVars, benchmarkVars>>
allVars       == <<vars, clientVars>>

ClientsInit == Init /\ SuiteInit /\ Bench!BenchmarkInit

Quiet == ~Working /\ ~Bench!Measuring

\* A report has been read when its caller goes on.
ForgetReport == place' = <<"idle", 0>> /\ held' = None /\ violations' = {}
ForgetScore  == step' = <<"idle", 0>> /\ first' = None /\ score' = {}

Ingest ==
    /\ Quiet
    /\ \/ \E e \in Evidence : AddEvidence(e)
       \/ \E c \in Claims : AddClaim(c)
    /\ ForgetReport /\ ForgetScore

StartSuite == Quiet /\ Start /\ ForgetScore /\ UNCHANGED vars

\* One call of the suite and what it does with the reply.
SuiteStep ==
    /\ Working
    /\ \/ /\ \E answer \in {StateAt(probe.proposition, probe.at)} : AskState(answer)
          /\ QueryState(probe.proposition, probe.at)
       \/ AskEvidence(GetEvidence(held)) /\ UNCHANGED vars
       \/ AskUnknowns(GetUnknowns(None)) /\ UNCHANGED vars
       \/ AskConflicts(GetConflicts(None)) /\ UNCHANGED vars
       \/ /\ \E snapshot \in {Snapshot(None, probe.at)} :
                AskSnapshot(snapshot) \/ AskReplay(snapshot)
          /\ GetSnapshot(None, probe.at)
    /\ UNCHANGED benchmarkVars

StartBenchmark == Quiet /\ Bench!Begin /\ ForgetReport /\ UNCHANGED vars

BenchmarkStep ==
    /\ Bench!Measuring
    /\ LET case == Bench!case
       IN  \/ /\ \E answer \in {StateAt(case.proposition, case.at)} :
                    Bench!AskFirst(answer) \/ Bench!AskAgain(answer)
              /\ QueryState(case.proposition, case.at)
           \/ Bench!AskEvidence(GetEvidence(first)) /\ UNCHANGED vars
    /\ UNCHANGED suiteVars

ClientsNext ==
    \/ Ingest
    \/ StartSuite
    \/ SuiteStep
    \/ StartBenchmark
    \/ BenchmarkStep

\* A run that was started is a function that runs on.  Nobody has to start one,
\* and nobody has to register anything.
ClientsFairness == WF_allVars(SuiteStep) /\ WF_allVars(BenchmarkStep)

ClientsSpec == ClientsInit /\ [][ClientsNext]_allVars /\ ClientsFairness

----------------------------------------------------------------------------
(* What the suite's report and the benchmark's score say of the store *)

\* Whatever was registered and asked before, the suite finds the evidence of
\* each answer and finds each Unknown and Conflict listed: against the reference
\* provider it reports nothing but expectations missed and replays.
LookupsSucceed ==
    \A v \in violations : v[1] \in {"kind", "value", "reason", "replay"}

\* The suite takes a snapshot for unstable only where a claim in force at its
\* instant waited for an assertion resolved at that instant, as the first
\* snapshot resolves them.  The claim need not be unblocked: one that misses two
\* parents is told to miss one less.
ReplayOnlyAwaited ==
    \A v \in violations :
        v[1] = "replay" =>
            LET at == Probes[v[2]].at
            IN  \E c \in claims : /\ c \in Active(claims, c.proposition, at)
                                 /\ \E a \in c.parent_refs \cap assertions : a.resolved_at = at

\* A verdict holds when it is returned, though later calls of the same run may
\* have unblocked a claim that an earlier one judged: every probe the suite does
\* not report and every case the benchmark scores gets the expected answer from
\* the provider then, or has been overtaken.  That is, a claim derived from an
\* assertion answers with the others now, and the answer has only grown: from an
\* Unknown, or from an assertion to a conflict.
Expected(p) ==
    LET answer == StateAt(p.proposition, p.at)
    IN  /\ answer.kind = p.kind
        /\ answer.kind = "state"   => p.value \in {None, answer.value}
        /\ answer.kind = "unknown" => p.reason \in {None, answer.reason}

Overtaken(p) ==
    /\ \E c \in Usable(claims, p.proposition, p.at, Availability(p.at)) :
          c.parent_refs # {}
    /\ \/ p.kind = "unknown"
       \/ p.kind = "state" /\ StateAt(p.proposition, p.at).kind = "conflict"

SuiteVerdictStands ==
    place[1] = "done" =>
        \A i \in DOMAIN Probes :
            (\A v \in violations : v[2] # i) => Expected(Probes[i]) \/ Overtaken(Probes[i])

BenchmarkVerdictStands ==
    (step[1] = "done" /\ Bench!PerfectScore) =>
        \A i \in DOMAIN Cases : Expected(Cases[i]) \/ Overtaken(Cases[i])

\* Asking twice in a row gives one answer, except where the first answer was an
\* assertion that a claim about the very same question waited for.
Differing == Bench!Counted("replay_total") \ Bench!Counted("replay_correct")

BenchmarkReplays ==
    [][\A i \in Differing' \ Differing :
          /\ first.kind = "state"
          /\ \E c \in Active(claims, Cases[i].proposition, Cases[i].at) :
                first \in c.parent_refs]_allVars

\* The benchmark counts an expected assertion of this provider as unsupported
\* only for resting on parent assertions alone, never for evidence it cannot get.
UnsupportedOnlyDerived ==
    (Bench!Measuring /\ step[1] = "evidence") =>
        (Bench!Supported(GetEvidence(first)) \/ first.evidence_refs = {})

\* A run of the suite or of the benchmark that was started is finished: no call
\* it makes raises, whatever has been registered.
RunsFinish == (Working ~> ~Working) /\ (Bench!Measuring ~> ~Bench!Measuring)

\* Each run unblocks derived claims, so a first report may complain of replays.
\* On a store left alone, into which no more is registered, repeating the suite
\* comes to reports without.
SuiteSettles ==
    (<>[][FALSE]_inputs /\ []<><<StartSuite>>_allVars)
        => <>[](\A v \in violations : v[1] # "replay")
=============================================================================
