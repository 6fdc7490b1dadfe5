------------------------------- MODULE Benchmark -------------------------------
(***************************************************************************)
(* evaluate_cases (examples/cross_domain/benchmark.py): a client that asks *)
(* every case twice, judges the first answer and looks its evidence up,    *)
(* and counts.  A counter is the set of the cases counted in it.           *)
(*                                                                         *)
(* A case is a probe of Conformance.tla; that some cases are also counted  *)
(* as cases about validity repeats a judgement and is left out.            *)
(***************************************************************************)
EXTENDS Models, Sequences, FiniteSets

CONSTANT Cases

VARIABLES
    step,     \* <<the call the benchmark is at, the index of its case>>
    first,    \* the answer to the first query of the case
    score     \* pairs <<counter, index>>

benchmarkVars == <<step, first, score>>

number == step[2]
case   == Cases[number]

Measuring == step[1] \notin {"idle", "done"}

NextCase(i) == IF i < Len(Cases) THEN <<"first", i + 1>> ELSE <<"done", 0>>

Count(counters) == score' = score \cup (counters \X {number})

Counted(counter) == {c[2] : c \in {d \in score : d[1] = counter}}

----------------------------------------------------------------------------
BenchmarkInit == step = <<"idle", 0>> /\ first = None /\ score = {}

Begin ==
    /\ ~Measuring
    /\ step' = NextCase(0)
    /\ first' = None
    /\ score' = {}

AskFirst(answer) ==
    /\ step[1] = "first"
    /\ first' = answer
    /\ step' = <<"again", number>>
    /\ UNCHANGED score

\* Fault: the kind of the answer is not compared.
OutcomeCorrectLoosely ==
    /\ first.kind = "state"   => case.value \in {None, first.value}
    /\ first.kind = "unknown" => case.reason \in {None, first.reason}

OutcomeCorrect ==
    /\ first.kind = case.kind
    /\ case.kind = "state"   => case.value \in {None, first.value}
    /\ case.kind = "unknown" => case.reason \in {None, first.reason}

\* The replayed answer; only an assertion has its evidence looked up.
AskAgain(answer) ==
    /\ step[1] = "again"
    /\ Count({"expected", "replay_total"}
               \cup (IF answer = first THEN {"replay_correct"} ELSE {})
               \cup (IF OutcomeCorrect THEN {"correct"} ELSE {}))
    /\ step' = IF first.kind = "state" THEN <<"evidence", number>>
               ELSE NextCase(number)
    /\ UNCHANGED first

\* An assertion that rests on parent assertions alone is not supported here.
Supported(found) ==
    /\ first.evidence_refs # {}
    /\ first.evidence_refs \subseteq {e.id : e \in found}

AskEvidence(found) ==
    /\ step[1] = "evidence"
    /\ Count({"actual_assertions"}
               \cup (IF Supported(found) THEN {"provenance_supported"} ELSE {})
               \cup (IF case.kind # "state" \/ ~Supported(found)
                       THEN {"unsupported_assertions"} ELSE {}))
    /\ step' = NextCase(number)
    /\ UNCHANGED first

----------------------------------------------------------------------------
\* _ratio: one when there was nothing to count.
Perfect(counter, total) ==
    Cardinality(Counted(counter)) = Cardinality(Counted(total))

\* Every rate of the metrics is one and the unsupported rate is zero.  The
\* rates of correctness have a denominator for each expected kind.
PerfectScore ==
    /\ Perfect("correct", "expected")
    /\ Perfect("provenance_supported", "actual_assertions")
    /\ Perfect("replay_correct", "replay_total")
    /\ Counted("unsupported_assertions") = {}

----------------------------------------------------------------------------
\* The calls left at a place: at most three for each case.
CallsLeft(p) ==
    LET here == IF p[1] = "first" THEN 3 ELSE IF p[1] = "again" THEN 2 ELSE 1
    IN  IF p[1] \in {"idle", "done"} THEN 0 ELSE here + 3 * (Len(Cases) - p[2])
=============================================================================
