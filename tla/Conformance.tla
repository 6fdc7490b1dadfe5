------------------------------ MODULE Conformance ------------------------------
(***************************************************************************)
(* check_provider_conformance (conformance.py): a client that asks any     *)
(* provider a list of probes and reports where an answer is not what the   *)
(* probe expects, where the answer's evidence or its place in the lists of *)
(* unknowns and conflicts cannot be looked up, and where a snapshot taken  *)
(* twice differs.                                                          *)
(*                                                                         *)
(* Every call to the provider is a step of its own: what is looked up is   *)
(* looked up after the answer was given.  The actions take the provider's  *)
(* reply as a parameter; a module that composes the suite with a provider  *)
(* makes the reply that provider's.                                        *)
(*                                                                         *)
(* A probe is [proposition, at, kind, value, reason], None standing for a  *)
(* value or a reason that is not looked at.                                *)
(***************************************************************************)
EXTENDS Models, Sequences

CONSTANT Probes

ASSUME ProbesAssumption ==
    /\ Probes \in Seq({Probes[i] : i \in DOMAIN Probes})
    /\ \A i \in DOMAIN Probes :
          Instant(Probes[i].at) /\ Probes[i].kind \in {"state", "unknown", "conflict"}

VARIABLES
    place,        \* <<the call the suite is at, the index of its probe>>
    held,         \* the answer or the snapshot the suite holds
    violations    \* pairs <<code, index>> of the report

suiteVars == <<place, held, violations>>

index == place[2]
probe == Probes[index]

Working == place[1] \notin {"idle", "done"}

\* Where a loop over the probes goes after its i-th turn.
Turn(loop, i, after) == IF i < Len(Probes) THEN <<loop, i + 1>> ELSE after

NextSnapshot(i) == Turn("snapshot", i, <<"done", 0>>)
NextProbe(i)    == Turn("probe", i, NextSnapshot(0))

\* Reporting at most one violation, and none when the check holds.
Check(code, holds) ==
    violations' = IF holds THEN violations ELSE violations \cup {<<code, index>>}

----------------------------------------------------------------------------
SuiteInit == place = <<"idle", 0>> /\ held = None /\ violations = {}

\* A call of the suite: a new report.
Start ==
    /\ ~Working
    /\ place' = NextProbe(0)
    /\ held' = None
    /\ violations' = {}

\* Fault: the value of an assertion is not compared.
AnswerFitsLoosely(answer) ==
    answer.kind = "unknown" => probe.reason \in {None, answer.reason}

\* Beyond its kind: the value of an assertion, the reason of an Unknown.
AnswerFits(answer) ==
    /\ answer.kind = "state"   => probe.value \in {None, answer.value}
    /\ answer.kind = "unknown" => probe.reason \in {None, answer.reason}

FirstLookup(answer) == IF answer.kind = "unknown" THEN "unknowns" ELSE "evidence"

\* query_state answered.  An answer of the wrong kind is not looked up.
AskState(answer) ==
    /\ place[1] = "probe"
    /\ held' = answer
    /\ \/ /\ answer.kind # probe.kind
          /\ Check("kind", FALSE)
          /\ place' = NextProbe(index)
       \/ /\ answer.kind = probe.kind
          /\ Check(IF answer.kind = "state" THEN "value" ELSE "reason",
                   AnswerFits(answer))
          /\ place' = <<FirstLookup(answer), index>>

\* get_evidence on the answer; a conflict is then looked up in get_conflicts.
AskEvidence(found) ==
    /\ place[1] = "evidence"
    /\ Check("evidence", held.evidence_refs \subseteq {e.id : e \in found})
    /\ place' = IF held.kind = "conflict" THEN <<"conflicts", index>>
                ELSE NextProbe(index)
    /\ UNCHANGED held

\* get_unknowns(None) and get_conflicts(None).
AskUnknowns(listed) ==
    /\ place[1] = "unknowns"
    /\ Check("unknown_lookup", held \in listed)
    /\ place' = NextProbe(index)
    /\ UNCHANGED held

AskConflicts(listed) ==
    /\ place[1] = "conflicts"
    /\ Check("conflict_lookup", held \in listed)
    /\ place' = NextProbe(index)
    /\ UNCHANGED held

\* Fault: the second snapshot is compared with the last answer held.
AskSnapshotUnkept(snapshot) ==
    /\ place[1] = "snapshot"
    /\ place' = <<"replay", index>>
    /\ UNCHANGED <<held, violations>>

\* get_snapshot(None, at), twice for each probe.
AskSnapshot(snapshot) ==
    /\ place[1] = "snapshot"
    /\ held' = snapshot
    /\ place' = <<"replay", index>>
    /\ UNCHANGED violations

AskReplay(snapshot) ==
    /\ place[1] = "replay"
    /\ Check("replay", snapshot = held)
    /\ place' = NextSnapshot(index)
    /\ UNCHANGED held

----------------------------------------------------------------------------
(* How long a run can get *)

\* The calls left at a place: at most three for each probe that is still to be
\* judged, then two snapshots for each.  A run has none left when it is done.
CallsLeft(p) ==
    LET later == Len(Probes) - p[2]
        here  == IF p[1] = "probe" THEN 3
                 ELSE IF p[1] \in {"evidence", "snapshot"} THEN 2 ELSE 1
    IN  IF p[1] \in {"idle", "done"} THEN 0
        ELSE IF p[1] \in {"snapshot", "replay"} THEN here + 2 * later
        ELSE here + 3 * later + 2 * Len(Probes)
=============================================================================
