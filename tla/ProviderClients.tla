----------------------------- MODULE ProviderClients -----------------------------
(***************************************************************************)
(* The conformance suite run over the example providers, one after the     *)
(* other as the repository's tests do it, while the outside system they    *)
(* read goes on: it is another system, so a record may be replaced and the *)
(* source may go away or come back between any two calls of the suite.     *)
(* MaxMoves bounds how often the outside moves.                            *)
(***************************************************************************)
EXTENDS Providers, Conformance

CONSTANT MaxMoves

VARIABLES
    subject,     \* the provider the suite runs over
    moves,       \* what the outside has done so far, counted
    began,       \* moves when the run began
    snapped,     \* moves when the snapshot the suite holds was taken
    last         \* the last report, if nothing moved during its run

auditVars  == <<moves, began, snapped, last>>
clientVars == <<suiteVars, subject, auditVars>>
allVars    == <<vars, clientVars>>

Subjects == {"projection", "external"}

\* What the provider under test replies.
Projecting == subject = "projection"

Answer(prop, at) == IF Projecting THEN P!Answer(prop, at) ELSE X!Answer(prop, at)

EvidenceOn(x) == IF Projecting THEN P!GetEvidence(x) ELSE X!GetEvidence(x)

UnknownsOn(scope) ==
    IF Projecting THEN P!GetUnknowns(scope) ELSE X!GetUnknowns(scope)

\* The version in the external provider's snapshots does not change.
SnapshotOn(at) ==
    IF Projecting THEN P!Engine!Snapshot(None, at)
    ELSE [as_of |-> at, scope |-> None, results |-> X!SnapshotAnswers(None, at)]

Query(prop, at) ==
    \/ Projecting /\ P!QueryState(prop, at) /\ UNCHANGED xVars
    \/ ~Projecting /\ X!QueryState(prop, at) /\ UNCHANGED pVars

Snap(at) ==
    \/ Projecting /\ P!GetSnapshot(None, at) /\ UNCHANGED xVars
    \/ ~Projecting /\ X!GetSnapshot(None, at) /\ UNCHANGED pVars

----------------------------------------------------------------------------
ClientsInit ==
    /\ Init /\ SuiteInit
    /\ subject \in Subjects
    /\ moves = 0 /\ began = 0 /\ snapped = 0 /\ last = None

Outside ==
    /\ moves < MaxMoves
    /\ moves' = moves + 1
    /\ \/ \E r \in AllRecords \ records : Put(r) /\ UNCHANGED available
       \/ X!Toggle /\ UNCHANGED records
    /\ UNCHANGED <<pVars, xVars, suiteVars, subject, began, snapped, last>>

StartSuite ==
    /\ Start
    /\ subject' \in Subjects
    /\ began' = moves
    /\ UNCHANGED <<vars, moves, snapped, last>>

\* The call the suite is at, and what it does with the reply.  get_conflicts is
\* asked after a Conflict only, which neither provider ever answers
\* (ProjectionNeverConflicts); a run that got there would not finish here.
Calls ==
    \/ /\ \E answer \in {Answer(probe.proposition, probe.at)} : AskState(answer)
       /\ Query(probe.proposition, probe.at)
    \/ AskEvidence(EvidenceOn(held)) /\ UNCHANGED <<pVars, xVars>>
    \/ AskUnknowns(UnknownsOn(None)) /\ UNCHANGED <<pVars, xVars>>
    \/ /\ \E snapshot \in {SnapshotOn(probe.at)} :
             AskSnapshot(snapshot) \/ AskReplay(snapshot)
       /\ Snap(probe.at)

SuiteStep ==
    /\ Working
    /\ Calls
    /\ snapped' = IF place[1] = "snapshot" THEN moves ELSE snapped
    /\ last' = IF place'[1] # "done" THEN last
               ELSE IF began # moves THEN None
               ELSE [subject |-> subject, moves |-> moves, report |-> violations']
    /\ UNCHANGED <<records, available, subject, moves, began>>

ClientsNext == Outside \/ StartSuite \/ SuiteStep

\* The suite is a function that runs on; the outside need not ever move.
ClientsSpec == ClientsInit /\ [][ClientsNext]_allVars /\ WF_allVars(SuiteStep)

----------------------------------------------------------------------------
(* What the suite's report says of a provider whose source moves *)

\* What a provider told is still looked up after the record behind it was
\* replaced or the source went away: an answer's evidence and its place in the
\* lists depend on the provider's own caches, never on the outside.
LookupsSucceed ==
    \A v \in violations : v[1] \in {"kind", "value", "reason", "replay"}

\* A snapshot taken twice differs only if the outside moved in between.
ReplayOnlyIfMoved ==
    [][(place[1] = "replay" /\ moves = snapped)
          => <<"replay", index>> \notin violations']_place

\* The parity the providers' report claims: with the source up and left alone
\* during two runs, the suite's verdict is the same whichever provider each ran
\* over; with the source down, it is the same over the same provider.
VerdictRepeats ==
    [][(place'[1] = "done" /\ last # None /\ last.moves = moves
            /\ (available \/ last.subject = subject))
          => violations' = last.report]_place

\* No outage stops a run that was started: an unavailable source is an answer.
RunFinishes == Working ~> ~Working
=============================================================================
