----------------------------- MODULE Ingester ------------------------------
(***************************************************************************)
(* The loop of cmd/ingester: poll the client, hand the result to           *)
(* Manager.Apply, wait, again.  It composes the client (PhxFire) with the  *)
(* lifecycle (Lifecycle); the waits between polls order nothing and are    *)
(* left out.  The client's memory dies with the process, the database does *)
(* not: that is what the composition is about.                             *)
(***************************************************************************)
EXTENDS Lifecycle, PhxFire

CONSTANT Incidents  \* what ParseFeatures makes of each payload

\* An authoritative snapshot lost no feature in parsing.
ASSUME IncidentsAssumption ==
  /\ Incidents \in [Payload -> Snapshot]
  /\ \A p \in Payload : FeatureCount[p] = 0 <=> Observed(Incidents[p]) = {}

VARIABLES
  applied,  \* results handed to Apply so far
  recorded  \* the result each row of source_polls records

ingesterVars == <<vars, clientVars, applied, recorded>>

LastResult == results[Len(results)]

IngesterInit ==
  /\ Init
  /\ ClientInit
  /\ applied = 0
  /\ recorded = <<>>

\* src.Poll, once Apply of the result before it has returned.
Poll ==
  /\ pc = "idle"
  /\ applied = Len(results)
  /\ ClientStep
  /\ UNCHANGED <<vars, applied, recorded>>

\* mgr.Apply takes the result up to its first store call.
Take ==
  /\ pc = "idle"
  /\ applied < Len(results)
  /\ applied' = Len(results)
  /\ UNCHANGED clientVars

\* Mutated: Apply tests the error of the poll and not its classification.
ApplyRejectedOnlyFailures ==
  /\ Take
  /\ LastResult.verdict # "authoritative"
  /\ IF LastResult.verdict = "frozen"
       THEN RecordPollPending(Incidents[LastResult.payload], "ok")
       ELSE RecordPoll
  /\ recorded' = Append(recorded, Len(results))

ApplyRejected ==
  /\ Take
  /\ LastResult.verdict # "authoritative"
  /\ RecordPoll
  /\ recorded' = Append(recorded, Len(results))

ApplyAuthoritative(reply) ==
  /\ Take
  /\ LastResult.verdict = "authoritative"
  /\ RecordPollPending(Incidents[LastResult.payload], reply)
  /\ recorded' = Append(recorded, Len(results))

\* The first store call fails without effect; the loop logs the error.
ApplyRefused ==
  /\ Take
  /\ RecordPollRefused
  /\ UNCHANGED recorded

\* The rest of Apply.
ApplyStep ==
  /\ \/ \E i \in Incident, reply \in Reply : UpsertIncident(i, reply)
     \/ \E reply \in Reply :
          \/ MarkMissing(reply)
          \/ SweepCleared(reply)
          \/ RecordClearedEvents(reply)
          \/ MarkPollSucceeded(reply)
          \/ MarkPollFailed(reply)
  /\ UNCHANGED <<clientVars, applied, recorded>>

\* The process dies wherever it is and starts again.
ProcessRestart ==
  /\ Restart
  /\ \/ Crash
     \/ pc = "idle" /\ UNCHANGED vars
  /\ applied' = Len(results)
  /\ UNCHANGED recorded

IngesterNext ==
  \/ Poll
  \/ ApplyRejected
  \/ \E reply \in Reply : ApplyAuthoritative(reply)
  \/ ApplyRefused
  \/ ApplyStep
  \/ ProcessRestart

IngesterSpec == IngesterInit /\ [][IngesterNext]_ingesterVars
=============================================================================
