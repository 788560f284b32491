------------------------- MODULE IncidentLifecycle -------------------------
(***************************************************************************)
(* What the lifecycle package promises of each incident, with no database, *)
(* no polls and no failures: observed -> missing -> cleared -> observed    *)
(* again, where missing becomes cleared only on enough authoritative       *)
(* absences, each of them published for every missing incident at once.    *)
(***************************************************************************)
EXTENDS Naturals

CONSTANTS Incident, ClearAfterMisses

VARIABLES
  phase,      \* where each incident stands
  absences,   \* published absences of a missing incident since it went missing
  reopened    \* how often a cleared incident came back

avars == <<phase, absences, reopened>>
Phase == {"unknown", "observed", "missing", "cleared"}

AInit ==
  /\ phase = [i \in Incident |-> "unknown"]
  /\ absences = [i \in Incident |-> 0]
  /\ reopened = [i \in Incident |-> 0]

\* An observation ends any absence; one of a cleared incident is a reopening.
Observe(i) ==
  /\ phase' = [phase EXCEPT ![i] = "observed"]
  /\ absences' = [absences EXCEPT ![i] = 0]
  /\ reopened' =
       [reopened EXCEPT ![i] = IF phase[i] = "cleared" THEN @ + 1 ELSE @]

GoMissing(S) ==
  /\ \A i \in S : phase[i] = "observed"
  /\ phase' = [i \in Incident |-> IF i \in S THEN "missing" ELSE phase[i]]
  /\ UNCHANGED <<absences, reopened>>

\* One authoritative poll is published: no incident it missed is still
\* "observed" unless it is present, so only missing incidents count it.
Publish ==
  /\ absences' = [i \in Incident |->
       IF phase[i] = "missing" THEN absences[i] + 1 ELSE absences[i]]
  /\ UNCHANGED <<phase, reopened>>

\* Every incident that is due is cleared, and only those.
Due == {i \in Incident : phase[i] = "missing" /\ absences[i] >= ClearAfterMisses}

ClearDue ==
  /\ phase' = [i \in Incident |-> IF i \in Due THEN "cleared" ELSE phase[i]]
  /\ absences' = [i \in Incident |-> IF i \in Due THEN 0 ELSE absences[i]]
  /\ UNCHANGED reopened

ANext ==
  \/ \E i \in Incident : Observe(i)
  \/ \E S \in SUBSET Incident : GoMissing(S)
  \/ Publish
  \/ ClearDue

ASpec == AInit /\ [][ANext]_avars
=============================================================================
