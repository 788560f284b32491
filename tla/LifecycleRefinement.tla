------------------------ MODULE LifecycleRefinement ------------------------
(***************************************************************************)
(* Manager.Apply over the database implements IncidentLifecycle: the phase *)
(* of an incident is read off the NULLs of its row, and its absences are   *)
(* the count SweepCleared makes over source_polls.                         *)
(***************************************************************************)
EXTENDS LifecycleProperties

PhaseOf(i) ==
  CASE ~Exists(i) -> "unknown"
    [] Exists(i) /\ cleared_at[i] # Null -> "cleared"
    [] Exists(i) /\ cleared_at[i] = Null /\ missing_since[i] # Null -> "missing"
    [] OTHER -> "observed"

AbsencesOf(i) ==
  IF PhaseOf(i) = "missing" THEN Cardinality(OkSince(missing_since[i])) ELSE 0

Promise ==
  INSTANCE IncidentLifecycle
    WITH phase <- [i \in Incident |-> PhaseOf(i)],
         absences <- [i \in Incident |-> AbsencesOf(i)],
         reopened <- reopen_count

(***************************************************************************)
(* Every store call Apply makes, completed or not, is one step of the      *)
(* promised lifecycle or none: a failed apply, a crash, an outage and a    *)
(* lost reply leave every incident in a state the promise allows.          *)
(***************************************************************************)
ImplementsPromise == Promise!ASpec
=============================================================================
