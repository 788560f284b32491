------------------------ MODULE IngesterProperties -------------------------
(***************************************************************************)
(* What the client and the lifecycle promise only together.                *)
(***************************************************************************)
EXTENDS Ingester, PhxFireProperties

\* Each component behaves in the loop as its own module says, so that what
\* is shown of it alone holds here: the loop never polls while Apply runs,
\* and never applies what the client did not answer (main.go 52-91).
ComponentsKept == Spec /\ ClientSpec

\* A snapshot the source merely repeats clears nothing: when a sweep clears
\* an incident, the polls since its absence began show two different
\* snapshots, or an empty one whose count was confirmed - or the process
\* was restarted meanwhile and forgot (Poll 233 with SweepCleared 845-883).
\* It needs FROZEN_REPEAT_COUNT <= CLEAR_AFTER_MISSES + 1.
FrozenFeedClearsNothing ==
  [][\A i \in Incident :
       cleared_at[i] = Null /\ cleared_at'[i] # Null =>
         LET first == recorded[missing_since[i]] IN
         \/ bornAt >= first
         \/ FeatureCount[LastResult.payload] = 0
         \/ \E n \in Counted :
              n >= first /\ results[n].payload # LastResult.payload]_ingesterVars

\* A payload is given up as frozen before any poll applied it only when
\* every one of its authoritative polls met a fault of its own: the client
\* counts what it fetched, not what the database took (Poll 233, Apply).
FrozenBeforePublished ==
  \A n \in Counted :
    results[n].verdict = "frozen" =>
      \/ \E p \in OkPolls : recorded[p] \in RunUpTo(n)
      \/ faults >= FrozenRepeatCount - 1

\* What the last successful poll published is what was fetched: every
\* incident on record and not missing is one that a snapshot accepted as
\* authoritative reported, with that snapshot's content.
RowsComeFromSnapshots ==
  \A i \in Incident :
    Exists(i) =>
      LET n == recorded[last_seen_at[i]] IN
      /\ results[n].verdict = "authoritative"
      /\ content[i] = Incidents[results[n].payload][i]
=============================================================================
