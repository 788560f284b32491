------------------------- MODULE PhxFireProperties -------------------------
(***************************************************************************)
(* What the client's four remembered fields must mean, said in terms of    *)
(* the polls it has answered, and what a verdict promises the lifecycle.   *)
(***************************************************************************)
EXTENDS PhxFire

\* Polls of this process that reached classifyPayloadHistory.
Counted ==
  {n \in (bornAt + 1)..Len(results) :
     results[n].verdict \in {"authoritative", "frozen"}}

Authoritative == {n \in Counted : results[n].verdict = "authoritative"}

\* The counted polls up to n that all returned the payload of poll n.
RunUpTo(n) ==
  {k \in Counted :
     /\ k <= n
     /\ \A j \in Counted : j \in k..n => results[j].payload = results[n].payload}

Latest(S) == CHOOSE n \in S : \A m \in S : m <= n
Earliest(S) == CHOOSE n \in S : \A m \in S : n <= m

\* The client's memory is what the counted polls say: the payload of the
\* last one, how many in a row returned it, when that run began, and the
\* feature count of the last authoritative one; an empty snapshot or a
\* restart leaves nothing to remember (classifyPayloadHistory 291-322).
MemoryIsTheRun ==
  IF Counted = {} \/ FeatureCount[results[Latest(Counted)].payload] = 0
    THEN Forgotten
    ELSE LET n == Latest(Counted) IN
         /\ lastPayloadSHA = results[n].payload
         /\ repeatedPayloads = Cardinality(RunUpTo(n))
         /\ unchangedSince = Earliest(RunUpTo(n))
         /\ lastAuthoritativeCount =
              FeatureCount[results[Latest(Authoritative)].payload]

\* A poll is degraded as frozen exactly when its non-empty payload has come
\* at least FROZEN_REPEAT_COUNT times in a row in this process, and then its
\* unchanged_since is the first of them (Poll 227-234 with 291-322).
FrozenFromThresholdOn ==
  \A n \in Counted :
    /\ results[n].verdict = "frozen"
         <=> /\ FeatureCount[results[n].payload] > 0
             /\ Cardinality(RunUpTo(n)) >= FrozenRepeatCount
    /\ results[n].verdict = "frozen" =>
         results[n].since = Earliest(RunUpTo(n))

\* Features lost between two counts, in per cent of the first.
DropIsSudden(before, after) ==
  (before - after) * 100 >= before * SuddenCollapsePercent

\* An authoritative snapshot that is empty, or whose feature count fell by
\* SUDDEN_COLLAPSE_PERCENT or more since the authoritative one before it in
\* this process, has had its count confirmed by a second request: nothing
\* is cleared on the word of one truncated answer (Poll 219-230).
CollapseIsConfirmed ==
  \A n \in Authoritative :
    LET before == {m \in Authoritative : m < n}
        count == FeatureCount[results[n].payload]
    IN \/ results[n].probed
       \/ /\ count > 0
          /\ before # {} =>
               LET last == FeatureCount[results[Latest(before)].payload]
               IN last > 0 => ~DropIsSudden(last, count)
=============================================================================
