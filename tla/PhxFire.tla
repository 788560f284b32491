------------------------------ MODULE PhxFire ------------------------------
(***************************************************************************)
(* The Phoenix Fire client (internal/source/phxfire): one Poll fetches the *)
(* feed, decides whether the snapshot is authoritative, and for a sudden   *)
(* collapse asks the server for an independent count.  What the client     *)
(* remembers between polls lives in memory only: a restart forgets it.     *)
(*                                                                         *)
(* A payload stands for its SHA-256 and is one that validateSnapshot finds *)
(* authoritative; FeatureCount is the number of its features.  The index   *)
(* of a poll in results is its StartedAt.                                  *)
(***************************************************************************)
EXTENDS Integers, Sequences, FiniteSets

CONSTANTS
  Payload,                \* well-formed, complete response bodies
  NoPayload,              \* the empty SHA
  FeatureCount,           \* features of each payload
  FrozenRepeatCount,      \* Policy.FrozenRepeatCount
  SuddenCollapsePercent,  \* Policy.SuddenCollapsePercent
  MaxResults,             \* bound: polls of the source
  MaxRestarts             \* bound: restarts of the process

ASSUME PayloadAssumption ==
  NoPayload \notin Payload /\ FeatureCount \in [Payload -> Nat]
ASSUME PolicyAssumption ==
  FrozenRepeatCount \in Nat \ {0, 1} /\ SuddenCollapsePercent \in 1..100
ASSUME ResultBoundsAssumption == MaxResults \in Nat /\ MaxRestarts \in Nat

VARIABLES
  lastPayloadSHA,
  repeatedPayloads,
  unchangedSince,          \* 0 is the zero time
  lastAuthoritativeCount,
  probing,                 \* the payload whose count is being asked for
  results,                 \* what Poll returned, poll by poll
  bornAt,                  \* polls made before this process started
  restarts

history ==
  <<lastPayloadSHA, repeatedPayloads, unchangedSince, lastAuthoritativeCount>>
clientVars == <<history, probing, results, bornAt, restarts>>

Verdict == {"authoritative", "frozen", "incomplete", "degraded", "failure"}
Result(p, verdict, probed, since) ==
  [payload |-> p, verdict |-> verdict, probed |-> probed, since |-> since]
Finish(result) == results' = Append(results, result) /\ probing' = NoPayload

-----------------------------------------------------------------------------
\* A new client remembers nothing.
Forgotten ==
  /\ lastPayloadSHA = NoPayload
  /\ repeatedPayloads = 0
  /\ unchangedSince = 0
  /\ lastAuthoritativeCount = 0

Forget ==
  /\ lastPayloadSHA' = NoPayload
  /\ repeatedPayloads' = 0
  /\ unchangedSince' = 0
  /\ lastAuthoritativeCount' = 0

ClientInit ==
  /\ Forgotten
  /\ probing = NoPayload
  /\ results = <<>>
  /\ bornAt = 0
  /\ restarts = 0

Idle == probing = NoPayload /\ Len(results) < MaxResults

\* Mutated: only a drop beyond the configured percentage is a collapse.
RequiresCountConfirmationBeyond(count) ==
  \/ count = 0
  \/ /\ lastAuthoritativeCount > 0
     /\ count * 100 < lastAuthoritativeCount * (100 - SuddenCollapsePercent)

RequiresCountConfirmation(count) ==
  \/ count = 0
  \/ /\ lastAuthoritativeCount > 0
     /\ count * 100 <= lastAuthoritativeCount * (100 - SuddenCollapsePercent)

\* Mutated: the repetitions are not counted from one again.
ClassifyPayloadHistoryKeepsCounting(p, probed) ==
  LET since == IF p = lastPayloadSHA THEN unchangedSince ELSE Len(results) + 1
      frozen == repeatedPayloads + 1 >= FrozenRepeatCount
  IN IF FeatureCount[p] = 0
       THEN /\ Forget
            /\ Finish(Result(p, "authoritative", probed, 0))
       ELSE /\ lastPayloadSHA' = p
            /\ repeatedPayloads' = repeatedPayloads + 1
            /\ unchangedSince' = since
            /\ lastAuthoritativeCount' =
                 IF frozen THEN lastAuthoritativeCount ELSE FeatureCount[p]
            /\ Finish(Result(p, IF frozen THEN "frozen" ELSE "authoritative",
                             probed, since))

\* Mutated: the payload is frozen once it repeats more often than allowed.
ClassifyPayloadHistoryOneMore(p, probed) ==
  LET same == p = lastPayloadSHA
      repeats == IF same THEN repeatedPayloads + 1 ELSE 1
      since == IF same THEN unchangedSince ELSE Len(results) + 1
      frozen == repeats > FrozenRepeatCount
  IN IF FeatureCount[p] = 0
       THEN /\ Forget
            /\ Finish(Result(p, "authoritative", probed, 0))
       ELSE /\ lastPayloadSHA' = p
            /\ repeatedPayloads' = repeats
            /\ unchangedSince' = since
            /\ lastAuthoritativeCount' =
                 IF frozen THEN lastAuthoritativeCount ELSE FeatureCount[p]
            /\ Finish(Result(p, IF frozen THEN "frozen" ELSE "authoritative",
                             probed, since))

\* classifyPayloadHistory of an authoritative snapshot: an empty one wipes
\* the memory, a repeated one is degraded from the threshold on.
ClassifyPayloadHistory(p, probed) ==
  LET same == p = lastPayloadSHA
      repeats == IF same THEN repeatedPayloads + 1 ELSE 1
      since == IF same THEN unchangedSince ELSE Len(results) + 1
      frozen == repeats >= FrozenRepeatCount
  IN IF FeatureCount[p] = 0
       THEN /\ Forget
            /\ Finish(Result(p, "authoritative", probed, 0))
       ELSE /\ lastPayloadSHA' = p
            /\ repeatedPayloads' = repeats
            /\ unchangedSince' = since
            /\ lastAuthoritativeCount' =
                 IF frozen THEN lastAuthoritativeCount ELSE FeatureCount[p]
            /\ Finish(Result(p, IF frozen THEN "frozen" ELSE "authoritative",
                             probed, since))

\* The request fails, its status is not 2xx, or the body is not a feature
\* collection ("failure"); or it is one, but truncated or off the contract
\* ("degraded").  Either way classifyPayloadHistory leaves the memory alone.
PollRejected(verdict) ==
  /\ Idle
  /\ Finish(Result(NoPayload, verdict, FALSE, 0))
  /\ UNCHANGED <<history, bornAt, restarts>>

\* The body is authoritative so far.
PollFetched(p) ==
  /\ Idle
  /\ IF RequiresCountConfirmation(FeatureCount[p])
       THEN probing' = p /\ UNCHANGED <<history, results>>
       ELSE ClassifyPayloadHistory(p, FALSE)
  /\ UNCHANGED <<bornAt, restarts>>

\* Mutated: a reason the classification does not know.
FetchCountUnknownReason(agrees) ==
  /\ probing # NoPayload
  /\ IF agrees
       THEN ClassifyPayloadHistory(probing, TRUE)
       ELSE /\ Finish(Result(probing, "unconfirmed", TRUE, 0))
            /\ UNCHANGED history
  /\ UNCHANGED <<bornAt, restarts>>

\* The second request: it may fail, or count a feed that has moved on.
FetchCount(agrees) ==
  /\ probing # NoPayload
  /\ IF agrees
       THEN ClassifyPayloadHistory(probing, TRUE)
       ELSE /\ Finish(Result(probing, "incomplete", TRUE, 0))
            /\ UNCHANGED history
  /\ UNCHANGED <<bornAt, restarts>>

\* The ingester dies and a new one starts; a poll under way is lost.
Restart ==
  /\ restarts < MaxRestarts
  /\ restarts' = restarts + 1
  /\ Forget
  /\ probing' = NoPayload
  /\ bornAt' = Len(results)
  /\ UNCHANGED results

ClientStep ==
  \/ \E verdict \in {"failure", "degraded"} : PollRejected(verdict)
  \/ \E p \in Payload : PollFetched(p)
  \/ \E agrees \in BOOLEAN : FetchCount(agrees)

ClientNext == ClientStep \/ Restart

ClientSpec == ClientInit /\ [][ClientNext]_clientVars

-----------------------------------------------------------------------------
PollResult ==
  [payload : Payload \union {NoPayload}, verdict : Verdict,
   probed : BOOLEAN, since : Nat]

ClientTypeOK ==
  /\ lastPayloadSHA \in Payload \union {NoPayload}
  /\ repeatedPayloads \in Nat
  /\ unchangedSince \in Nat
  /\ lastAuthoritativeCount \in Nat
  /\ probing \in Payload \union {NoPayload}
  /\ results \in Seq(PollResult)
  /\ bornAt \in 0..Len(results)
  /\ restarts \in 0..MaxRestarts
=============================================================================
