---------------------------- MODULE SourceStatus ----------------------------
(***************************************************************************)
(* How long it takes until the API tells the state of the source: the      *)
(* waits, the backoff and the polls of cmd/ingester against the thresholds *)
(* of classifySourceStatus.                                                *)
(*                                                                         *)
(* Time is elapsed time, in any unit: every variable that stands for a     *)
(* timestamp holds its age, and a wait, a poll or an apply lets all ages   *)
(* grow by its duration.  A status only gets worse with age, so it is      *)
(* enough to look at the end of each.  Ages beyond Horizon are alike.      *)
(***************************************************************************)
EXTENDS Integers

CONSTANTS
  PollInterval, PollJitter,  \* POLL_INTERVAL, POLL_JITTER
  PollTimeout,               \* the context of src.Poll: 30 s
  ApplyTime,                 \* bound: an apply takes no longer
  FailureStep,               \* what a failure adds to the doubled backoff: 5 s
  RefusedStep,               \* what a 429 or 403 adds: 30 s
  BackoffCap,                \* capBackoff: 90 s
  FrozenRepeatCount,
  DegradedAfter, DownAfter,  \* SOURCE_DEGRADED_AFTER, SOURCE_DOWN_AFTER
  DownFailures,              \* SOURCE_DOWN_FAILURES
  FrozenDownAfter,           \* FROZEN_DOWN_AFTER
  Horizon                    \* bound: ages

ASSUME PacingAssumption ==
  /\ PollInterval \in Nat /\ PollJitter \in Nat /\ PollJitter < PollInterval
  /\ PollTimeout \in Nat /\ ApplyTime \in Nat
  /\ FailureStep \in Nat /\ RefusedStep \in Nat /\ BackoffCap \in Nat
ASSUME ThresholdsAssumption ==
  /\ FrozenRepeatCount \in Nat /\ FrozenRepeatCount >= 2
  /\ DegradedAfter \in Nat \ {0} /\ DownAfter \in Nat /\ DownAfter > DegradedAfter
  /\ DownFailures \in Nat \ {0}
  /\ FrozenDownAfter \in Nat \ {0}
  /\ Horizon \in Nat /\ Horizon > DownAfter /\ Horizon > FrozenDownAfter

VARIABLES
  source,          \* what the source does at present
  steadyFor,       \* live or repeating: for how long, with no failure of ours
  asked,           \* what it did when the poll under way began
  step,            \* the loop's: "wait", "poll" or "apply"
  backoff,
  repeated,        \* the client's repeatedPayloads, up to FrozenRepeatCount
  unchangedFor,    \* age of its unchangedSince
  verdict,         \* classification and reason of the poll being applied
  pollFor,         \* age of its started_at
  successFor,      \* source_polls: age of the last success
  latest,          \* verdict of the last attempt that is not pending
  latestUnchanged, \* age of the unchanged_since it notes
  failures         \* consecutive failures, up to DownFailures

environment == <<source, steadyFor>>
loop == <<asked, step, backoff, verdict, pollFor>>
memory == <<repeated, unchangedFor>>
log == <<successFor, latest, latestUnchanged, failures>>
statusVars == <<environment, loop, memory, log>>

\* The source answers with news, repeats a snapshot, leaves features out,
\* does not answer, or turns us away with a 403 or 429.
Behaviour == {"live", "repeating", "partial", "silent", "refusing"}
Failed(v) == v \in {"failure", "refused"}

Never == -1
Smaller(a, b) == IF a < b THEN a ELSE b
Older(age, d) == IF age = Never THEN Never ELSE Smaller(age + d, Horizon)
Steadier(d) == IF source \in {"live", "repeating"} THEN Older(steadyFor, d) ELSE 0

-----------------------------------------------------------------------------
StatusInit ==
  /\ source \in Behaviour
  /\ steadyFor = 0
  /\ asked = "none"
  /\ step = "wait"
  /\ backoff = 0
  /\ repeated = 0
  /\ unchangedFor = Never
  /\ verdict = "none"
  /\ pollFor = Never
  /\ successFor = Never
  /\ latest = "none"
  /\ latestUnchanged = Never
  /\ failures = 0

\* At any moment the source starts to behave otherwise.
SourceTurns ==
  /\ source' \in Behaviour \ {source}
  /\ steadyFor' = 0
  /\ UNCHANGED <<loop, memory, log>>

\* Jitter: the wait is the interval give or take the jitter, and the backoff.
Waits ==
  {PollInterval + j + backoff : j \in -PollJitter .. PollJitter}

StartPoll(wait) ==
  /\ step = "wait"
  /\ step' = "poll"
  /\ asked' = source
  /\ pollFor' = 0
  /\ steadyFor' = Steadier(wait)
  /\ unchangedFor' = Older(unchangedFor, wait)
  /\ successFor' = Older(successFor, wait)
  /\ latestUnchanged' = Older(latestUnchanged, wait)
  /\ UNCHANGED <<source, backoff, verdict, repeated, latest, failures>>

\* Mutated: the start of the run moves with every repetition.
ClassifyPayloadHistoryMoving(same, d) ==
  /\ repeated' = IF same THEN Smaller(repeated + 1, FrozenRepeatCount) ELSE 1
  /\ unchangedFor' = Older(pollFor, d)
  /\ verdict' = IF same /\ repeated + 1 >= FrozenRepeatCount
                  THEN "frozen" ELSE "authoritative"

\* The client's memory of identical snapshots; it compares with the last one.
ClassifyPayloadHistory(same, d) ==
  /\ repeated' = IF same THEN Smaller(repeated + 1, FrozenRepeatCount) ELSE 1
  /\ unchangedFor' = Older(IF same THEN unchangedFor ELSE pollFor, d)
  /\ verdict' = IF same /\ repeated + 1 >= FrozenRepeatCount
                  THEN "frozen" ELSE "authoritative"

\* A snapshot of no feature is news too, and empties the memory.
ForgetPayloads ==
  /\ repeated' = 0
  /\ unchangedFor' = Never
  /\ verdict' = "authoritative"

Outcome ==
  [partial |-> "incomplete", silent |-> "failure", refusing |-> "refused"]

\* src.Poll returns within its timeout, with what the source did when it was
\* asked or does by now.
FinishPoll(behaviour, d) ==
  /\ step = "poll"
  /\ behaviour \in {asked, source}
  /\ step' = "apply"
  /\ asked' = "none"
  /\ pollFor' = Older(pollFor, d)
  /\ \/ behaviour = "live" /\ ForgetPayloads
     \/ behaviour = "live" /\ ClassifyPayloadHistory(FALSE, d)
     \/ behaviour = "repeating" /\ ClassifyPayloadHistory(repeated > 0, d)
     \/ /\ behaviour \in DOMAIN Outcome
        /\ verdict' = Outcome[behaviour]
        /\ unchangedFor' = Older(unchangedFor, d)
        /\ UNCHANGED repeated
  /\ steadyFor' = Steadier(d)
  /\ successFor' = Older(successFor, d)
  /\ latestUnchanged' = Older(latestUnchanged, d)
  /\ UNCHANGED <<source, backoff, latest, failures>>

\* Mutated: the backoff of an outage has no end.
CapBackoffNever(d) == d

CapBackoff(d) == Smaller(d, BackoffCap)

\* Mutated: nothing resets the backoff.
NextBackoffNoReset ==
  CASE verdict \in {"authoritative", "frozen", "incomplete"} -> backoff
    [] verdict = "refused" -> CapBackoff(2 * backoff + RefusedStep)
    [] verdict = "failure" -> CapBackoff(2 * backoff + FailureStep)

NextBackoff ==
  CASE verdict \in {"authoritative", "frozen", "incomplete"} -> 0
    [] verdict = "refused" -> CapBackoff(2 * backoff + RefusedStep)
    [] verdict = "failure" -> CapBackoff(2 * backoff + FailureStep)

\* The poll is over and the next wait begins.
Rest(d) ==
  /\ step = "apply"
  /\ step' = "wait"
  /\ verdict' = "none"
  /\ pollFor' = Never
  /\ backoff' = NextBackoff
  /\ unchangedFor' = Older(unchangedFor, d)
  /\ UNCHANGED <<source, asked, repeated>>

\* Its row becomes the last attempt.  The notes keep the classification,
\* whatever becomes of the row.
LastAttempt ==
  /\ latest' = verdict
  /\ failures' = IF Failed(verdict) THEN Smaller(failures + 1, DownFailures) ELSE 0

\* RecordPoll of what is not authoritative, or MarkPollSucceeded.
Recorded(d) ==
  /\ LastAttempt
  /\ successFor' =
       Older(IF verdict = "authoritative" THEN pollFor ELSE successFor, d)
  /\ latestUnchanged' =
       IF verdict = "frozen" THEN Older(unchangedFor, d) ELSE Never

MarkedFailed(d) ==
  /\ verdict = "authoritative"
  /\ LastAttempt
  /\ successFor' = Older(successFor, d)
  /\ latestUnchanged' = Never

\* Apply returns no error.
Apply(d) ==
  /\ Rest(d)
  /\ Recorded(d)
  /\ steadyFor' = Steadier(d)

\* Apply returns an error: its last statement was carried out all the same,
\* an authoritative poll is marked failed, or there is no row or one that
\* stays pending.  The loop logs the error and goes on.
ApplyFails(d) ==
  /\ Rest(d)
  /\ \/ Recorded(d)
     \/ MarkedFailed(d)
     \/ /\ successFor' = Older(successFor, d)
        /\ latestUnchanged' = Older(latestUnchanged, d)
        /\ UNCHANGED <<latest, failures>>
  /\ steadyFor' = 0

\* The process ends and starts again, with its memory empty.
Restart ==
  /\ step' = "wait"
  /\ asked' = "none"
  /\ verdict' = "none"
  /\ pollFor' = Never
  /\ backoff' = 0
  /\ repeated' = 0
  /\ unchangedFor' = Never
  /\ steadyFor' = 0
  /\ UNCHANGED <<source, log>>

StatusNext ==
  \/ SourceTurns
  \/ \E wait \in Waits : StartPoll(wait)
  \/ \E behaviour \in Behaviour, d \in 0..PollTimeout : FinishPoll(behaviour, d)
  \/ \E d \in 0..ApplyTime : Apply(d) \/ ApplyFails(d)
  \/ Restart

StatusSpec == StatusInit /\ [][StatusNext]_statusVars

-----------------------------------------------------------------------------
\* classifySourceStatus.
Down ==
  \/ successFor = Never
  \/ latest = "frozen" /\ latestUnchanged >= FrozenDownAfter
  \/ failures >= DownFailures
  \/ successFor >= DownAfter

Degraded ==
  /\ ~Down
  /\ \/ latest \in {"frozen", "incomplete"}
     \/ failures > 0 \/ Failed(latest)
     \/ successFor >= DegradedAfter

SourceStatus == IF Down THEN "down" ELSE IF Degraded THEN "degraded" ELSE "ok"

-----------------------------------------------------------------------------
Age == -1 .. Horizon

StatusTypeOK ==
  /\ source \in Behaviour
  /\ steadyFor \in 0..Horizon
  /\ asked \in Behaviour \union {"none"}
  /\ step \in {"wait", "poll", "apply"}
  /\ backoff \in 0..BackoffCap
  /\ repeated \in 0..FrozenRepeatCount
  /\ unchangedFor \in Age
  /\ verdict \in {"none", "authoritative", "frozen", "incomplete", "failure", "refused"}
  /\ pollFor \in Age
  /\ successFor \in Age
  /\ latest \in {"none", "authoritative", "frozen", "incomplete", "failure", "refused"}
  /\ latestUnchanged \in Age
  /\ failures \in 0..DownFailures

\* The longest a poll and its apply, and the wait before it, can take.
Work == PollTimeout + ApplyTime
Cycle == PollInterval + PollJitter + Work

\* When the first poll begins that is asked after the source has turned.
FirstAsked == Work + PollInterval + PollJitter + BackoffCap

\* From the first of FrozenRepeatCount polls to the end of the last.
Repetitions == (FrozenRepeatCount - 1) * Cycle + Work

\* config.Load does not ask for it, its defaults provide it: a wait leaves
\* room for two polls before a success is overdue.
ASSUME RoomAssumption == PollInterval + PollJitter + 2 * Work < DegradedAfter
ASSUME HorizonAssumption ==
  /\ Horizon > FirstAsked + FrozenDownAfter
  /\ Horizon > FirstAsked + Repetitions

(***************************************************************************)
(* A source that answers is soon reported so, and never goes stale in      *)
(* between: whatever went before, once it is live and nothing fails on our *)
(* side for one full backoff and two polls, its status is ok and stays ok. *)
(* The wait between two polls must leave room for it under                 *)
(* SOURCE_DEGRADED_AFTER (main.go 60-90 with classifySourceStatus).        *)
(***************************************************************************)
LiveReportedOk ==
  source = "live" /\ steadyFor > FirstAsked + Work => SourceStatus = "ok"

(***************************************************************************)
(* A source that repeats one snapshot is reported down by the time the     *)
(* snapshot is FROZEN_DOWN_AFTER old, or has been repeated often enough if *)
(* that takes longer (classifyPayloadHistory with classifySourceStatus).   *)
(***************************************************************************)
FrozenReportedDown ==
  source = "repeating"
    /\ steadyFor > FirstAsked + FrozenDownAfter
    /\ steadyFor > FirstAsked + Repetitions
  => SourceStatus = "down"
=============================================================================
