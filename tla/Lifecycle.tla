----------------------------- MODULE Lifecycle -----------------------------
(***************************************************************************)
(* The incident lifecycle of one polled source: lifecycle.Manager.Apply    *)
(* and the store calls it makes.  Every store call commits on its own, so  *)
(* every store call is an action, and a crash, a refused call or a call    *)
(* whose reply is lost may come between any two of them.                   *)
(*                                                                         *)
(* Time.  A poll's started_at is its index in source_polls: one ingester   *)
(* applies its polls one after the other, so the two orders agree, and     *)
(* every timestamp this package writes is some poll's started_at.  Null    *)
(* (0) stands for SQL NULL.                                                *)
(***************************************************************************)
EXTENDS Naturals, Sequences, FiniteSets

CONSTANTS
  Incident,          \* incident_id values of the source
  Content,           \* values of the columns buildIncidentDelta compares
  Absent,            \* "not in the payload"
  ClearAfterMisses,  \* CLEAR_AFTER_MISSES
  MaxPolls,          \* bound: rows of source_polls
  MaxFaults          \* bound: crashes and failed store calls

ASSUME ClearAfterMissesAssumption == ClearAfterMisses \in Nat \ {0}
ASSUME AbsentAssumption == Absent \notin Content
ASSUME BoundsAssumption == MaxPolls \in Nat /\ MaxFaults \in Nat

VARIABLES
  polls,          \* source_polls: status (success and error columns) and
                  \* the snapshot's incidents, kept to state properties
  content,        \* incidents, column by column, per incident_id
  last_seen_at,   \* Null while the row does not exist
  missing_since,
  cleared_at,
  reopen_count,
  events,         \* incident_events of each incident, in order of id
  pc,             \* the store call Apply makes next, "idle" between polls
  snapshot,       \* r.Incidents of the poll being applied
  todo,           \* its incidents still to be upserted
  cleared,        \* what SweepCleared returned
  faults          \* crashes and failed calls so far

row == <<content, last_seen_at, missing_since, cleared_at, reopen_count>>
vars == <<polls, row, events, pc, snapshot, todo, cleared, faults>>

Null == 0
Status == {"pending", "success", "failed"}
\* No payload is taken to list an incident twice, which ParseFeatures allows:
\* it would be upserted twice with the same poll.
Snapshot == [Incident -> Content \union {Absent}]
NoSnapshot == [i \in Incident |-> Absent]
Observed(s) == {i \in Incident : s[i] # Absent}

\* A store call succeeds, fails without effect, or commits and fails: the
\* connection drops before the reply, or scanning the reply fails.
Reply == {"ok", "refused", "lost"}
Committed(reply) == reply \in {"ok", "lost"}

Reports(reply) ==
  IF reply = "ok"
    THEN UNCHANGED faults
    ELSE faults < MaxFaults /\ faults' = faults + 1

pollID == Len(polls)
Exists(i) == last_seen_at[i] # Null
OkPolls == {p \in DOMAIN polls : polls[p].status = "success"}
OkSince(t) == {p \in OkPolls : p >= t}

Event(type, at) == [type |-> type, at |-> at]
SetStatus(p, s) == polls' = [polls EXCEPT ![p].status = s]

\* Apply returns: its local variables are gone.
Return ==
  /\ pc' = "idle"
  /\ snapshot' = NoSnapshot
  /\ todo' = {}
  /\ cleared' = {}

-----------------------------------------------------------------------------
Init ==
  /\ polls = <<>>
  /\ content = [i \in Incident |-> Absent]
  /\ last_seen_at = [i \in Incident |-> Null]
  /\ missing_since = [i \in Incident |-> Null]
  /\ cleared_at = [i \in Incident |-> Null]
  /\ reopen_count = [i \in Incident |-> 0]
  /\ events = [i \in Incident |-> <<>>]
  /\ pc = "idle"
  /\ snapshot = NoSnapshot
  /\ todo = {}
  /\ cleared = {}
  /\ faults = 0

\* A failed or degraded poll: the audit row and nothing else.
RecordPoll ==
  /\ pc = "idle"
  /\ pollID < MaxPolls
  /\ polls' = Append(polls, [status |-> "failed", seen |-> {}])
  /\ UNCHANGED <<row, events, pc, snapshot, todo, cleared, faults>>

\* An authoritative poll: its row is inserted with success = FALSE.  When
\* the reply is lost the row stays behind and Apply returns the error.
RecordPollPending(s, reply) ==
  /\ pc = "idle"
  /\ pollID < MaxPolls
  /\ Committed(reply)
  /\ Reports(reply)
  /\ polls' = Append(polls, [status |-> "pending", seen |-> Observed(s)])
  /\ IF reply = "ok"
       THEN /\ pc' = "upsert"
            /\ snapshot' = s
            /\ todo' = Observed(s)
            /\ UNCHANGED cleared
       ELSE UNCHANGED <<pc, snapshot, todo, cleared>>
  /\ UNCHANGED <<row, events>>

\* The insert fails: Apply returns its error and the poll leaves no trace.
RecordPollRefused ==
  /\ pc = "idle"
  /\ Reports("refused")
  /\ UNCHANGED <<polls, row, events, pc, snapshot, todo, cleared>>

\* writeUpsertEvent: what the prior row says decides the event, if any.
UpsertEventType(i) ==
  CASE ~Exists(i) -> "created"
    [] Exists(i) /\ cleared_at[i] # Null -> "reopened"
    [] Exists(i) /\ cleared_at[i] = Null -> "updated"

\* Mutated: a row that comes back as it was is taken for one that stayed.
SameAsPriorWhenCleared(i) == Exists(i) /\ content[i] = snapshot[i]

SameAsPrior(i) ==
  Exists(i) /\ cleared_at[i] = Null /\ content[i] = snapshot[i]

UpsertLog(i) ==
  IF SameAsPrior(i)
    THEN events[i]
    ELSE Append(events[i], Event(UpsertEventType(i), pollID))

\* Mutated: an observation does not end the absence.
UpsertRowStillMissing(i) ==
  /\ content' = [content EXCEPT ![i] = snapshot[i]]
  /\ last_seen_at' = [last_seen_at EXCEPT ![i] = pollID]
  /\ UNCHANGED missing_since
  /\ cleared_at' = [cleared_at EXCEPT ![i] = Null]
  /\ reopen_count' =
       [reopen_count EXCEPT ![i] = IF cleared_at[i] # Null THEN @ + 1 ELSE @]
  /\ events' = [events EXCEPT ![i] = UpsertLog(i)]

\* Mutated: every absence that ends counts as a reopening.
UpsertRowReopensMissing(i) ==
  /\ content' = [content EXCEPT ![i] = snapshot[i]]
  /\ last_seen_at' = [last_seen_at EXCEPT ![i] = pollID]
  /\ missing_since' = [missing_since EXCEPT ![i] = Null]
  /\ cleared_at' = [cleared_at EXCEPT ![i] = Null]
  /\ reopen_count' =
       [reopen_count EXCEPT ![i] = IF missing_since[i] # Null THEN @ + 1 ELSE @]
  /\ events' = [events EXCEPT ![i] = UpsertLog(i)]

\* One transaction: the row, its reopen count and its event.
UpsertRow(i) ==
  /\ content' = [content EXCEPT ![i] = snapshot[i]]
  /\ last_seen_at' = [last_seen_at EXCEPT ![i] = pollID]
  /\ missing_since' = [missing_since EXCEPT ![i] = Null]
  /\ cleared_at' = [cleared_at EXCEPT ![i] = Null]
  /\ reopen_count' =
       [reopen_count EXCEPT ![i] = IF cleared_at[i] # Null THEN @ + 1 ELSE @]
  /\ events' = [events EXCEPT ![i] = UpsertLog(i)]

\* Mutated: a failed upsert is logged and the apply goes on.
UpsertIncidentIgnoresError(i, reply) ==
  /\ pc = "upsert"
  /\ i \in todo
  /\ Reports(reply)
  /\ IF Committed(reply) THEN UpsertRow(i) ELSE UNCHANGED <<row, events>>
  /\ todo' = todo \ {i}
  /\ UNCHANGED <<polls, pc, snapshot, cleared>>

UpsertIncident(i, reply) ==
  /\ pc = "upsert"
  /\ i \in todo
  /\ Reports(reply)
  /\ IF Committed(reply) THEN UpsertRow(i) ELSE UNCHANGED <<row, events>>
  /\ todo' = todo \ {i}
  /\ pc' = IF reply = "ok" THEN "upsert" ELSE "fail"
  /\ UNCHANGED <<polls, snapshot, cleared>>

\* Rows of the source that this poll did not observe, not yet cleared.
Unobserved ==
  {i \in Incident : Exists(i) /\ cleared_at[i] = Null /\ snapshot[i] = Absent}

MarkMissing(reply) ==
  /\ pc = "upsert"
  /\ todo = {}
  /\ Reports(reply)
  /\ IF Committed(reply)
       THEN missing_since' =
              [i \in Incident |->
                 IF i \in Unobserved /\ missing_since[i] = Null
                   THEN pollID ELSE missing_since[i]]
       ELSE UNCHANGED missing_since
  /\ pc' = IF reply = "ok" THEN "sweep" ELSE "fail"
  /\ UNCHANGED <<polls, content, last_seen_at, cleared_at, reopen_count,
                 events, snapshot, todo, cleared>>

\* Mutated: rows with any number of misses above, or below, the threshold.
RipeTooLate ==
  {i \in Incident :
     /\ Exists(i)
     /\ cleared_at[i] = Null
     /\ missing_since[i] # Null
     /\ Cardinality(OkSince(missing_since[i])) > ClearAfterMisses}

RipeTooSoon ==
  {i \in Incident :
     /\ Exists(i)
     /\ cleared_at[i] = Null
     /\ missing_since[i] # Null
     /\ Cardinality(OkSince(missing_since[i])) >= ClearAfterMisses - 1}

\* Mutated: polls that failed or are still pending count as misses.
RipeCountsEveryPoll ==
  {i \in Incident :
     /\ Exists(i)
     /\ cleared_at[i] = Null
     /\ missing_since[i] # Null
     /\ Cardinality({p \in DOMAIN polls : p >= missing_since[i]}) >= ClearAfterMisses}

\* miss_counts counts the polls already marked successful: the poll being
\* applied is still pending and does not count.
Ripe ==
  {i \in Incident :
     /\ Exists(i)
     /\ cleared_at[i] = Null
     /\ missing_since[i] # Null
     /\ Cardinality(OkSince(missing_since[i])) >= ClearAfterMisses}

SweepCleared(reply) ==
  /\ pc = "sweep"
  /\ Reports(reply)
  /\ IF Committed(reply)
       THEN cleared_at' =
              [i \in Incident |->
                 IF i \in Ripe THEN missing_since[i] ELSE cleared_at[i]]
       ELSE UNCHANGED cleared_at
  /\ cleared' = IF reply = "ok" THEN Ripe ELSE {}
  /\ pc' = IF reply # "ok" THEN "fail"
           ELSE IF Ripe # {} THEN "events" ELSE "succeed"
  /\ UNCHANGED <<polls, content, last_seen_at, missing_since, reopen_count,
                 events, snapshot, todo>>

\* Mutated: the error is logged and the poll is published all the same.
RecordClearedEventsIgnoresError(reply) ==
  /\ pc = "events"
  /\ Reports(reply)
  /\ IF Committed(reply)
       THEN events' =
              [i \in Incident |->
                 IF i \in cleared
                   THEN Append(events[i], Event("cleared", cleared_at[i]))
                   ELSE events[i]]
       ELSE UNCHANGED events
  /\ pc' = "succeed"
  /\ UNCHANGED <<polls, row, snapshot, todo, cleared>>

\* One transaction for all of them; occurred_at is the cleared_at returned.
RecordClearedEvents(reply) ==
  /\ pc = "events"
  /\ Reports(reply)
  /\ IF Committed(reply)
       THEN events' =
              [i \in Incident |->
                 IF i \in cleared
                   THEN Append(events[i], Event("cleared", cleared_at[i]))
                   ELSE events[i]]
       ELSE UNCHANGED events
  /\ pc' = IF reply = "ok" THEN "succeed" ELSE "fail"
  /\ UNCHANGED <<polls, row, snapshot, todo, cleared>>

\* An error here is returned as it is: the poll is not marked failed.
MarkPollSucceeded(reply) ==
  /\ pc = "succeed"
  /\ Reports(reply)
  /\ IF Committed(reply)
       THEN SetStatus(pollID, "success") ELSE UNCHANGED polls
  /\ Return
  /\ UNCHANGED <<row, events>>

\* failPollApply: one attempt, and Apply returns whatever it answers.
MarkPollFailed(reply) ==
  /\ pc = "fail"
  /\ Reports(reply)
  /\ IF Committed(reply)
       THEN SetStatus(pollID, "failed") ELSE UNCHANGED polls
  /\ Return
  /\ UNCHANGED <<row, events>>

\* The process dies, or its context is cancelled and every call it still
\* makes fails; the next poll is applied by the restarted process.
Crash ==
  /\ pc # "idle"
  /\ faults < MaxFaults
  /\ faults' = faults + 1
  /\ Return
  /\ UNCHANGED <<polls, row, events>>

Next ==
  \/ RecordPoll
  \/ \E s \in Snapshot, reply \in Reply : RecordPollPending(s, reply)
  \/ RecordPollRefused
  \/ \E i \in Incident, reply \in Reply : UpsertIncident(i, reply)
  \/ \E reply \in Reply : MarkMissing(reply)
  \/ \E reply \in Reply : SweepCleared(reply)
  \/ \E reply \in Reply : RecordClearedEvents(reply)
  \/ \E reply \in Reply : MarkPollSucceeded(reply)
  \/ \E reply \in Reply : MarkPollFailed(reply)
  \/ Crash

Spec == Init /\ [][Next]_vars

-----------------------------------------------------------------------------
PollRow == [status : Status, seen : SUBSET Incident]
EventRow ==
  [type : {"created", "updated", "cleared", "reopened"}, at : Nat]

TypeOK ==
  /\ polls \in Seq(PollRow)
  /\ content \in Snapshot
  /\ last_seen_at \in [Incident -> Nat]
  /\ missing_since \in [Incident -> Nat]
  /\ cleared_at \in [Incident -> Nat]
  /\ reopen_count \in [Incident -> Nat]
  /\ events \in [Incident -> Seq(EventRow)]
  /\ pc \in {"idle", "upsert", "sweep", "events", "succeed", "fail"}
  /\ snapshot \in Snapshot
  /\ todo \in SUBSET Incident
  /\ cleared \in SUBSET Incident
  /\ faults \in Nat
=============================================================================
