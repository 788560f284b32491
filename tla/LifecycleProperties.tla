------------------------ MODULE LifecycleProperties ------------------------
(***************************************************************************)
(* What the lifecycle of an incident promises, stated over Lifecycle, and  *)
(* the inductive strengthening LifecycleProofs uses.                       *)
(***************************************************************************)
EXTENDS Lifecycle

LastOf(s) == s[Len(s)]

(***************************************************************************)
(* "Absent from N consecutive successful polls" (docs/architecture.md,     *)
(* section 5): a cleared row has at least ClearAfterMisses successful      *)
(* polls from its cleared_at on, and no successful poll from then on       *)
(* carried the incident.  Outages, degraded snapshots, half-applied polls  *)
(* and lost replies in between never help to clear an incident.            *)
(***************************************************************************)
ClearedAfterMisses ==
  \A i \in Incident : cleared_at[i] # Null =>
    /\ Cardinality(OkSince(cleared_at[i])) >= ClearAfterMisses
    /\ \A p \in OkSince(cleared_at[i]) : i \notin polls[p].seen

(***************************************************************************)
(* The other direction: an incident gone from the feed stays active for at *)
(* most ClearAfterMisses successful polls, whatever failed in between.     *)
(* The bound is the code's: the apply of one more poll clears it, since    *)
(* SweepCleared counts before MarkPollSucceeded (lifecycle.go 74, 88).     *)
(* The documents and a test of the repository say one poll earlier, see    *)
(* ClearedAtThreshold.                                                     *)
(***************************************************************************)
ClearedInTime ==
  \A i \in Incident : Exists(i) /\ cleared_at[i] = Null =>
    Cardinality(OkSince(last_seen_at[i] + 1)) <= ClearAfterMisses

(***************************************************************************)
(* A poll whose success is published is applied in full: the rows it       *)
(* observed were seen no earlier than it, and every older row it did not   *)
(* observe has been missing since it or longer.  API clients read          *)
(* source_last_success_at as "the list is at least this fresh".            *)
(***************************************************************************)
PublishedPollApplied ==
  \A p \in OkPolls, i \in Incident :
    /\ i \in polls[p].seen => last_seen_at[i] >= p
    /\ Exists(i) /\ last_seen_at[i] < p =>
         missing_since[i] # Null /\ missing_since[i] <= p

(***************************************************************************)
(* The timeline endpoint sorts an incident's events by occurred_at; a      *)
(* cleared event is back-dated to missing_since.  The sorted order is      *)
(* nevertheless the order in which the events were written.                *)
(***************************************************************************)
TimelineOrdered ==
  \A i \in Incident : \A m, n \in DOMAIN events[i] :
    m < n => events[i][m].at < events[i][n].at

(***************************************************************************)
(* The timeline never contradicts the row: it starts with the only         *)
(* created event, holds as many reopened events as the row counts, and     *)
(* ends in a cleared event only when the row is cleared at that time.      *)
(***************************************************************************)
TimelineMatchesRow ==
  \A i \in Incident :
    /\ Exists(i) <=> events[i] # <<>>
    /\ \A n \in DOMAIN events[i] : events[i][n].type = "created" <=> n = 1
    /\ Cardinality({n \in DOMAIN events[i] : events[i][n].type = "reopened"})
         = reopen_count[i]
    /\ events[i] # <<>> /\ LastOf(events[i]).type = "cleared" =>
         cleared_at[i] = LastOf(events[i]).at

(***************************************************************************)
(* A settled poll never changes its outcome: the miss counts and the       *)
(* source status read source_polls as a log.                               *)
(***************************************************************************)
SettledPollsStay ==
  [][\A p \in DOMAIN polls :
       polls[p].status # "pending" => polls'[p] = polls[p]]_vars

(***************************************************************************)
(* Publishing a poll's success means that what it cleared is in the event  *)
(* log: the event of a clear can only be lost with the poll.               *)
(***************************************************************************)
PublishedClearsAreLogged ==
  [][pc = "succeed" /\ polls' # polls =>
       \A i \in cleared :
         events[i] # <<>> /\ LastOf(events[i]) = Event("cleared", cleared_at[i])
    ]_vars

-----------------------------------------------------------------------------
(***************************************************************************)
(* What the documentation says and the code does not do.                   *)
(***************************************************************************)

\* docs/architecture.md: "set cleared_at = missing_since and emit a cleared
\* event".  SweepCleared and RecordClearedEvents are two transactions, and a
\* cleared row is never swept again.
ClearsAreLogged ==
  pc = "idle" =>
    \A i \in Incident : cleared_at[i] # Null =>
      events[i] # <<>> /\ LastOf(events[i]).type = "cleared"

\* lifecycle_integration_test.go:138-149 applies five authoritative polls without
\* an incident and fails if it "remained active after five authoritative recovery
\* misses"; docs/architecture.md:75: "After 5 consecutive successful misses, set
\* cleared_at".  The poll in flight is not counted, so the sixth clears.
ClearedAtThreshold ==
  pc = "idle" =>
    \A i \in Incident : Exists(i) /\ cleared_at[i] = Null =>
      Cardinality(OkSince(last_seen_at[i] + 1)) < ClearAfterMisses

-----------------------------------------------------------------------------
(***************************************************************************)
(* The inductive invariant.  The parts are the facts Apply relies on from  *)
(* one store call to the next.                                             *)
(***************************************************************************)

\* The poll being applied is the last row and still pending.
InFlight ==
  /\ pc # "idle" =>
       /\ pollID > 0
       /\ polls[pollID].status = "pending"
       /\ polls[pollID].seen = Observed(snapshot)
  /\ todo \subseteq Observed(snapshot)
  /\ pc \in {"sweep", "events", "succeed"} => todo = {}

\* Last sight, then absence, then clearing, all of polls that were recorded.
RowOrder ==
  \A i \in Incident :
    /\ last_seen_at[i] <= pollID
    /\ missing_since[i] # Null =>
         Exists(i) /\ last_seen_at[i] < missing_since[i] /\ missing_since[i] <= pollID
    /\ cleared_at[i] # Null => cleared_at[i] = missing_since[i]

\* How far the poll in flight has been applied.
Upserted ==
  pc \in {"upsert", "sweep", "events", "succeed"} =>
    \A i \in Observed(snapshot) \ todo : last_seen_at[i] = pollID

NotYetMarked ==
  pc = "upsert" =>
    \A i \in Incident :
      /\ missing_since[i] < pollID
      /\ last_seen_at[i] = pollID => i \in Observed(snapshot) \ todo

Marked ==
  pc \in {"sweep", "events", "succeed"} =>
    \A i \in Incident :
      Exists(i) /\ snapshot[i] = Absent => missing_since[i] # Null

Swept ==
  pc \in {"events", "succeed"} =>
    /\ \A i \in cleared : cleared_at[i] # Null
    /\ \A i \in Incident : Exists(i) /\ cleared_at[i] = Null =>
         Cardinality(OkSince(last_seen_at[i] + 1)) < ClearAfterMisses

ClearedCount ==
  \A i \in Incident : cleared_at[i] # Null =>
    Cardinality(OkSince(cleared_at[i])) >= ClearAfterMisses

\* The cleared event of a row still owed by RecordClearedEvents.
Owed(i) == pc = "events" /\ i \in cleared

EventsBound ==
  \A i \in Incident : \A n \in DOMAIN events[i] :
    events[i][n].at <=
      IF cleared_at[i] # Null /\ ~Owed(i) THEN cleared_at[i] ELSE last_seen_at[i]

Base == TypeOK /\ InFlight
Rows == RowOrder /\ Upserted /\ NotYetMarked /\ Marked /\ PublishedPollApplied
Counts == Swept /\ ClearedCount /\ ClearedInTime
Timeline == EventsBound /\ TimelineOrdered

(***************************************************************************)
(* The inductive invariant: types and the poll in flight, the rows behind  *)
(* the program counter, the miss counts, and the event log.                *)
(***************************************************************************)
IInv == Base /\ Rows /\ Counts /\ Timeline
=============================================================================
