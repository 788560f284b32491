----------------------------- MODULE ActiveFeed -----------------------------
(***************************************************************************)
(* The public reads of the incidents: GET /v1/incidents/active and the     *)
(* detail of one incident, each a series of statements without a common    *)
(* snapshot, beside the ingester that applies polls (Lifecycle).           *)
(*                                                                         *)
(* The unit history of a detail is a statement between row and events that *)
(* reads nothing of this state (see UnitHistory).  How old the last        *)
(* success is, is the clock's choice (see SourceStatus): status ok is      *)
(* possible whenever its other conditions hold.                            *)
(*                                                                         *)
(* The active list holds the incidents of both sources.  Rows of sdr_audio *)
(* come and go as DispatchWorker has it, which reads nothing of this state *)
(* but its clock: a list may meet any of them.  The detail is that of an   *)
(* incident of the polled source; sdr_audio writes no events.              *)
(***************************************************************************)
EXTENDS LifecycleProperties

CONSTANTS
  Wanted,      \* contents with a geometry that the request's filter admits
  SdrIncident  \* incidents promoted from transcripts

ASSUME WantedAssumption == Wanted \subseteq Content
ASSUME SdrAssumption == SdrIncident \intersect Incident = {}

VARIABLES
  notes,   \* the classification in the notes of each row of source_polls
  rpc,     \* the statement the handler runs next, "idle" between requests
  meta,    \* what sourcePollMeta returned
  found,   \* the row getIncident returned
  answer   \* what the last step answered, if it did

reader == <<rpc, meta, found, answer>>
feedVars == <<vars, notes, reader>>

Classification == {"authoritative_success", "degraded_snapshot", "failure"}
NoMeta == [success |-> Null, classification |-> "", failures |-> 0]
NoRow == [incident |-> Absent, seen |-> Null, cleared |-> Null, reopened |-> 0]
NoAnswer == [kind |-> "none"]

Latest(S) == CHOOSE p \in S \union {Null} : \A q \in S : q <= p

-----------------------------------------------------------------------------
FeedInit ==
  /\ Init
  /\ notes = <<>>
  /\ rpc = "idle"
  /\ meta = NoMeta
  /\ found = NoRow
  /\ answer = NoAnswer

\* The ingester's next store call.  RecordPoll notes what became of the
\* snapshot, RecordPollPending that it is authoritative.
ApplyStep ==
  /\ Next
  /\ \/ pollID' = pollID /\ UNCHANGED notes
     \/ /\ pollID' = pollID + 1
        /\ \E c \in Classification :
             /\ c = "authoritative_success" <=> LastOf(polls').status = "pending"
             /\ notes' = Append(notes, c)
  /\ answer' = NoAnswer
  /\ UNCHANGED <<rpc, meta, found>>

-----------------------------------------------------------------------------
\* error IS DISTINCT FROM 'poll apply pending'.
Attempts == {p \in DOMAIN polls : polls[p].status # "pending"}

LastSuccess == Latest(OkPolls)

ConsecutiveFailures ==
  LET other == Latest({p \in Attempts : notes[p] # "failure"}) IN
  Cardinality({p \in Attempts :
    p > other /\ polls[p].status = "failed" /\ notes[p] = "failure"})

SourcePollMeta ==
  [success |-> LastSuccess,
   classification |-> IF Attempts = {} THEN "" ELSE notes[Latest(Attempts)],
   failures |-> ConsecutiveFailures]

\* classifySourceStatus, the ages decided by fresh.
StatusOK(fresh) ==
  /\ meta.success # Null
  /\ meta.classification = "authoritative_success"
  /\ meta.failures = 0
  /\ fresh

\* Mutated: while the source is ok everything on the list is confirmed.
ConfirmedWheneverOK(seen, fresh) == StatusOK(fresh)

\* The negation of incidentIsLastKnown.  Rows of either source are compared
\* with the last success of the polled one.
Confirmed(seen, fresh) == StatusOK(fresh) /\ seen >= meta.success

\* The view active_incidents.
Active(i) == Exists(i) /\ cleared_at[i] = Null

\* Mutated: an incident counts as gone from its first miss on.
ListedWithoutMissing ==
  {i \in Incident : Active(i) /\ missing_since[i] = Null /\ content[i] \in Wanted}

Listed == {i \in Incident : Active(i) /\ content[i] \in Wanted}

\* The active rows of sdr_audio that the filter admits, with their
\* last_seen_at: the time of the promotion, as the last poll started by then.
\* A promotion may commit late, and a poll starts before its row is written.
SdrRows == UNION {[D -> 0..(pollID + 1)] : D \in SUBSET SdrIncident}

\* Mutated: the row of the last detail is kept for the next request.
RespondKeepingRow(a) ==
  /\ answer' = a
  /\ rpc' = "idle"
  /\ meta' = NoMeta
  /\ UNCHANGED found

Respond(a) ==
  /\ answer' = a
  /\ rpc' = "idle"
  /\ meta' = NoMeta
  /\ found' = NoRow

-----------------------------------------------------------------------------
\* A request arrives, and its first statement reads the poll log.
ReadMeta(statement) ==
  /\ rpc = "idle"
  /\ rpc' = statement
  /\ meta' = SourcePollMeta
  /\ answer' = NoAnswer
  /\ UNCHANGED <<vars, notes, found>>

\* writeActiveIncidents.
ListAnswer(sdr, fresh) ==
  [kind |-> "list", asOf |-> meta.success, ok |-> StatusOK(fresh),
   listed |-> Listed, promoted |-> sdr,
   confirmed |-> {i \in Listed : Confirmed(last_seen_at[i], fresh)}
                   \union {d \in DOMAIN sdr : Confirmed(sdr[d], fresh)}]

\* ListActiveIncidents, its second statement.
ListIncidents(sdr, fresh) ==
  /\ rpc = "list"
  /\ Respond(ListAnswer(sdr, fresh))
  /\ UNCHANGED <<vars, notes>>

\* GetIncidentDetail: getIncident, 404 when there is no row.
GetIncident(i) ==
  /\ rpc = "incident"
  /\ IF Exists(i)
       THEN /\ rpc' = "events"
            /\ found' = [incident |-> i, seen |-> last_seen_at[i],
                         cleared |-> cleared_at[i], reopened |-> reopen_count[i]]
            /\ answer' = NoAnswer
            /\ UNCHANGED meta
       ELSE Respond([kind |-> "not_found", asOf |-> meta.success, incident |-> i])
  /\ UNCHANGED <<vars, notes>>

\* incidentDetailHandler.
DetailAnswer(timeline, fresh) ==
  [kind |-> "detail", asOf |-> meta.success, row |-> found, events |-> timeline,
   confirmed |-> Confirmed(found.seen, fresh)]

GetIncidentEvents(fresh) ==
  /\ rpc = "events"
  /\ Respond(DetailAnswer(events[found.incident], fresh))
  /\ UNCHANGED <<vars, notes>>

\* A statement fails, or the client is gone: nothing is answered.
ReadFails ==
  /\ rpc # "idle"
  /\ Respond(NoAnswer)
  /\ UNCHANGED <<vars, notes>>

FeedNext ==
  \/ ApplyStep
  \/ \E statement \in {"list", "incident"} : ReadMeta(statement)
  \/ \E sdr \in SdrRows, fresh \in BOOLEAN : ListIncidents(sdr, fresh)
  \/ \E i \in Incident : GetIncident(i)
  \/ \E fresh \in BOOLEAN : GetIncidentEvents(fresh)
  \/ ReadFails

FeedSpec == FeedInit /\ [][FeedNext]_feedVars

-----------------------------------------------------------------------------
Meta ==
  [success : Nat, classification : Classification \union {""}, failures : Nat]
FoundRow ==
  [incident : Incident, seen : Nat \ {Null}, cleared : Nat, reopened : Nat]

FeedTypeOK ==
  /\ TypeOK
  /\ notes \in Seq(Classification)
  /\ Len(notes) = pollID
  /\ rpc \in {"idle", "list", "incident", "events"}
  /\ meta \in Meta
  /\ found \in FoundRow \union {NoRow}
  /\ rpc = "events" <=> found # NoRow

(***************************************************************************)
(* The feed is complete as of the success it names: an incident of that    *)
(* poll is left out only when it no longer passes the filter, or when so   *)
(* many polls have succeeded since that it was cleared in between.  Meta   *)
(* and rows are two statements (store.go 319-386), and an apply may end,   *)
(* begin or fail between them.                                             *)
(***************************************************************************)
ListedUnlessOutlived ==
  answer.kind = "list" /\ answer.asOf # Null =>
    \A i \in polls[answer.asOf].seen \ answer.listed :
      \/ content[i] \notin Wanted
      \/ Cardinality(OkSince(answer.asOf + 1)) >= ClearAfterMisses

(***************************************************************************)
(* What is_last_known tells of each row of the list, the source reported   *)
(* ok (incidentIsLastKnown, source_status.go 118-123).  Every incident the *)
(* named success carried is confirmed, and none without a cause: that      *)
(* success, a poll after it, or, for a row of sdr_audio, which no poll     *)
(* carries, a promotion since that success began.  So the next success     *)
(* turns such a row into a last-known one, although it is active.  With    *)
(* any other status nothing is confirmed.                                  *)
(***************************************************************************)
ConfirmedForCause ==
  answer.kind = "list" =>
    /\ ~answer.ok => answer.confirmed = {}
    /\ answer.ok => \A i \in answer.listed \union DOMAIN answer.promoted :
         LET carried == i \in polls[answer.asOf].seen
             since == \E p \in DOMAIN polls : p > answer.asOf /\ i \in polls[p].seen
             promoted == i \in DOMAIN answer.promoted
                           /\ answer.promoted[i] >= answer.asOf
         IN /\ carried => i \in answer.confirmed
            /\ i \in answer.confirmed => carried \/ since \/ promoted

(***************************************************************************)
(* A 404 is never given for an incident that a published poll carried: no  *)
(* client that saw it on the feed finds its page gone (detail.go 25-28).   *)
(***************************************************************************)
NotFoundWasNeverPublished ==
  answer.kind = "not_found" =>
    \A p \in OkPolls : answer.incident \notin polls[p].seen

(***************************************************************************)
(* The events of a detail are never older than its row: they begin with    *)
(* the created event and hold every reopening the row counts, although an  *)
(* upsert may change both between the two statements (store.go 689-708).   *)
(***************************************************************************)
DetailEventsCoverRow ==
  answer.kind = "detail" =>
    /\ answer.events # <<>>
    /\ answer.events[1].type = "created"
    /\ Cardinality({n \in DOMAIN answer.events : answer.events[n].type = "reopened"})
         >= answer.row.reopened
=============================================================================
