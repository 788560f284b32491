-------------------------- MODULE LifecycleProofs --------------------------
(***************************************************************************)
(* Proofs about Lifecycle for every set of incidents, every threshold and  *)
(* any number of polls and faults, and that it implements                  *)
(* IncidentLifecycle.                                                      *)
(***************************************************************************)
EXTENDS LifecycleRefinement, SequenceTheorems, FiniteSetTheorems, TLAPS

-----------------------------------------------------------------------------
(***************************************************************************)
(* Appending to a log keeps what was there and adds one entry at the end.  *)
(***************************************************************************)
LEMMA AppendFacts ==
  ASSUME NEW S, NEW s \in Seq(S), NEW e \in S
  PROVE  /\ Append(s, e) \in Seq(S)
         /\ Len(s) \in Nat
         /\ Len(Append(s, e)) = Len(s) + 1
         /\ DOMAIN Append(s, e) = 1 .. (Len(s) + 1)
         /\ DOMAIN s = 1 .. Len(s)
         /\ \A j \in 1 .. Len(s) : Append(s, e)[j] = s[j]
         /\ Append(s, e)[Len(s) + 1] = e
<1>1. Append(s, e) \in Seq(S) /\ Len(s) \in Nat /\ Len(Append(s, e)) = Len(s) + 1
  OBVIOUS
<1>2. DOMAIN Append(s, e) = 1 .. (Len(s) + 1) /\ DOMAIN s = 1 .. Len(s)
  BY <1>1, LenProperties
<1>3. QED
  BY <1>1, <1>2

(***************************************************************************)
(* Setting the outcome of a poll rewrites that row and no other.           *)
(***************************************************************************)
LEMMA SetStatusFacts ==
  ASSUME polls \in Seq(PollRow), NEW p \in 1 .. Len(polls), NEW s \in Status,
         SetStatus(p, s)
  PROVE  /\ polls' \in Seq(PollRow)
         /\ Len(polls') = Len(polls)
         /\ DOMAIN polls' = 1 .. Len(polls)
         /\ \A q \in 1 .. Len(polls) : q # p => polls'[q] = polls[q]
         /\ polls'[p].status = s
         /\ polls'[p].seen = polls[p].seen
<1> DEFINE r == [status |-> s, seen |-> polls[p].seen]
<1>1. polls[p] \in PollRow
  BY ElementOfSeq
<1>2. r \in PollRow
  BY <1>1 DEF PollRow
<1>3. [polls[p] EXCEPT !.status = s] = r
  BY <1>1 DEF PollRow
<1>4. polls' = [polls EXCEPT ![p] = r]
  BY <1>3 DEF SetStatus
<1> HIDE DEF r
<1>5. /\ polls' \in Seq(PollRow)
      /\ Len(polls') = Len(polls)
      /\ \A j \in 1 .. Len(polls) : polls'[j] = IF j = p THEN r ELSE polls[j]
  BY <1>2, <1>4, ExceptSeq
<1>6. DOMAIN polls' = 1 .. Len(polls)
  BY <1>5, LenProperties
<1>7. r.status = s /\ r.seen = polls[p].seen
  BY DEF r
<1>8. QED
  BY <1>5, <1>6, <1>7

-----------------------------------------------------------------------------
(***************************************************************************)
(* Every column, poll row, event and local variable of Apply keeps its     *)
(* type through every store call, completed or not, and the poll in flight *)
(* stays the last row of source_polls, pending, until Apply returns.       *)
(***************************************************************************)
LEMMA BaseInit == Init => Base
BY DEF Init, Base, TypeOK, InFlight, Snapshot, NoSnapshot, Null, Observed

\* Every store call keeps the types and the poll in flight: it is the last
\* row and pending until its apply ends.
LEMMA BaseInductive == Base /\ [Next]_vars => Base'
<1> SUFFICES ASSUME Base, [Next]_vars PROVE Base'
  OBVIOUS
<1> USE DEF Base, InFlight, Null, row, Reports, pollID
<1>0. /\ Len(polls) \in Nat
      /\ pc # "idle" => Len(polls) \in 1 .. Len(polls)
  BY LenProperties DEF TypeOK
<1>1. CASE RecordPoll
  <2>1. [status |-> "failed", seen |-> {}] \in PollRow
    BY DEF PollRow, Status
  <2>2. QED
    BY <1>1, <2>1, AppendFacts DEF RecordPoll, TypeOK
<1>2. ASSUME NEW s \in Snapshot, NEW reply \in Reply, RecordPollPending(s, reply)
      PROVE Base'
  <2> DEFINE r == [status |-> "pending", seen |-> Observed(s)]
  <2>1. r \in PollRow
    BY DEF PollRow, Status, Observed
  <2>2. polls' = Append(polls, r)
    BY <1>2 DEF RecordPollPending
  <2>3. /\ polls' \in Seq(PollRow)
        /\ Len(polls') = Len(polls) + 1
        /\ polls'[Len(polls')] = r
    BY <2>1, <2>2, AppendFacts DEF TypeOK
  <2>4. Observed(s) \subseteq Incident
    BY DEF Observed
  <2>5. InFlight'
    BY <1>0, <1>2, <2>3 DEF RecordPollPending, TypeOK, Observed
  <2> HIDE DEF r
  <2>6. TypeOK'
    BY <1>2, <2>3, <2>4 DEF RecordPollPending, TypeOK
  <2>7. QED
    BY <2>5, <2>6
<1>3. ASSUME NEW i \in Incident, NEW reply \in Reply, UpsertIncident(i, reply)
      PROVE Base'
  <2>1. Event(UpsertEventType(i), pollID) \in EventRow
    BY <1>0 DEF UpsertEventType, Event, EventRow, TypeOK
  <2>2. UpsertLog(i) \in Seq(EventRow)
    BY <2>1, AppendFacts DEF UpsertLog, TypeOK
  <2>3. InFlight'
    BY <1>3 DEF UpsertIncident
  <2>4. CASE Committed(reply)
    <3>1. UpsertRow(i)
      BY <1>3, <2>4 DEF UpsertIncident
    <3>2. events' \in [Incident -> Seq(EventRow)]
      BY <2>2, <3>1 DEF UpsertRow, TypeOK
    <3>3. /\ content' \in Snapshot
          /\ last_seen_at' \in [Incident -> Nat]
          /\ missing_since' \in [Incident -> Nat]
          /\ cleared_at' \in [Incident -> Nat]
          /\ reopen_count' \in [Incident -> Nat]
      BY <1>0, <3>1 DEF UpsertRow, TypeOK, Snapshot
    <3>4. /\ UNCHANGED <<polls, snapshot, cleared>>
          /\ todo' \in SUBSET Incident
          /\ faults' \in Nat
          /\ pc' \in {"upsert", "fail"}
      BY <1>3 DEF UpsertIncident, TypeOK
    <3>5. QED
      BY <2>3, <3>2, <3>3, <3>4 DEF TypeOK
  <2>5. CASE ~Committed(reply)
    BY <1>3, <2>3, <2>5 DEF UpsertIncident, TypeOK
  <2>6. QED
    BY <2>4, <2>5
<1>4. ASSUME NEW reply \in Reply, MarkMissing(reply)
      PROVE Base'
  <2>1. missing_since' \in [Incident -> Nat]
    BY <1>0, <1>4 DEF MarkMissing, TypeOK
  <2>2. QED
    BY <1>4, <2>1 DEF MarkMissing, TypeOK
<1>5. ASSUME NEW reply \in Reply, SweepCleared(reply)
      PROVE Base'
  <2>1. Ripe \subseteq Incident
    BY DEF Ripe
  <2>2. cleared_at' \in [Incident -> Nat]
    BY <1>5 DEF SweepCleared, TypeOK
  <2>3. QED
    BY <1>5, <2>1, <2>2 DEF SweepCleared, TypeOK
<1>6. ASSUME NEW reply \in Reply, RecordClearedEvents(reply)
      PROVE Base'
  <2>1. ASSUME NEW i \in Incident
        PROVE Append(events[i], Event("cleared", cleared_at[i])) \in Seq(EventRow)
    <3>1. Event("cleared", cleared_at[i]) \in EventRow
      BY DEF Event, EventRow, TypeOK
    <3>2. QED
      BY <3>1, AppendFacts DEF TypeOK
  <2>2. events' \in [Incident -> Seq(EventRow)]
    <3>1. CASE Committed(reply)
      <4> DEFINE Logs == Seq(EventRow)
                 Logged(i) == Append(events[i], Event("cleared", cleared_at[i]))
      <4>1. events' = [i \in Incident |->
                         IF i \in cleared THEN Logged(i) ELSE events[i]]
        BY <1>6, <3>1 DEF RecordClearedEvents
      <4>2. \A i \in Incident : Logged(i) \in Logs
        BY <2>1
      <4>3. events \in [Incident -> Logs]
        BY DEF TypeOK
      <4> HIDE DEF Logs, Logged
      <4>4. events' \in [Incident -> Logs]
        BY <4>1, <4>2, <4>3
      <4>5. QED
        BY <4>4 DEF Logs
    <3>2. CASE ~Committed(reply)
      BY <1>6, <3>2 DEF RecordClearedEvents, TypeOK
    <3>3. QED
      BY <3>1, <3>2
  <2>3. QED
    BY <1>6, <2>2 DEF RecordClearedEvents, TypeOK
<1>7. ASSUME NEW reply \in Reply, MarkPollSucceeded(reply)
      PROVE Base'
  <2>1. polls' \in Seq(PollRow)
    BY <1>0, <1>7, SetStatusFacts DEF MarkPollSucceeded, TypeOK, Status
  <2>2. QED
    BY <1>7, <2>1 DEF MarkPollSucceeded, Return, TypeOK, NoSnapshot, Snapshot, Observed
<1>8. ASSUME NEW reply \in Reply, MarkPollFailed(reply)
      PROVE Base'
  <2>1. polls' \in Seq(PollRow)
    BY <1>0, <1>8, SetStatusFacts DEF MarkPollFailed, TypeOK, Status
  <2>2. QED
    BY <1>8, <2>1 DEF MarkPollFailed, Return, TypeOK, NoSnapshot, Snapshot, Observed
<1>9. CASE Crash
  BY <1>9 DEF Crash, Return, TypeOK, NoSnapshot, Snapshot, Observed
<1>10. CASE UNCHANGED vars
  BY <1>10 DEF vars, TypeOK, Observed
<1>12. CASE RecordPollRefused
  BY <1>12 DEF RecordPollRefused, Reports, Reply, row, TypeOK, Observed
<1>11. QED
  BY <1>1, <1>2, <1>3, <1>4, <1>5, <1>6, <1>7, <1>8, <1>9, <1>10, <1>12 DEF Next

\* Every variable keeps its type; the only statuses and event types written
\* are the schema's (recordPoll, MarkPollSucceeded, MarkPollFailed,
\* writeUpsertEvent).
THEOREM TypeCorrect == Spec => []TypeOK
<1>1. Base => TypeOK
  BY DEF Base
<1>2. QED
  BY BaseInit, BaseInductive, <1>1, PTL DEF Spec

-----------------------------------------------------------------------------
(***************************************************************************)
(* The four things a step can do to source_polls.                          *)
(***************************************************************************)
LEMMA PollsCases ==
  ASSUME Base, [Next]_vars
  PROVE  \/ UNCHANGED polls
         \/ /\ pc = "idle"
            /\ \E r \in PollRow :
                 r.status # "success" /\ polls' = Append(polls, r)
         \/ pc = "succeed" /\ SetStatus(pollID, "success")
         \/ pc = "fail" /\ SetStatus(pollID, "failed")
<1>1. CASE RecordPoll
  <2>1. [status |-> "failed", seen |-> {}] \in PollRow
    BY DEF PollRow, Status
  <2>2. QED
    BY <1>1, <2>1 DEF RecordPoll
<1>2. ASSUME NEW s \in Snapshot, NEW reply \in Reply, RecordPollPending(s, reply)
      PROVE  /\ pc = "idle"
             /\ \E r \in PollRow :
                  r.status # "success" /\ polls' = Append(polls, r)
  <2>1. [status |-> "pending", seen |-> Observed(s)] \in PollRow
    BY DEF PollRow, Status, Observed
  <2>2. QED
    BY <1>2, <2>1 DEF RecordPollPending
<1>3. ASSUME NEW reply \in Reply, MarkPollSucceeded(reply)
      PROVE  UNCHANGED polls \/ (pc = "succeed" /\ SetStatus(pollID, "success"))
  BY <1>3 DEF MarkPollSucceeded
<1>4. ASSUME NEW reply \in Reply, MarkPollFailed(reply)
      PROVE  UNCHANGED polls \/ (pc = "fail" /\ SetStatus(pollID, "failed"))
  BY <1>4 DEF MarkPollFailed
<1>5. QED
  BY <1>1, <1>2, <1>3, <1>4 DEF Next, vars, UpsertIncident, MarkMissing,
     SweepCleared, RecordClearedEvents, Crash, RecordPollRefused

(***************************************************************************)
(* Rows of source_polls are only added at the end, only a pending row      *)
(* changes, and the only poll that becomes successful is the one whose     *)
(* apply has come to MarkPollSucceeded.                                    *)
(***************************************************************************)
LEMMA PollsStep ==
  ASSUME Base, [Next]_vars
  PROVE  /\ Len(polls) \in Nat
         /\ Len(polls') \in Nat
         /\ Len(polls) <= Len(polls')
         /\ pc # "idle" => Len(polls') = Len(polls)
         /\ \A p \in 1 .. Len(polls) : polls'[p].seen = polls[p].seen
         /\ \A p \in 1 .. Len(polls) :
              polls[p].status # "pending" => polls'[p] = polls[p]
         /\ OkPolls \subseteq OkPolls'
         /\ OkPolls \subseteq 1 .. Len(polls)
         /\ OkPolls' \subseteq 1 .. Len(polls')
         /\ \A p \in OkPolls' : p \notin OkPolls => pc = "succeed" /\ p = Len(polls)
<1> USE DEF Base, pollID, OkPolls
<1>0. /\ Len(polls) \in Nat
      /\ DOMAIN polls = 1 .. Len(polls)
      /\ polls \in Seq(PollRow)
      /\ pc # "idle" => Len(polls) \in 1 .. Len(polls) /\ polls[Len(polls)].status = "pending"
  BY LenProperties DEF TypeOK, InFlight
<1>1. CASE UNCHANGED polls
  BY <1>0, <1>1
<1>2. ASSUME NEW r \in PollRow, r.status # "success", polls' = Append(polls, r),
             pc = "idle"
      PROVE  /\ Len(polls') = Len(polls) + 1
             /\ DOMAIN polls' = 1 .. (Len(polls) + 1)
             /\ \A p \in 1 .. Len(polls) : polls'[p] = polls[p]
             /\ polls'[Len(polls) + 1].status # "success"
  BY <1>0, <1>2, AppendFacts
<1>3. ASSUME NEW s \in Status, SetStatus(Len(polls), s), pc # "idle"
      PROVE  /\ Len(polls') = Len(polls)
             /\ DOMAIN polls' = 1 .. Len(polls)
             /\ \A p \in 1 .. Len(polls) : p # Len(polls) => polls'[p] = polls[p]
             /\ polls'[Len(polls)].seen = polls[Len(polls)].seen
             /\ polls'[Len(polls)].status = s
  BY <1>0, <1>3, SetStatusFacts
<1>4. CASE pc = "idle" /\ \E r \in PollRow :
             r.status # "success" /\ polls' = Append(polls, r)
  BY <1>0, <1>2, <1>4
<1>5. CASE pc = "succeed" /\ SetStatus(pollID, "success")
  <2>1. "success" \in Status /\ SetStatus(Len(polls), "success") /\ pc # "idle"
    BY <1>5 DEF Status
  <2>2. /\ Len(polls') = Len(polls)
        /\ DOMAIN polls' = 1 .. Len(polls)
        /\ \A p \in 1 .. Len(polls) : p # Len(polls) => polls'[p] = polls[p]
        /\ polls'[Len(polls)].seen = polls[Len(polls)].seen
        /\ polls'[Len(polls)].status = "success"
    BY <1>3, <2>1
  <2>3. \A p \in 1 .. Len(polls) :
          /\ polls'[p].seen = polls[p].seen
          /\ polls[p].status # "pending" => polls'[p] = polls[p]
          /\ polls'[p].status = "success" /\ polls[p].status # "success" =>
               pc = "succeed" /\ p = Len(polls)
    BY <1>0, <1>5, <2>2
  <2>4. OkPolls \subseteq OkPolls'
    BY <1>0, <2>2, <2>3
  <2>5. \A p \in OkPolls' : p \notin OkPolls => pc = "succeed" /\ p = Len(polls)
    BY <1>0, <2>2, <2>3
  <2>6. OkPolls \subseteq 1 .. Len(polls) /\ OkPolls' \subseteq 1 .. Len(polls')
    BY <1>0, <2>2
  <2> HIDE DEF OkPolls
  <2>7. /\ Len(polls') \in Nat
        /\ Len(polls) <= Len(polls')
        /\ pc # "idle" => Len(polls') = Len(polls)
    <3>1. Len(polls') = Len(polls) /\ Len(polls) \in Nat
      BY <1>0, <2>2
    <3>2. QED
      BY <3>1
  <2>8. \A p \in 1 .. Len(polls) : polls'[p].seen = polls[p].seen
    BY <2>3
  <2>9. \A p \in 1 .. Len(polls) : polls[p].status # "pending" => polls'[p] = polls[p]
    BY <2>3
  <2>10. QED
    BY <1>0, <2>4, <2>5, <2>6, <2>7, <2>8, <2>9
<1>6. CASE pc = "fail" /\ SetStatus(pollID, "failed")
  <2>1. "failed" \in Status /\ SetStatus(Len(polls), "failed") /\ pc # "idle"
    BY <1>6 DEF Status
  <2>2. /\ Len(polls') = Len(polls)
        /\ DOMAIN polls' = 1 .. Len(polls)
        /\ \A p \in 1 .. Len(polls) : p # Len(polls) => polls'[p] = polls[p]
        /\ polls'[Len(polls)].seen = polls[Len(polls)].seen
        /\ polls'[Len(polls)].status = "failed"
    BY <1>3, <2>1
  <2>3. \A p \in 1 .. Len(polls) :
          /\ polls'[p].seen = polls[p].seen
          /\ polls[p].status # "pending" => polls'[p] = polls[p]
          /\ polls'[p].status = "success" /\ polls[p].status # "success" =>
               pc = "succeed" /\ p = Len(polls)
    BY <1>0, <1>6, <2>2
  <2>4. OkPolls \subseteq OkPolls'
    BY <1>0, <2>2, <2>3
  <2>5. \A p \in OkPolls' : p \notin OkPolls => pc = "succeed" /\ p = Len(polls)
    BY <1>0, <2>2, <2>3
  <2>6. OkPolls \subseteq 1 .. Len(polls) /\ OkPolls' \subseteq 1 .. Len(polls')
    BY <1>0, <2>2
  <2> HIDE DEF OkPolls
  <2>7. /\ Len(polls') \in Nat
        /\ Len(polls) <= Len(polls')
        /\ pc # "idle" => Len(polls') = Len(polls)
    <3>1. Len(polls') = Len(polls) /\ Len(polls) \in Nat
      BY <1>0, <2>2
    <3>2. QED
      BY <3>1
  <2>8. \A p \in 1 .. Len(polls) : polls'[p].seen = polls[p].seen
    BY <2>3
  <2>9. \A p \in 1 .. Len(polls) : polls[p].status # "pending" => polls'[p] = polls[p]
    BY <2>3
  <2>10. QED
    BY <1>0, <2>4, <2>5, <2>6, <2>7, <2>8, <2>9
<1>7. QED
  BY <1>1, <1>4, <1>5, <1>6, PollsCases

(***************************************************************************)
(* A settled poll never changes its outcome.                               *)
(***************************************************************************)
THEOREM SettledPollsStayCorrect == Spec => SettledPollsStay
<1>1. Base /\ [Next]_vars =>
        [\A p \in DOMAIN polls :
           polls[p].status # "pending" => polls'[p] = polls[p]]_vars
  <2> SUFFICES ASSUME Base, [Next]_vars, NEW p \in DOMAIN polls,
                      polls[p].status # "pending"
               PROVE  polls'[p] = polls[p]
    OBVIOUS
  <2>1. p \in 1 .. Len(polls)
    BY LenProperties DEF Base, TypeOK
  <2>2. QED
    BY <2>1, PollsStep
<1>2. QED
  BY BaseInit, BaseInductive, <1>1, PTL DEF Spec, SettledPollsStay

-----------------------------------------------------------------------------
(***************************************************************************)
(* The rows of incidents follow the polls: Apply has upserted, marked and  *)
(* swept exactly as far as its program counter says, and what a published  *)
(* poll saw is in the rows.                                                *)
(***************************************************************************)
LEMMA RowsInit == Init => Rows
BY DEF Init, Rows, RowOrder, Upserted, NotYetMarked, Marked,
   PublishedPollApplied, OkPolls, Exists, Null, pollID

\* A step that writes no row and publishes no poll leaves old polls applied.
LEMMA PublishedStable ==
  ASSUME Base, [Next]_vars, PublishedPollApplied, pc # "succeed",
         UNCHANGED <<last_seen_at, missing_since>>
  PROVE  PublishedPollApplied'
<1>1. \A p \in OkPolls' : p \in OkPolls /\ polls'[p].seen = polls[p].seen
  BY PollsStep
<1>2. QED
  BY <1>1 DEF PublishedPollApplied, Exists, Null

\* Every store call keeps the rows in step with the program counter of
\* Apply.
LEMMA RowsInductive == Base /\ Rows /\ [Next]_vars => Rows'
<1> SUFFICES ASSUME Base, Rows, [Next]_vars PROVE Rows'
  OBVIOUS
<1> USE DEF Rows, Exists, Null, row, pollID
<1>0. /\ Len(polls) \in Nat
      /\ Len(polls') \in Nat
      /\ Len(polls) <= Len(polls')
      /\ pc # "idle" => Len(polls') = Len(polls) /\ Len(polls) > 0
      /\ OkPolls \subseteq 1 .. Len(polls)
      /\ last_seen_at \in [Incident -> Nat]
      /\ missing_since \in [Incident -> Nat]
      /\ cleared_at \in [Incident -> Nat]
  BY PollsStep DEF Base, TypeOK, InFlight
<1>1. CASE RecordPoll
  <2>1. PublishedPollApplied'
    BY <1>1, PublishedStable DEF RecordPoll
  <2>2. QED
    BY <1>0, <1>1, <2>1 DEF RecordPoll, RowOrder, Upserted, NotYetMarked, Marked
<1>2. ASSUME NEW s \in Snapshot, NEW reply \in Reply, RecordPollPending(s, reply)
      PROVE Rows'
  <2>1. PublishedPollApplied'
    BY <1>2, PublishedStable DEF RecordPollPending
  <2>2. Len(polls') = Len(polls) + 1
    <3>1. [status |-> "pending", seen |-> Observed(s)] \in PollRow
      BY DEF PollRow, Status, Observed
    <3>2. QED
      BY <1>2, <3>1, AppendFacts DEF RecordPollPending, Base, TypeOK
  <2>3. RowOrder'
    BY <1>0, <1>2, <2>2 DEF RecordPollPending, RowOrder
  <2>4. /\ pc = "idle"
        /\ UNCHANGED <<last_seen_at, missing_since>>
        /\ \/ pc' = "upsert" /\ snapshot' = s /\ todo' = Observed(s)
           \/ pc' = "idle"
    BY <1>2 DEF RecordPollPending
  <2>5. NotYetMarked'
    BY <1>0, <2>2, <2>4 DEF RowOrder, NotYetMarked, Observed
  <2>6. QED
    BY <2>1, <2>3, <2>4, <2>5 DEF Upserted, Marked
<1>3. ASSUME NEW i \in Incident, NEW reply \in Reply, UpsertIncident(i, reply)
      PROVE Rows'
  <2>1. /\ pc = "upsert" /\ i \in todo /\ todo' = todo \ {i}
        /\ UNCHANGED <<polls, snapshot>>
        /\ pc' \in {"upsert", "fail"}
        /\ pc' = "upsert" => Committed(reply)
    BY <1>3 DEF UpsertIncident, Committed
  <2>2. CASE UNCHANGED row /\ pc' = "fail"
    BY <1>0, <2>1, <2>2, PublishedStable DEF RowOrder, Upserted, NotYetMarked, Marked
  <2>3. CASE /\ last_seen_at' = [last_seen_at EXCEPT ![i] = Len(polls)]
             /\ missing_since' = [missing_since EXCEPT ![i] = 0]
             /\ cleared_at' = [cleared_at EXCEPT ![i] = 0]
    <3>1. RowOrder'
      BY <1>0, <2>1, <2>3 DEF RowOrder
    <3>2. Upserted' /\ NotYetMarked' /\ Marked'
      BY <1>0, <2>1, <2>3 DEF Upserted, NotYetMarked, Marked, Observed, Base, InFlight
    <3>3. OkPolls' = OkPolls
      BY <2>1 DEF OkPolls
    <3>4. PublishedPollApplied'
      <4> SUFFICES ASSUME NEW p \in OkPolls, NEW j \in Incident
                   PROVE  /\ j \in polls[p].seen => last_seen_at'[j] >= p
                          /\ last_seen_at'[j] # 0 /\ last_seen_at'[j] < p =>
                               missing_since'[j] # 0 /\ missing_since'[j] <= p
        BY <2>1, <3>3 DEF PublishedPollApplied
      <4>1. CASE j = i
        BY <1>0, <2>3, <4>1
      <4>2. CASE j # i
        BY <1>0, <2>3, <4>2 DEF PublishedPollApplied
      <4>3. QED
        BY <4>1, <4>2
    <3>5. QED
      BY <3>1, <3>2, <3>4
  <2>4. QED
    BY <1>3, <2>1, <2>2, <2>3 DEF UpsertIncident, UpsertRow
<1>4. ASSUME NEW reply \in Reply, MarkMissing(reply)
      PROVE Rows'
  <2>1. /\ pc = "upsert" /\ todo = {} /\ todo' = {}
        /\ UNCHANGED <<polls, snapshot, last_seen_at, cleared_at>>
        /\ pc' \in {"sweep", "fail"}
        /\ pc' = "sweep" => Committed(reply)
    BY <1>4 DEF MarkMissing, Committed
  <2>2. OkPolls' = OkPolls
    BY <2>1 DEF OkPolls
  <2>3. CASE UNCHANGED missing_since /\ pc' = "fail"
    BY <1>0, <2>1, <2>2, <2>3 DEF RowOrder, Upserted, NotYetMarked, Marked, PublishedPollApplied
  <2>4. CASE missing_since' = [j \in Incident |->
               IF j \in Unobserved /\ missing_since[j] = 0
                 THEN Len(polls) ELSE missing_since[j]]
    <3>1. \A j \in Incident : j \in Unobserved =>
             last_seen_at[j] # 0 /\ last_seen_at[j] < Len(polls)
      BY <1>0, <2>1 DEF Unobserved, Observed, NotYetMarked, RowOrder
    <3> HIDE DEF Unobserved
    <3>2. RowOrder'
      <4> SUFFICES ASSUME NEW j \in Incident
                   PROVE  /\ last_seen_at[j] <= Len(polls)
                          /\ missing_since'[j] # 0 =>
                               /\ last_seen_at[j] # 0
                               /\ last_seen_at[j] < missing_since'[j]
                               /\ missing_since'[j] <= Len(polls)
                          /\ cleared_at[j] # 0 => cleared_at[j] = missing_since'[j]
        BY <2>1 DEF RowOrder
      <4>1. CASE j \in Unobserved /\ missing_since[j] = 0
        BY <1>0, <2>1, <2>4, <3>1, <4>1 DEF RowOrder
      <4>2. CASE ~(j \in Unobserved /\ missing_since[j] = 0)
        BY <1>0, <2>1, <2>4, <4>2 DEF RowOrder
      <4>3. QED
        BY <4>1, <4>2
    <3>3. Marked'
      <4> SUFFICES ASSUME NEW j \in Incident, last_seen_at[j] # 0, snapshot[j] = Absent
                   PROVE  missing_since'[j] # 0
        BY <2>1 DEF Marked
      <4>1. CASE cleared_at[j] = 0
        BY <1>0, <2>1, <2>4, <4>1 DEF Unobserved
      <4>2. CASE cleared_at[j] # 0
        BY <1>0, <2>1, <2>4, <4>2 DEF RowOrder
      <4>3. QED
        BY <4>1, <4>2
    <3>4. PublishedPollApplied'
      <4> SUFFICES ASSUME NEW p \in OkPolls, NEW j \in Incident
                   PROVE  /\ j \in polls[p].seen => last_seen_at[j] >= p
                          /\ last_seen_at[j] # 0 /\ last_seen_at[j] < p =>
                               missing_since'[j] # 0 /\ missing_since'[j] <= p
        BY <2>1, <2>2 DEF PublishedPollApplied
      <4>1. /\ j \in polls[p].seen => last_seen_at[j] >= p
            /\ last_seen_at[j] # 0 /\ last_seen_at[j] < p =>
                 missing_since[j] # 0 /\ missing_since[j] <= p
        BY DEF PublishedPollApplied
      <4>2. missing_since[j] # 0 => missing_since'[j] = missing_since[j]
        BY <2>4
      <4>3. QED
        BY <4>1, <4>2
    <3>5. Upserted' /\ NotYetMarked'
      BY <2>1 DEF Upserted, NotYetMarked
    <3>6. QED
      BY <3>2, <3>3, <3>4, <3>5
  <2>5. QED
    BY <1>4, <2>1, <2>3, <2>4 DEF MarkMissing
<1>5. ASSUME NEW reply \in Reply, SweepCleared(reply)
      PROVE Rows'
  <2>1. /\ pc = "sweep" /\ pc' \in {"fail", "events", "succeed"}
        /\ UNCHANGED <<polls, snapshot, todo, last_seen_at, missing_since>>
    BY <1>5 DEF SweepCleared
  <2>2. \A j \in Incident : cleared_at'[j] = cleared_at[j] \/ cleared_at'[j] = missing_since[j]
    BY <1>5 DEF SweepCleared
  <2>3. RowOrder'
    BY <2>1, <2>2 DEF RowOrder
  <2>4. PublishedPollApplied'
    BY <2>1, PublishedStable
  <2>5. QED
    BY <2>1, <2>3, <2>4 DEF Upserted, NotYetMarked, Marked
<1>6. ASSUME NEW reply \in Reply, RecordClearedEvents(reply)
      PROVE Rows'
  <2>1. /\ pc = "events" /\ pc' \in {"fail", "succeed"}
        /\ UNCHANGED <<polls, row, snapshot, todo>>
    BY <1>6 DEF RecordClearedEvents
  <2>2. QED
    BY <2>1, PublishedStable DEF RowOrder, Upserted, NotYetMarked, Marked
<1>7. ASSUME NEW reply \in Reply, MarkPollSucceeded(reply)
      PROVE Rows'
  <2>1. pc = "succeed" /\ pc' = "idle" /\ UNCHANGED row
    BY <1>7 DEF MarkPollSucceeded, Return
  <2>2. RowOrder'
    BY <1>0, <2>1 DEF RowOrder
  <2>3. PublishedPollApplied'
    <3> SUFFICES ASSUME NEW p \in OkPolls', NEW j \in Incident
                 PROVE  /\ j \in polls'[p].seen => last_seen_at[j] >= p
                        /\ last_seen_at[j] # 0 /\ last_seen_at[j] < p =>
                             missing_since[j] # 0 /\ missing_since[j] <= p
      BY <2>1 DEF PublishedPollApplied
    <3>1. p \in 1 .. Len(polls) /\ polls'[p].seen = polls[p].seen
      BY <1>0, <2>1, PollsStep
    <3>2. CASE p \in OkPolls
      BY <3>1, <3>2 DEF PublishedPollApplied
    <3>3. CASE p \notin OkPolls
      <4>1. p = Len(polls)
        BY <3>3, PollsStep
      <4>2. polls[p].seen = Observed(snapshot) /\ todo = {}
        BY <2>1, <4>1 DEF Base, InFlight
      <4>3. j \in polls'[p].seen => last_seen_at[j] = Len(polls)
        BY <2>1, <3>1, <4>2 DEF Upserted
      <4>4. j \notin polls'[p].seen /\ last_seen_at[j] # 0 =>
              missing_since[j] # 0 /\ missing_since[j] <= Len(polls)
        BY <2>1, <3>1, <4>2 DEF Marked, RowOrder, Observed
      <4>5. QED
        BY <1>0, <4>1, <4>3, <4>4
    <3>4. QED
      BY <3>2, <3>3
  <2>4. QED
    BY <2>1, <2>2, <2>3 DEF Upserted, NotYetMarked, Marked
<1>8. ASSUME NEW reply \in Reply, MarkPollFailed(reply)
      PROVE Rows'
  <2>1. pc = "fail" /\ pc' = "idle" /\ UNCHANGED row
    BY <1>8 DEF MarkPollFailed, Return
  <2>2. QED
    BY <1>0, <2>1, PublishedStable DEF RowOrder, Upserted, NotYetMarked, Marked
<1>9. CASE Crash
  <2>1. OkPolls' = OkPolls /\ UNCHANGED <<polls, row>> /\ pc' = "idle"
    BY <1>9 DEF Crash, Return, OkPolls
  <2>2. QED
    BY <2>1 DEF RowOrder, Upserted, NotYetMarked, Marked, PublishedPollApplied
<1>10. CASE UNCHANGED vars
  <2>1. OkPolls' = OkPolls /\ UNCHANGED <<polls, row, pc, snapshot, todo>>
    BY <1>10 DEF vars, OkPolls
  <2>2. QED
    BY <2>1 DEF RowOrder, Upserted, NotYetMarked, Marked, PublishedPollApplied, Observed
<1>12. CASE RecordPollRefused
  <2>1. OkPolls' = OkPolls /\ UNCHANGED <<polls, row, pc, snapshot, todo>>
    BY <1>12 DEF RecordPollRefused, OkPolls
  <2>2. QED
    BY <2>1 DEF row, RowOrder, Upserted, NotYetMarked, Marked, PublishedPollApplied, Observed
<1>11. QED
  BY <1>1, <1>2, <1>3, <1>4, <1>5, <1>6, <1>7, <1>8, <1>9, <1>10, <1>12 DEF Next

(***************************************************************************)
(* A poll whose success is published is reflected by every row.            *)
(***************************************************************************)
THEOREM PublishedPollAppliedCorrect == Spec => []PublishedPollApplied
<1>1. Base /\ Rows => PublishedPollApplied
  BY DEF Rows
<1>2. QED
  BY BaseInit, BaseInductive, RowsInit, RowsInductive, <1>1, PTL DEF Spec

-----------------------------------------------------------------------------
(***************************************************************************)
(* How the count of successful polls since a time changes in a step: it    *)
(* never falls, it grows by at most one, and only when a poll in flight is *)
(* published.                                                              *)
(***************************************************************************)
LEMMA CountStep ==
  ASSUME Base, [Next]_vars, NEW t \in Nat
  PROVE  LET now == {p \in OkPolls : p >= t}
             next == {p \in OkPolls' : p >= t}
         IN  /\ Cardinality(now) \in Nat
             /\ Cardinality(next) \in Nat
             /\ Cardinality(now) <= Cardinality(next)
             /\ Cardinality(next) <= Cardinality(now) + 1
             /\ pc # "succeed" => next = now
<1> DEFINE now == {p \in OkPolls : p >= t}
           next == {p \in OkPolls' : p >= t}
<1>1. /\ Len(polls) \in Nat /\ Len(polls') \in Nat
      /\ now \subseteq 1 .. Len(polls)
      /\ next \subseteq 1 .. Len(polls')
      /\ now \subseteq next
      /\ next \subseteq now \union {Len(polls)}
      /\ pc # "succeed" => next = now
  BY PollsStep
<1> HIDE DEF now, next
<1>2. IsFiniteSet(1 .. Len(polls)) /\ IsFiniteSet(1 .. Len(polls'))
  BY <1>1, FS_Interval
<1>3. IsFiniteSet(now) /\ IsFiniteSet(next)
  BY <1>1, <1>2, FS_Subset
<1>4. Cardinality(now) \in Nat /\ Cardinality(next) \in Nat
  BY <1>3, FS_CardinalityType
<1>5. Cardinality(now) <= Cardinality(next)
  BY <1>1, <1>3, FS_Subset
<1>6. Cardinality(next) <= Cardinality(now) + 1
  <2>1. /\ IsFiniteSet(now \union {Len(polls)})
        /\ Cardinality(now \union {Len(polls)}) =
             IF Len(polls) \in now THEN Cardinality(now) ELSE Cardinality(now) + 1
    BY <1>3, FS_AddElement
  <2>2. Cardinality(next) <= Cardinality(now \union {Len(polls)})
    BY <1>1, <2>1, FS_Subset
  <2>3. QED
    BY <1>4, <2>1, <2>2
<1>7. QED
  BY <1>1, <1>4, <1>5, <1>6 DEF now, next

(***************************************************************************)
(* A row seen after every published poll has no successful poll since; an  *)
(* older, uncleared row has been missing for all of those it has.          *)
(***************************************************************************)
LEMMA SinceLastSeen ==
  ASSUME Base, Rows, NEW i \in Incident, Exists(i)
  PROVE  /\ missing_since[i] = Null =>
              Cardinality(OkSince(last_seen_at[i] + 1)) = 0
         /\ Cardinality(OkSince(last_seen_at[i] + 1)) <=
              Cardinality(OkSince(missing_since[i]))
         /\ Cardinality(OkSince(missing_since[i])) \in Nat
         /\ Cardinality(OkSince(last_seen_at[i] + 1)) \in Nat
<1> DEFINE seen == OkSince(last_seen_at[i] + 1)
           missed == OkSince(missing_since[i])
<1>1. /\ OkPolls \subseteq 1 .. Len(polls) /\ Len(polls) \in Nat
      /\ last_seen_at[i] \in Nat /\ missing_since[i] \in Nat
  BY LenProperties DEF Base, TypeOK, OkPolls
<1>2. ASSUME NEW p \in seen
      PROVE  missing_since[i] # Null /\ missing_since[i] <= p
  BY <1>1, <1>2 DEF Rows, PublishedPollApplied, OkSince
<1>3. /\ seen \subseteq missed /\ (missing_since[i] = Null => seen = {})
      /\ missed \subseteq 1 .. Len(polls)
  BY <1>1, <1>2 DEF OkSince
<1> HIDE DEF seen, missed
<1>4. IsFiniteSet(missed)
  <2>1. IsFiniteSet(1 .. Len(polls))
    BY <1>1, FS_Interval
  <2>2. QED
    BY <1>3, <2>1, FS_Subset
<1>5. IsFiniteSet(seen) /\ Cardinality(seen) <= Cardinality(missed)
  BY <1>3, <1>4, FS_Subset
<1>6. Cardinality(seen) \in Nat /\ Cardinality(missed) \in Nat
  BY <1>4, <1>5, FS_CardinalityType
<1>7. missing_since[i] = Null => Cardinality(seen) = 0
  BY <1>3, FS_EmptySet
<1>8. QED
  BY <1>5, <1>6, <1>7 DEF seen, missed

-----------------------------------------------------------------------------
(***************************************************************************)
(* The miss counts: a cleared row has enough of them, an uncleared one not *)
(* too many, and after the sweep there is room for the poll in flight.     *)
(***************************************************************************)
LEMMA CountsInit == Init => Counts
BY DEF Init, Counts, Swept, ClearedCount, ClearedInTime, Exists, Null

\* A step that publishes no poll and writes neither last_seen_at nor
\* cleared_at keeps every count.
LEMMA CountsStable ==
  ASSUME Base, Counts, [Next]_vars, pc # "succeed",
         UNCHANGED <<last_seen_at, cleared_at>>
  PROVE  ClearedCount' /\ ClearedInTime'
<1>1. OkPolls' = OkPolls
  BY PollsStep
<1>2. QED
  BY <1>1 DEF Counts, ClearedCount, ClearedInTime, OkSince, Exists

\* Every store call keeps the miss counts, because only MarkPollSucceeded
\* adds a successful poll and SweepCleared came before it.
LEMMA CountsInductive == Base /\ Rows /\ Counts /\ [Next]_vars => Counts'
<1> SUFFICES ASSUME Base, Rows, Counts, [Next]_vars PROVE Counts'
  OBVIOUS
<1> USE DEF Counts, Exists, Null, row, pollID
<1>0. /\ ClearAfterMisses \in Nat \ {0}
      /\ Len(polls) \in Nat
      /\ OkPolls \subseteq 1 .. Len(polls)
      /\ last_seen_at \in [Incident -> Nat]
      /\ missing_since \in [Incident -> Nat]
      /\ cleared_at \in [Incident -> Nat]
      /\ pc # "succeed" => OkPolls' = OkPolls
  BY PollsStep, ClearAfterMissesAssumption DEF Base, TypeOK
<1>1. CASE RecordPoll
  BY <1>1, CountsStable DEF RecordPoll, Swept
<1>2. ASSUME NEW s \in Snapshot, NEW reply \in Reply, RecordPollPending(s, reply)
      PROVE Counts'
  BY <1>2, CountsStable DEF RecordPollPending, Swept
<1>3. ASSUME NEW i \in Incident, NEW reply \in Reply, UpsertIncident(i, reply)
      PROVE Counts'
  <2>1. pc = "upsert" /\ pc' \in {"upsert", "fail"} /\ OkPolls' = OkPolls
    BY <1>0, <1>3 DEF UpsertIncident
  <2>2. CASE UNCHANGED row
    BY <2>1, <2>2, CountsStable DEF Swept
  <2>3. CASE UpsertRow(i)
    <3>1. /\ last_seen_at' = [last_seen_at EXCEPT ![i] = Len(polls)]
          /\ cleared_at' = [cleared_at EXCEPT ![i] = 0]
      BY <2>3 DEF UpsertRow
    <3>2. {p \in OkPolls : p >= Len(polls) + 1} = {}
      <4>1. \A p \in OkPolls : p \in Nat /\ p <= Len(polls)
        BY <1>0
      <4>2. \A p \in OkPolls : ~(p >= Len(polls) + 1)
        BY <1>0, <4>1
      <4>3. QED
        BY <4>2
    <3>3. Cardinality({p \in OkPolls : p >= Len(polls) + 1}) = 0
      BY <3>2, FS_EmptySet
    <3>4. ClearedCount'
      BY <1>0, <2>1, <3>1 DEF ClearedCount, OkSince
    <3>5. ClearedInTime'
      <4> SUFFICES ASSUME NEW j \in Incident, last_seen_at'[j] # 0, cleared_at'[j] = 0
                   PROVE  Cardinality({p \in OkPolls : p >= last_seen_at'[j] + 1})
                            <= ClearAfterMisses
        BY <2>1 DEF ClearedInTime, OkSince
      <4>1. CASE j = i
        BY <1>0, <3>1, <3>3, <4>1
      <4>2. CASE j # i
        BY <1>0, <3>1, <4>2 DEF ClearedInTime, OkSince
      <4>3. QED
        BY <4>1, <4>2
    <3>6. QED
      BY <2>1, <3>4, <3>5 DEF Swept
  <2>4. QED
    BY <1>3, <2>2, <2>3 DEF UpsertIncident
<1>4. ASSUME NEW reply \in Reply, MarkMissing(reply)
      PROVE Counts'
  BY <1>4, CountsStable DEF MarkMissing, Swept
<1>5. ASSUME NEW reply \in Reply, SweepCleared(reply)
      PROVE Counts'
  <2>1. /\ pc = "sweep"
        /\ UNCHANGED <<last_seen_at, missing_since>>
        /\ pc' \in {"events", "succeed"} =>
             Committed(reply) /\ cleared' = Ripe
    BY <1>5 DEF SweepCleared, Committed
  <2>2. OkPolls' = OkPolls
    BY <1>0, <2>1
  <2>3. CASE UNCHANGED cleared_at /\ ~Committed(reply)
    BY <2>1, <2>3, CountsStable DEF Swept
  <2>4. CASE cleared_at' = [j \in Incident |->
                              IF j \in Ripe THEN missing_since[j] ELSE cleared_at[j]]
    <3>1. ASSUME NEW j \in Ripe
          PROVE  /\ j \in Incident /\ cleared_at[j] = 0 /\ missing_since[j] # 0
                 /\ Cardinality(OkSince(missing_since[j])) >= ClearAfterMisses
      BY DEF Ripe
    <3>2. ASSUME NEW j \in Incident, j \notin Ripe, last_seen_at[j] # 0, cleared_at[j] = 0
          PROVE  Cardinality(OkSince(last_seen_at[j] + 1)) < ClearAfterMisses
      <4>1. missing_since[j] = 0 \/
              ~(Cardinality(OkSince(missing_since[j])) >= ClearAfterMisses)
        BY <3>2 DEF Ripe
      <4>2. /\ missing_since[j] = 0 => Cardinality(OkSince(last_seen_at[j] + 1)) = 0
            /\ Cardinality(OkSince(last_seen_at[j] + 1)) <=
                 Cardinality(OkSince(missing_since[j]))
            /\ Cardinality(OkSince(missing_since[j])) \in Nat
            /\ Cardinality(OkSince(last_seen_at[j] + 1)) \in Nat
        BY <3>2, SinceLastSeen
      <4>3. QED
        BY <1>0, <4>1, <4>2
    <3> HIDE DEF Ripe
    <3>3. ClearedCount'
      BY <2>2, <2>4, <3>1 DEF ClearedCount, OkSince
    <3>4. ClearedInTime'
      BY <2>1, <2>2, <2>4, <3>1 DEF ClearedInTime, OkSince
    <3>5. Swept'
      <4> SUFFICES ASSUME pc' \in {"events", "succeed"}
                   PROVE  /\ \A j \in Ripe : cleared_at'[j] # 0
                          /\ \A j \in Incident : last_seen_at[j] # 0 /\ cleared_at'[j] = 0 =>
                               Cardinality({p \in OkPolls : p >= last_seen_at[j] + 1})
                                 < ClearAfterMisses
        BY <2>1, <2>2 DEF Swept, OkSince
      <4>1. QED
        BY <2>4, <3>1, <3>2 DEF OkSince
    <3>6. QED
      BY <3>3, <3>4, <3>5
  <2>5. QED
    BY <1>5, <2>1, <2>3, <2>4 DEF SweepCleared
<1>6. ASSUME NEW reply \in Reply, RecordClearedEvents(reply)
      PROVE Counts'
  <2>1. /\ pc = "events" /\ pc' \in {"succeed", "fail"}
        /\ UNCHANGED <<row, cleared>> /\ OkPolls' = OkPolls
    BY <1>0, <1>6 DEF RecordClearedEvents
  <2>2. Swept'
    BY <2>1 DEF Swept, OkSince
  <2>3. QED
    BY <2>1, <2>2, CountsStable
<1>7. ASSUME NEW reply \in Reply, MarkPollSucceeded(reply)
      PROVE Counts'
  <2>1. pc = "succeed" /\ pc' = "idle" /\ UNCHANGED row
    BY <1>7 DEF MarkPollSucceeded, Return
  <2>2. ASSUME NEW t \in Nat
        PROVE  /\ Cardinality({p \in OkPolls : p >= t}) \in Nat
               /\ Cardinality({p \in OkPolls' : p >= t}) \in Nat
               /\ Cardinality({p \in OkPolls : p >= t})
                    <= Cardinality({p \in OkPolls' : p >= t})
               /\ Cardinality({p \in OkPolls' : p >= t})
                    <= Cardinality({p \in OkPolls : p >= t}) + 1
    BY CountStep
  <2>3. ClearedCount'
    <3> SUFFICES ASSUME NEW j \in Incident, cleared_at[j] # 0
                 PROVE  Cardinality({p \in OkPolls' : p >= cleared_at[j]})
                          >= ClearAfterMisses
      BY <2>1 DEF ClearedCount, OkSince
    <3>1. Cardinality({p \in OkPolls : p >= cleared_at[j]}) >= ClearAfterMisses
      BY DEF ClearedCount, OkSince
    <3>2. cleared_at[j] \in Nat
      BY <1>0
    <3> DEFINE now == Cardinality({p \in OkPolls : p >= cleared_at[j]})
               next == Cardinality({p \in OkPolls' : p >= cleared_at[j]})
    <3>3. now \in Nat /\ next \in Nat /\ now <= next
      BY <2>2, <3>2
    <3>4. now >= ClearAfterMisses
      BY <3>1
    <3> HIDE DEF now, next
    <3>5. next >= ClearAfterMisses
      BY <1>0, <3>3, <3>4
    <3>6. QED
      BY <3>5 DEF next
  <2>4. ClearedInTime'
    <3> SUFFICES ASSUME NEW j \in Incident, last_seen_at[j] # 0, cleared_at[j] = 0
                 PROVE  Cardinality({p \in OkPolls' : p >= last_seen_at[j] + 1})
                          <= ClearAfterMisses
      BY <2>1 DEF ClearedInTime, OkSince
    <3>1. Cardinality({p \in OkPolls : p >= last_seen_at[j] + 1}) < ClearAfterMisses
      BY <2>1 DEF Swept, OkSince
    <3>2. last_seen_at[j] + 1 \in Nat
      BY <1>0
    <3> DEFINE now == Cardinality({p \in OkPolls : p >= last_seen_at[j] + 1})
               next == Cardinality({p \in OkPolls' : p >= last_seen_at[j] + 1})
    <3>3. now \in Nat /\ next \in Nat /\ next <= now + 1
      BY <2>2, <3>2
    <3>4. now < ClearAfterMisses
      BY <3>1
    <3> HIDE DEF now, next
    <3>5. next <= ClearAfterMisses
      BY <1>0, <3>3, <3>4
    <3>6. QED
      BY <3>5 DEF next
  <2>5. QED
    BY <2>1, <2>3, <2>4 DEF Swept
<1>8. ASSUME NEW reply \in Reply, MarkPollFailed(reply)
      PROVE Counts'
  BY <1>8, CountsStable DEF MarkPollFailed, Return, Swept
<1>9. CASE Crash
  <2>1. UNCHANGED <<polls, row>> /\ pc' = "idle" /\ OkPolls' = OkPolls
    BY <1>9 DEF Crash, Return, OkPolls
  <2>2. QED
    BY <2>1 DEF Swept, ClearedCount, ClearedInTime, OkSince
<1>10. CASE UNCHANGED vars
  <2>1. UNCHANGED <<row, pc, cleared>> /\ OkPolls' = OkPolls
    BY <1>10 DEF vars, OkPolls
  <2>2. QED
    BY <2>1 DEF Swept, ClearedCount, ClearedInTime, OkSince
<1>12. CASE RecordPollRefused
  <2>1. UNCHANGED <<row, pc, cleared>> /\ OkPolls' = OkPolls
    BY <1>12 DEF RecordPollRefused, OkPolls
  <2>2. QED
    BY <2>1 DEF row, Swept, ClearedCount, ClearedInTime, OkSince
<1>11. QED
  BY <1>1, <1>2, <1>3, <1>4, <1>5, <1>6, <1>7, <1>8, <1>9, <1>10, <1>12 DEF Next

-----------------------------------------------------------------------------
(***************************************************************************)
(* An entry later than every entry of an ordered log keeps it ordered.     *)
(***************************************************************************)
LEMMA AppendOrdered ==
  ASSUME NEW s \in Seq(EventRow), NEW b \in Nat, NEW e \in EventRow, b < e.at,
         \A n \in DOMAIN s : s[n].at <= b,
         \A m, n \in DOMAIN s : m < n => s[m].at < s[n].at
  PROVE  LET t == Append(s, e)
         IN  /\ \A n \in DOMAIN t : t[n].at <= e.at
             /\ \A m, n \in DOMAIN t : m < n => t[m].at < t[n].at
<1> DEFINE t == Append(s, e)
<1>1. /\ Len(s) \in Nat
      /\ DOMAIN t = 1 .. (Len(s) + 1)
      /\ DOMAIN s = 1 .. Len(s)
      /\ \A j \in 1 .. Len(s) : t[j] = s[j]
      /\ t[Len(s) + 1] = e
  BY AppendFacts
<1>2. \A j \in 1 .. Len(s) : s[j].at \in Nat
  <2>1. \A j \in 1 .. Len(s) : s[j] \in EventRow
    BY ElementOfSeq
  <2>2. QED
    BY <2>1 DEF EventRow
<1> HIDE DEF t
<1>3. e.at \in Nat
  BY DEF EventRow
<1>4. \A j \in 1 .. Len(s) : t[j].at < e.at
  BY <1>1, <1>2, <1>3
<1>5. ASSUME NEW n \in DOMAIN t
      PROVE  t[n].at <= e.at
  BY <1>1, <1>2, <1>3, <1>4, <1>5
<1>6. ASSUME NEW m \in DOMAIN t, NEW n \in DOMAIN t, m < n
      PROVE  t[m].at < t[n].at
  <2>1. m \in 1 .. Len(s)
    BY <1>1, <1>6
  <2>2. CASE n \in 1 .. Len(s)
    BY <1>1, <1>6, <2>1, <2>2
  <2>3. CASE n = Len(s) + 1
    BY <1>1, <1>4, <2>1, <2>3
  <2>4. QED
    BY <1>1, <1>6, <2>2, <2>3
<1>7. QED
  BY <1>5, <1>6 DEF t

\* The event log starts empty.
LEMMA TimelineInit == Init => Timeline
BY DEF Init, Timeline, EventsBound, TimelineOrdered

(***************************************************************************)
(* The latest time the log of an incident may hold.                        *)
(***************************************************************************)
Bound(i) == IF cleared_at[i] # Null /\ ~Owed(i) THEN cleared_at[i] ELSE last_seen_at[i]

\* A step that writes no event and lowers no bound keeps the timelines.
LEMMA TimelineStable ==
  ASSUME Timeline, TypeOK, UNCHANGED events,
         \A i \in Incident : Bound(i) \in Nat /\ Bound(i)' \in Nat /\ Bound(i) <= Bound(i)'
  PROVE  Timeline'
<1>1. TimelineOrdered'
  BY DEF Timeline, TimelineOrdered
<1>2. EventsBound'
  <2> SUFFICES ASSUME NEW i \in Incident, NEW n \in DOMAIN events[i]
               PROVE  events[i][n].at <= Bound(i)'
    BY DEF EventsBound, Bound
  <2>1. events[i][n].at <= Bound(i)
    BY DEF Timeline, EventsBound, Bound
  <2>2. events[i][n].at \in Nat
    <3>1. events[i] \in Seq(EventRow)
      BY DEF TypeOK
    <3>2. n \in 1 .. Len(events[i])
      BY <3>1, LenProperties
    <3>3. events[i][n] \in EventRow
      BY <3>1, <3>2, ElementOfSeq
    <3>4. QED
      BY <3>3 DEF EventRow
  <2>3. QED
    BY <2>1, <2>2
<1>3. QED
  BY <1>1, <1>2 DEF Timeline

\* Every store call that writes an event dates it after the last one: an
\* upsert at the poll in flight, a clear at missing_since, which lies after
\* last_seen_at.
LEMMA TimelineInductive == IInv /\ [Next]_vars => Timeline'
<1> SUFFICES ASSUME IInv, [Next]_vars PROVE Timeline'
  OBVIOUS
<1> USE DEF IInv, Null, pollID
<1>0. /\ TypeOK
      /\ Len(polls) \in Nat
      /\ last_seen_at \in [Incident -> Nat]
      /\ missing_since \in [Incident -> Nat]
      /\ cleared_at \in [Incident -> Nat]
      /\ events \in [Incident -> Seq(EventRow)]
      /\ \A j \in Incident :
           /\ last_seen_at[j] <= Len(polls)
           /\ cleared_at[j] # 0 =>
                cleared_at[j] = missing_since[j] /\ last_seen_at[j] < cleared_at[j]
  BY LenProperties DEF Base, TypeOK, Rows, RowOrder
<1>1. ASSUME UNCHANGED <<last_seen_at, cleared_at, events>>, pc' # "events"
      PROVE Timeline'
  \* the events of this clear are written, were not owed, or never will be
  BY <1>0, <1>1, TimelineStable DEF Bound, Owed
<1>2. ASSUME NEW i \in Incident, NEW reply \in Reply, UpsertIncident(i, reply)
      PROVE Timeline'
  <2>1. pc = "upsert" /\ pc' # "events" /\ i \in todo
    BY <1>2 DEF UpsertIncident
  <2>2. CASE UNCHANGED <<row, events>>
    BY <1>1, <2>1, <2>2 DEF row
  <2>3. CASE UpsertRow(i)
    <3> DEFINE log == IF SameAsPrior(i) THEN events[i]
                      ELSE Append(events[i], Event(UpsertEventType(i), Len(polls)))
    <3>1. /\ last_seen_at' = [last_seen_at EXCEPT ![i] = Len(polls)]
          /\ cleared_at' = [cleared_at EXCEPT ![i] = 0]
          /\ events' = [events EXCEPT ![i] = log]
      BY <2>3 DEF UpsertRow, UpsertLog
    <3>2. /\ last_seen_at[i] < Len(polls)
          /\ cleared_at[i] # 0 => cleared_at[i] < Len(polls)
      BY <1>0, <2>1 DEF Rows, NotYetMarked
    <3>3. /\ Bound(i) \in Nat /\ Bound(i) < Len(polls)
          /\ \A n \in DOMAIN events[i] : events[i][n].at <= Bound(i)
          /\ \A m, n \in DOMAIN events[i] : m < n => events[i][m].at < events[i][n].at
      BY <1>0, <2>1, <3>2 DEF Bound, Owed, Timeline, EventsBound, TimelineOrdered
    <3>4. /\ \A n \in DOMAIN log : log[n].at <= Len(polls)
          /\ \A m, n \in DOMAIN log : m < n => log[m].at < log[n].at
      <4>1. CASE SameAsPrior(i)
        <5>1. \A n \in DOMAIN events[i] : events[i][n].at \in Nat
          <6>1. /\ DOMAIN events[i] = 1 .. Len(events[i])
                /\ \A n \in 1 .. Len(events[i]) : events[i][n] \in EventRow
            BY <1>0, LenProperties, ElementOfSeq
          <6>2. QED
            BY <6>1 DEF EventRow
        <5>2. QED
          BY <1>0, <3>3, <4>1, <5>1
      <4>2. CASE ~SameAsPrior(i)
        <5> DEFINE e == Event(UpsertEventType(i), Len(polls))
        <5>1. e \in EventRow /\ e.at = Len(polls)
          BY <1>0 DEF UpsertEventType, Event, EventRow
        <5> HIDE DEF e
        <5>2. QED
          BY <1>0, <3>3, <4>2, <5>1, AppendOrdered DEF e
      <4>3. QED
        BY <4>1, <4>2
    <3> HIDE DEF log
    <3>5. TimelineOrdered'
      BY <1>0, <3>1, <3>4 DEF Timeline, TimelineOrdered
    <3>6. EventsBound'
      BY <1>0, <2>1, <3>1, <3>4 DEF Timeline, EventsBound, Owed
    <3>7. QED
      BY <3>5, <3>6 DEF Timeline
  <2>4. QED
    BY <1>2, <2>2, <2>3 DEF UpsertIncident
<1>3. ASSUME NEW reply \in Reply, SweepCleared(reply)
      PROVE Timeline'
  <2>1. /\ pc = "sweep" /\ UNCHANGED <<last_seen_at, events>>
        /\ pc' = "events" => cleared' = Ripe
        /\ pc' = "succeed" => Ripe = {}
    BY <1>3 DEF SweepCleared
  <2>2. \A j \in Incident :
          \/ cleared_at'[j] = cleared_at[j] /\ (pc' = "events" => j \notin cleared')
          \/ cleared_at[j] = 0 /\ cleared_at'[j] = missing_since[j]
               /\ missing_since[j] # 0 /\ j \in Ripe
          \/ cleared_at[j] = 0 /\ cleared_at'[j] = 0
    BY <1>3 DEF SweepCleared, Ripe
  <2>3. ASSUME NEW j \in Incident
        PROVE  Bound(j) \in Nat /\ Bound(j)' \in Nat /\ Bound(j) <= Bound(j)'
    <3>1. missing_since[j] # 0 => last_seen_at[j] < missing_since[j]
      BY DEF Rows, RowOrder
    <3>2. QED
      BY <1>0, <2>1, <2>2, <3>1 DEF Bound, Owed
  <2>4. QED
    BY <1>0, <2>1, <2>3, TimelineStable
<1>4. ASSUME NEW reply \in Reply, RecordClearedEvents(reply)
      PROVE Timeline'
  <2>1. /\ pc = "events" /\ pc' # "events" /\ UNCHANGED <<last_seen_at, cleared_at>>
    BY <1>4 DEF RecordClearedEvents, row
  <2>2. CASE UNCHANGED events
    BY <1>1, <2>1, <2>2
  <2>3. CASE events' = [i \in Incident |->
                          IF i \in cleared
                            THEN Append(events[i], Event("cleared", cleared_at[i]))
                            ELSE events[i]]
    <3> SUFFICES ASSUME NEW j \in Incident
                 PROVE  /\ \A n \in DOMAIN events'[j] : events'[j][n].at <=
                             IF cleared_at[j] # 0 THEN cleared_at[j] ELSE last_seen_at[j]
                        /\ \A m, n \in DOMAIN events'[j] :
                             m < n => events'[j][m].at < events'[j][n].at
      BY <2>1 DEF Timeline, EventsBound, TimelineOrdered, Owed
    <3>1. CASE j \in cleared
      <4> DEFINE e == Event("cleared", cleared_at[j])
      <4>1. cleared_at[j] # 0 /\ last_seen_at[j] < cleared_at[j]
        BY <1>0, <2>1, <3>1 DEF Counts, Swept
      <4>2. e \in EventRow /\ e.at = cleared_at[j]
        BY <1>0 DEF Event, EventRow
      <4>3. events'[j] = Append(events[j], e)
        BY <2>3, <3>1
      <4>4. /\ \A n \in DOMAIN events[j] : events[j][n].at <= last_seen_at[j]
            /\ \A m, n \in DOMAIN events[j] : m < n => events[j][m].at < events[j][n].at
        BY <2>1, <3>1 DEF Timeline, EventsBound, TimelineOrdered, Owed
      <4> HIDE DEF e
      <4>5. QED
        BY <1>0, <4>1, <4>2, <4>3, <4>4, AppendOrdered
    <3>2. CASE j \notin cleared
      BY <2>1, <2>3, <3>2 DEF Timeline, EventsBound, TimelineOrdered, Owed
    <3>3. QED
      BY <3>1, <3>2
  <2>4. QED
    BY <1>4, <2>2, <2>3 DEF RecordClearedEvents
<1>5. CASE RecordPoll
  BY <1>1, <1>5 DEF RecordPoll, row
<1>6. ASSUME NEW s \in Snapshot, NEW reply \in Reply, RecordPollPending(s, reply)
      PROVE Timeline'
  BY <1>1, <1>6 DEF RecordPollPending, row
<1>7. ASSUME NEW reply \in Reply, MarkMissing(reply)
      PROVE Timeline'
  BY <1>1, <1>7 DEF MarkMissing
<1>8. ASSUME NEW reply \in Reply, MarkPollSucceeded(reply) \/ MarkPollFailed(reply)
      PROVE Timeline'
  BY <1>1, <1>8 DEF MarkPollSucceeded, MarkPollFailed, Return, row
<1>9. CASE Crash
  BY <1>1, <1>9 DEF Crash, Return, row
<1>10. CASE UNCHANGED vars
  BY <1>10 DEF vars, row, Timeline, EventsBound, TimelineOrdered, Owed
<1>12. CASE RecordPollRefused
  BY <1>1, <1>12 DEF RecordPollRefused, row
<1>11. QED
  BY <1>2, <1>3, <1>4, <1>5, <1>6, <1>7, <1>8, <1>9, <1>10, <1>12 DEF Next

-----------------------------------------------------------------------------
(***************************************************************************)
(* The strengthening holds in every reachable state.                       *)
(***************************************************************************)
THEOREM InductiveInvariant == Spec => []IInv
<1>1. Init => IInv
  BY BaseInit, RowsInit, CountsInit, TimelineInit DEF IInv
<1>2. IInv /\ [Next]_vars => IInv'
  BY BaseInductive, RowsInductive, CountsInductive, TimelineInductive DEF IInv
<1>3. QED
  BY <1>1, <1>2, PTL DEF Spec

(***************************************************************************)
(* No incident is cleared before ClearAfterMisses successful polls without *)
(* it, from its cleared_at on.                                             *)
(***************************************************************************)
THEOREM ClearedAfterMissesCorrect == Spec => []ClearedAfterMisses
<1>1. IInv => ClearedAfterMisses
  <2> SUFFICES ASSUME IInv, NEW i \in Incident, cleared_at[i] # Null
               PROVE  /\ Cardinality(OkSince(cleared_at[i])) >= ClearAfterMisses
                      /\ \A p \in OkSince(cleared_at[i]) : i \notin polls[p].seen
    BY DEF ClearedAfterMisses
  <2>1. /\ cleared_at[i] = missing_since[i] /\ last_seen_at[i] < cleared_at[i]
        /\ last_seen_at[i] \in Nat /\ cleared_at[i] \in Nat
    BY DEF IInv, Rows, RowOrder, Base, TypeOK, Null
  <2>2. ASSUME NEW p \in OkSince(cleared_at[i])
        PROVE  i \notin polls[p].seen
    <3>1. p \in OkPolls /\ p >= cleared_at[i] /\ p \in Nat
      BY LenProperties DEF OkSince, OkPolls, IInv, Base, TypeOK
    <3>2. i \in polls[p].seen => last_seen_at[i] >= p
      BY <3>1 DEF IInv, Rows, PublishedPollApplied
    <3>3. QED
      BY <2>1, <3>1, <3>2
  <2>3. QED
    BY <2>2 DEF IInv, Counts, ClearedCount
<1>2. QED
  BY InductiveInvariant, <1>1, PTL

(***************************************************************************)
(* No incident stays active for more than ClearAfterMisses successful      *)
(* polls without it.                                                       *)
(***************************************************************************)
THEOREM ClearedInTimeCorrect == Spec => []ClearedInTime
<1>1. IInv => ClearedInTime
  BY DEF IInv, Counts, ClearedInTime
<1>2. QED
  BY InductiveInvariant, <1>1, PTL

(***************************************************************************)
(* Sorting an incident's events by occurred_at, back-dated clears          *)
(* included, gives the order they were written in.                         *)
(***************************************************************************)
THEOREM TimelineOrderedCorrect == Spec => []TimelineOrdered
<1>1. IInv => TimelineOrdered
  BY DEF IInv, Timeline
<1>2. QED
  BY InductiveInvariant, <1>1, PTL

-----------------------------------------------------------------------------
(***************************************************************************)
(* The event log of an incident against its row.                           *)
(***************************************************************************)
Reopenings(log) == {n \in DOMAIN log : log[n].type = "reopened"}

LogAgrees(log, seen, clearedAt, count) ==
  /\ seen # 0 <=> log # <<>>
  /\ \A n \in DOMAIN log : log[n].type = "created" <=> n = 1
  /\ Cardinality(Reopenings(log)) = count
  /\ log # <<>> /\ LastOf(log).type = "cleared" =>
       clearedAt = LastOf(log).at /\ clearedAt # 0

LogsAgree ==
  \A i \in Incident :
    LogAgrees(events[i], last_seen_at[i], cleared_at[i], reopen_count[i])

\* What RecordClearedEvents has written when it hands over to the next call.
ClearsWritten ==
  pc = "succeed" =>
    \A i \in cleared :
      events[i] # <<>> /\ LastOf(events[i]) = Event("cleared", cleared_at[i])

(***************************************************************************)
(* A log that is empty or begins with its created event keeps agreeing     *)
(* with its row when one event is added to it.                             *)
(***************************************************************************)
LEMMA AppendAgrees ==
  ASSUME NEW log \in Seq(EventRow), NEW e \in EventRow,
         NEW seen, NEW clearedAt, NEW count \in Nat,
         LogAgrees(log, seen, clearedAt, count),
         NEW newSeen, newSeen # 0, NEW newClearedAt,
         e.type = "created" <=> log = <<>>,
         e.type = "cleared" => newClearedAt = e.at /\ newClearedAt # 0
  PROVE  LogAgrees(Append(log, e), newSeen, newClearedAt,
                   IF e.type = "reopened" THEN count + 1 ELSE count)
<1> DEFINE new == Append(log, e)
           m == Len(log)
<1>1. /\ m \in Nat /\ Len(new) = m + 1
      /\ DOMAIN new = 1 .. (m + 1) /\ DOMAIN log = 1 .. m
      /\ \A j \in 1 .. m : new[j] = log[j]
      /\ new[m + 1] = e
  BY AppendFacts
<1>2. log = <<>> <=> m = 0
  BY EmptySeq, <1>1
<1>3. new # <<>> /\ LastOf(new) = e
  BY <1>1 DEF LastOf
<1>4. \A n \in DOMAIN new : new[n].type = "created" <=> n = 1
  <2>1. \A n \in 1 .. m : new[n].type = "created" <=> n = 1
    BY <1>1 DEF LogAgrees
  <2>2. new[m + 1].type = "created" <=> m + 1 = 1
    BY <1>1, <1>2
  <2>3. QED
    BY <1>1, <2>1, <2>2
<1>5. IsFiniteSet(Reopenings(log)) /\ Cardinality(Reopenings(log)) = count
  <2>1. Reopenings(log) \subseteq 1 .. m /\ IsFiniteSet(1 .. m)
    BY <1>1, FS_Interval DEF Reopenings
  <2>2. QED
    BY <2>1, FS_Subset DEF LogAgrees
<1>6. CASE e.type = "reopened"
  <2>1. Reopenings(new) = Reopenings(log) \union {m + 1}
    BY <1>1, <1>6 DEF Reopenings
  <2>2. m + 1 \notin Reopenings(log)
    BY <1>1 DEF Reopenings
  <2>3. Cardinality(Reopenings(new)) = count + 1
    BY <1>5, <2>1, <2>2, FS_AddElement
  <2>4. QED
    BY <1>3, <1>4, <1>6, <2>3 DEF LogAgrees
<1>7. CASE e.type # "reopened"
  <2>1. Reopenings(new) = Reopenings(log)
    BY <1>1, <1>7 DEF Reopenings
  <2>2. QED
    BY <1>3, <1>4, <1>5, <1>7, <2>1 DEF LogAgrees
<1>8. QED
  BY <1>6, <1>7

(***************************************************************************)
(* Every upsert and every batch of clears keeps log and row agreeing.      *)
(***************************************************************************)
LEMMA LogsInit == Init => LogsAgree /\ ClearsWritten
<1> SUFFICES ASSUME Init PROVE LogsAgree /\ ClearsWritten
  OBVIOUS
<1>1. Cardinality(Reopenings(<<>>)) = 0
  <2>1. Reopenings(<<>>) = {}
    BY DEF Reopenings
  <2>2. QED
    BY <2>1, FS_EmptySet
<1>2. \A i \in Incident : events[i] = <<>> /\ last_seen_at[i] = 0 /\ reopen_count[i] = 0
  BY DEF Init, Null
<1>3. LogAgrees(<<>>, 0, 0, 0)
  BY <1>1 DEF LogAgrees
<1>4. QED
  BY <1>1, <1>2 DEF Init, LogsAgree, LogAgrees, ClearsWritten
LEMMA LogsUntouched ==
  ASSUME LogsAgree, UNCHANGED <<events, last_seen_at, cleared_at, reopen_count>>
  PROVE  LogsAgree'
BY DEF LogsAgree, LogAgrees, Reopenings, LastOf

LEMMA LogsInductive ==
  IInv /\ LogsAgree /\ ClearsWritten /\ [Next]_vars => LogsAgree' /\ ClearsWritten'
<1> SUFFICES ASSUME IInv, LogsAgree, ClearsWritten, [Next]_vars
             PROVE  LogsAgree' /\ ClearsWritten'
  OBVIOUS
<1>0. /\ Base /\ Rows /\ Counts
      /\ pc # "idle" => pollID \in Nat /\ pollID > 0
      /\ \A j \in Incident :
           /\ events[j] \in Seq(EventRow)
           /\ last_seen_at[j] \in Nat /\ cleared_at[j] \in Nat
           /\ reopen_count[j] \in Nat
           /\ cleared_at[j] # 0 => last_seen_at[j] # 0
  BY DEF IInv, Base, InFlight, TypeOK, Rows, RowOrder, Exists, Null, pollID
<1>1. ASSUME NEW i \in Incident, NEW reply \in Reply, UpsertIncident(i, reply)
      PROVE  LogsAgree' /\ ClearsWritten'
  <2>1. pc = "upsert" /\ pc' # "succeed"
    BY <1>1 DEF UpsertIncident
  <2>2. ClearsWritten'
    BY <2>1 DEF ClearsWritten
  <2>3. CASE UNCHANGED <<row, events>>
    BY <2>2, <2>3, LogsUntouched DEF row
  <2>4. CASE UpsertRow(i)
    <3>1. ASSUME NEW j \in Incident, j # i
          PROVE  LogAgrees(events'[j], last_seen_at'[j], cleared_at'[j], reopen_count'[j])
      <4>1. /\ events'[j] = events[j] /\ last_seen_at'[j] = last_seen_at[j]
            /\ cleared_at'[j] = cleared_at[j] /\ reopen_count'[j] = reopen_count[j]
        BY <1>0, <2>4, <3>1 DEF UpsertRow, Base, TypeOK
      <4>2. QED
        BY <4>1 DEF LogsAgree
    <3>2. /\ events'[i] = UpsertLog(i)
          /\ last_seen_at'[i] = pollID /\ pollID # 0
          /\ cleared_at'[i] = 0
          /\ reopen_count'[i] = IF cleared_at[i] # 0 THEN reopen_count[i] + 1 ELSE reopen_count[i]
      BY <1>0, <2>1, <2>4 DEF UpsertRow, Base, TypeOK, Null
    <3>3. LogAgrees(events[i], last_seen_at[i], cleared_at[i], reopen_count[i])
      BY DEF LogsAgree
    <3>4. ASSUME SameAsPrior(i)
          PROVE  LogAgrees(events'[i], last_seen_at'[i], cleared_at'[i], reopen_count'[i])
      <4>1. /\ cleared_at[i] = 0 /\ last_seen_at[i] # 0 /\ events'[i] = events[i]
            /\ reopen_count'[i] = reopen_count[i]
        BY <3>2, <3>4 DEF SameAsPrior, UpsertLog, Exists, Null
      <4>2. LogAgrees(events[i], pollID, 0, reopen_count[i])
        <5>1. events[i] = <<>> \/ LastOf(events[i]).type # "cleared"
          BY <3>3, <4>1 DEF LogAgrees
        <5>2. pollID # 0 /\ events[i] # <<>>
          BY <3>2, <3>3, <4>1 DEF LogAgrees
        <5> QED
          BY <3>3, <5>1, <5>2 DEF LogAgrees
      <4>3. /\ events'[i] = events[i] /\ last_seen_at'[i] = pollID
            /\ cleared_at'[i] = 0 /\ reopen_count'[i] = reopen_count[i]
        BY <3>2, <4>1
      <4>4. QED
        BY <4>2, <4>3, Zenon
    <3>5. ASSUME ~SameAsPrior(i)
          PROVE  LogAgrees(events'[i], last_seen_at'[i], cleared_at'[i], reopen_count'[i])
      <4> DEFINE e == Event(UpsertEventType(i), pollID)
      <4>1. events'[i] = Append(events[i], e)
        BY <3>2, <3>5 DEF UpsertLog
      <4>2. /\ e \in EventRow
            /\ e.type # "cleared"
            /\ e.type = "created" <=> last_seen_at[i] = 0
            /\ e.type = "reopened" <=> last_seen_at[i] # 0 /\ cleared_at[i] # 0
        BY <1>0, <2>1 DEF UpsertEventType, Event, EventRow, Exists, Null
      <4>3. last_seen_at[i] = 0 <=> events[i] = <<>>
        BY <3>3 DEF LogAgrees
      <4> HIDE DEF e
      <4>4. LogAgrees(Append(events[i], e), pollID, 0,
              IF e.type = "reopened" THEN reopen_count[i] + 1 ELSE reopen_count[i])
        BY <1>0, <3>2, <3>3, <4>2, <4>3, AppendAgrees
      <4>5. e.type = "reopened" <=> cleared_at[i] # 0
        BY <1>0, <4>2
      <4>6. reopen_count'[i] =
              IF e.type = "reopened" THEN reopen_count[i] + 1 ELSE reopen_count[i]
        BY <3>2, <4>5
      <4>7. last_seen_at'[i] = pollID /\ cleared_at'[i] = 0
        BY <3>2
      <4>8. QED
        BY <4>1, <4>4, <4>6, <4>7, Zenon
    <3>6. LogAgrees(events'[i], last_seen_at'[i], cleared_at'[i], reopen_count'[i])
      BY <3>4, <3>5, Zenon
    <3>7. \A j \in Incident :
            LogAgrees(events'[j], last_seen_at'[j], cleared_at'[j], reopen_count'[j])
      BY <3>1, <3>6
    <3>8. QED
      BY <2>2, <3>7 DEF LogsAgree, LogAgrees, Reopenings, LastOf
  <2>5. QED
    BY <1>1, <2>3, <2>4 DEF UpsertIncident
<1>2. ASSUME NEW reply \in Reply, SweepCleared(reply)
      PROVE  LogsAgree' /\ ClearsWritten'
  <2>1. /\ UNCHANGED <<events, last_seen_at, reopen_count>>
        /\ \A j \in Incident : cleared_at[j] # 0 => cleared_at'[j] = cleared_at[j]
        /\ pc' = "succeed" => cleared' = {}
    BY <1>2 DEF SweepCleared, Ripe, Null
  <2>2. ClearsWritten'
    BY <2>1 DEF ClearsWritten
  <2>3. ASSUME NEW j \in Incident
        PROVE  LogAgrees(events'[j], last_seen_at'[j], cleared_at'[j], reopen_count'[j])
    <3>1. LogAgrees(events[j], last_seen_at[j], cleared_at[j], reopen_count[j])
      BY DEF LogsAgree
    <3>2. QED
      BY <2>1, <3>1 DEF LogAgrees
  <2>4. QED
    BY <2>2, <2>3 DEF LogsAgree, LogAgrees, Reopenings, LastOf
<1>3. ASSUME NEW reply \in Reply, RecordClearedEvents(reply)
      PROVE  LogsAgree' /\ ClearsWritten'
  <2>1. pc = "events" /\ cleared' = cleared /\ UNCHANGED row
    BY <1>3 DEF RecordClearedEvents
  <2>2. CASE UNCHANGED events /\ pc' # "succeed"
    BY <2>1, <2>2, LogsUntouched DEF row, ClearsWritten
  <2>3. CASE events' = [i \in Incident |->
                          IF i \in cleared
                            THEN Append(events[i], Event("cleared", cleared_at[i]))
                            ELSE events[i]]
    <3>1. ASSUME NEW j \in Incident, j \in cleared
          PROVE  /\ LogAgrees(events'[j], last_seen_at[j], cleared_at[j], reopen_count[j])
                 /\ events'[j] # <<>>
                 /\ LastOf(events'[j]) = Event("cleared", cleared_at[j])
      <4> DEFINE e == Event("cleared", cleared_at[j])
      <4>1. cleared_at[j] # 0
        BY <1>0, <2>1, <3>1 DEF Counts, Swept, Null
      <4>2. e \in EventRow /\ e.type = "cleared" /\ e.at = cleared_at[j]
        BY <1>0 DEF Event, EventRow
      <4>3. LogAgrees(events[j], last_seen_at[j], cleared_at[j], reopen_count[j])
        BY DEF LogsAgree
      <4>4. events[j] # <<>> /\ last_seen_at[j] # 0
        BY <1>0, <4>1, <4>3 DEF LogAgrees
      <4>5. events'[j] = Append(events[j], e)
        BY <2>3, <3>1
      <4> HIDE DEF e
      <4>6. LogAgrees(Append(events[j], e), last_seen_at[j], cleared_at[j], reopen_count[j])
        BY <1>0, <4>1, <4>2, <4>3, <4>4, AppendAgrees
      <4>7. Append(events[j], e) # <<>> /\ LastOf(Append(events[j], e)) = e
        BY <1>0, <4>2, AppendFacts DEF LastOf
      <4>8. QED
        BY <4>5, <4>6, <4>7 DEF e
    <3>2. ASSUME NEW j \in Incident, j \notin cleared
          PROVE  LogAgrees(events'[j], last_seen_at[j], cleared_at[j], reopen_count[j])
      BY <2>3, <3>2 DEF LogsAgree
    <3>3. \A j \in Incident :
            LogAgrees(events'[j], last_seen_at'[j], cleared_at'[j], reopen_count'[j])
      BY <2>1, <3>1, <3>2 DEF row
    <3>4. LogsAgree'
      BY <3>3 DEF LogsAgree, LogAgrees, Reopenings, LastOf
    <3>5. ClearsWritten'
      <4>1. \A j \in cleared' : j \in Incident /\ j \in cleared
        BY <1>0, <2>1 DEF Base, TypeOK
      <4>2. \A j \in cleared' :
              events'[j] # <<>> /\ LastOf(events'[j]) = Event("cleared", cleared_at'[j])
        BY <2>1, <3>1, <4>1 DEF row
      <4>3. QED
        BY <4>2, Zenon DEF ClearsWritten, LastOf, Event
    <3>6. QED
      BY <3>4, <3>5
  <2>4. QED
    BY <1>3, <2>2, <2>3 DEF RecordClearedEvents, Reply, Committed
<1>4. CASE RecordPoll
  BY <1>4, LogsUntouched DEF RecordPoll, row, ClearsWritten
<1>5. ASSUME NEW s \in Snapshot, NEW reply \in Reply, RecordPollPending(s, reply)
      PROVE  LogsAgree' /\ ClearsWritten'
  BY <1>5, LogsUntouched DEF RecordPollPending, row, ClearsWritten
<1>6. ASSUME NEW reply \in Reply, MarkMissing(reply)
      PROVE  LogsAgree' /\ ClearsWritten'
  BY <1>6, LogsUntouched DEF MarkMissing, ClearsWritten
<1>7. ASSUME NEW reply \in Reply, MarkPollSucceeded(reply) \/ MarkPollFailed(reply)
      PROVE  LogsAgree' /\ ClearsWritten'
  BY <1>7, LogsUntouched DEF MarkPollSucceeded, MarkPollFailed, Return, row, ClearsWritten
<1>8. CASE Crash
  BY <1>8, LogsUntouched DEF Crash, Return, row, ClearsWritten
<1>9. CASE RecordPollRefused
  BY <1>9, LogsUntouched DEF RecordPollRefused, row, ClearsWritten
<1>10. CASE UNCHANGED vars
  BY <1>10, LogsUntouched DEF vars, row, ClearsWritten, LastOf, Event
<1>11. QED
  BY <1>1, <1>2, <1>3, <1>4, <1>5, <1>6, <1>7, <1>8, <1>9, <1>10 DEF Next

LEMMA LogsCorrect == Spec => [](IInv /\ LogsAgree /\ ClearsWritten)
<1>1. Init => IInv /\ LogsAgree /\ ClearsWritten
  BY BaseInit, RowsInit, CountsInit, TimelineInit, LogsInit DEF IInv
<1>2. IInv /\ LogsAgree /\ ClearsWritten /\ [Next]_vars
        => (IInv /\ LogsAgree /\ ClearsWritten)'
  BY BaseInductive, RowsInductive, CountsInductive, TimelineInductive, LogsInductive DEF IInv
<1>3. QED
  BY <1>1, <1>2, PTL DEF Spec

(***************************************************************************)
(* The timeline never contradicts the row: one created event, one reopened *)
(* event for each reopening counted, and a clear at the end only of a row  *)
(* that is cleared at that time.                                           *)
(***************************************************************************)
THEOREM TimelineMatchesRowCorrect == Spec => []TimelineMatchesRow
<1>1. LogsAgree => TimelineMatchesRow
  BY DEF LogsAgree, LogAgrees, Reopenings, TimelineMatchesRow, Exists, Null
<1>2. QED
  BY LogsCorrect, <1>1, PTL

(***************************************************************************)
(* When the success of a poll is published, each clear it made is the last *)
(* event of its incident (lifecycle.go 74-98).                             *)
(***************************************************************************)
THEOREM PublishedClearsAreLoggedCorrect == Spec => PublishedClearsAreLogged
<1>1. ClearsWritten /\ [Next]_vars =>
        [pc = "succeed" /\ polls' # polls =>
           \A i \in cleared :
             events[i] # <<>> /\ LastOf(events[i]) = Event("cleared", cleared_at[i])]_vars
  BY DEF ClearsWritten
<1>2. QED
  BY LogsCorrect, <1>1, PTL DEF Spec, PublishedClearsAreLogged

-----------------------------------------------------------------------------
(***************************************************************************)
(* The refinement: the initial state maps to an initial state, and every   *)
(* store call to one step of IncidentLifecycle or none.                    *)
(***************************************************************************)
PhaseMap == [i \in Incident |-> PhaseOf(i)]
AbsencesMap == [i \in Incident |-> AbsencesOf(i)]

\* The NULLs of a row go together.
RowShape ==
  \A i \in Incident :
    /\ last_seen_at[i] \in Nat /\ missing_since[i] \in Nat
    /\ cleared_at[i] \in Nat /\ reopen_count[i] \in Nat
    /\ missing_since[i] # 0 => last_seen_at[i] # 0 /\ missing_since[i] <= Len(polls)
    /\ cleared_at[i] # 0 => cleared_at[i] = missing_since[i]

LEMMA ShapeOfRows ==
  ASSUME IInv
  PROVE  RowShape
BY DEF IInv, Base, TypeOK, Rows, RowOrder, RowShape, Exists, Null, pollID

(***************************************************************************)
(* The four phases read off the columns.                                   *)
(***************************************************************************)
LEMMA PhaseCases ==
  ASSUME RowShape, NEW i \in Incident
  PROVE  /\ PhaseOf(i) = "unknown" <=> last_seen_at[i] = 0
         /\ PhaseOf(i) = "cleared" <=> cleared_at[i] # 0
         /\ PhaseOf(i) = "missing" <=> missing_since[i] # 0 /\ cleared_at[i] = 0
         /\ PhaseOf(i) = "observed" <=>
              last_seen_at[i] # 0 /\ missing_since[i] = 0 /\ cleared_at[i] = 0
         /\ PhaseOf(i) # "missing" => AbsencesOf(i) = 0
         /\ PhaseOf(i) = "missing" =>
              AbsencesOf(i) = Cardinality(OkSince(missing_since[i]))
<1>1. /\ missing_since[i] # 0 => last_seen_at[i] # 0
      /\ cleared_at[i] # 0 => cleared_at[i] = missing_since[i]
  BY DEF RowShape
<1>2. CASE last_seen_at[i] = 0
  BY <1>1, <1>2 DEF PhaseOf, AbsencesOf, Exists, Null
<1>3. CASE last_seen_at[i] # 0 /\ cleared_at[i] # 0
  BY <1>1, <1>3 DEF PhaseOf, AbsencesOf, Exists, Null
<1>4. CASE last_seen_at[i] # 0 /\ cleared_at[i] = 0 /\ missing_since[i] # 0
  BY <1>1, <1>4 DEF PhaseOf, AbsencesOf, Exists, Null
<1>5. CASE last_seen_at[i] # 0 /\ cleared_at[i] = 0 /\ missing_since[i] = 0
  BY <1>1, <1>5 DEF PhaseOf, AbsencesOf, Exists, Null
<1>6. QED
  BY <1>1, <1>2, <1>3, <1>4, <1>5

\* The same, after the step.
LEMMA PhaseCasesNext ==
  ASSUME RowShape', NEW i \in Incident
  PROVE  /\ PhaseOf(i)' = "unknown" <=> last_seen_at'[i] = 0
         /\ PhaseOf(i)' = "cleared" <=> cleared_at'[i] # 0
         /\ PhaseOf(i)' = "missing" <=> missing_since'[i] # 0 /\ cleared_at'[i] = 0
         /\ PhaseOf(i)' = "observed" <=>
              last_seen_at'[i] # 0 /\ missing_since'[i] = 0 /\ cleared_at'[i] = 0
         /\ PhaseOf(i)' # "missing" => AbsencesOf(i)' = 0
         /\ PhaseOf(i)' = "missing" =>
              AbsencesOf(i)' = Cardinality({p \in OkPolls' : p >= missing_since'[i]})
<1>1. /\ missing_since'[i] # 0 => last_seen_at'[i] # 0
      /\ cleared_at'[i] # 0 => cleared_at'[i] = missing_since'[i]
  BY DEF RowShape
<1>2. CASE last_seen_at'[i] = 0
  BY <1>1, <1>2 DEF PhaseOf, AbsencesOf, Exists, Null
<1>3. CASE last_seen_at'[i] # 0 /\ cleared_at'[i] # 0
  BY <1>1, <1>3 DEF PhaseOf, AbsencesOf, Exists, Null
<1>4. CASE last_seen_at'[i] # 0 /\ cleared_at'[i] = 0 /\ missing_since'[i] # 0
  BY <1>1, <1>4 DEF PhaseOf, AbsencesOf, Exists, Null, OkSince
<1>5. CASE last_seen_at'[i] # 0 /\ cleared_at'[i] = 0 /\ missing_since'[i] = 0
  BY <1>1, <1>5 DEF PhaseOf, AbsencesOf, Exists, Null
<1>6. QED
  BY <1>1, <1>2, <1>3, <1>4, <1>5

\* A row whose columns stay, and whose absences are counted over the same
\* polls, stays where it is.
LEMMA RowKept ==
  ASSUME RowShape, RowShape', NEW i \in Incident,
         last_seen_at'[i] = last_seen_at[i], missing_since'[i] = missing_since[i],
         cleared_at'[i] = cleared_at[i], OkPolls' = OkPolls
  PROVE  PhaseOf(i)' = PhaseOf(i) /\ AbsencesOf(i)' = AbsencesOf(i)
BY DEF PhaseOf, AbsencesOf, OkSince, Exists

LEMMA RowsKept ==
  ASSUME RowShape, RowShape', OkPolls' = OkPolls, UNCHANGED row
  PROVE  UNCHANGED <<PhaseMap, AbsencesMap, reopen_count>>
<1>1. \A i \in Incident : PhaseOf(i)' = PhaseOf(i) /\ AbsencesOf(i)' = AbsencesOf(i)
  BY RowKept DEF row
<1>2. QED
  BY <1>1 DEF PhaseMap, AbsencesMap, row

-----------------------------------------------------------------------------
(***************************************************************************)
(* An upsert is an observation of its incident.                            *)
(***************************************************************************)
LEMMA UpsertObserves ==
  ASSUME RowShape, RowShape', Base, OkPolls' = OkPolls, pollID # 0,
         NEW i \in Incident, UpsertRow(i)
  PROVE  Promise!Observe(i)
<1>1. /\ last_seen_at'[i] # 0 /\ missing_since'[i] = 0 /\ cleared_at'[i] = 0
      /\ reopen_count' =
           [reopen_count EXCEPT ![i] = IF cleared_at[i] # 0 THEN @ + 1 ELSE @]
  BY DEF UpsertRow, Base, TypeOK, Null
<1>2. PhaseOf(i)' = "observed" /\ AbsencesOf(i)' = 0
  BY <1>1, PhaseCasesNext
<1>3. ASSUME NEW j \in Incident, j # i
      PROVE  PhaseOf(j)' = PhaseOf(j) /\ AbsencesOf(j)' = AbsencesOf(j)
  <2>1. /\ last_seen_at'[j] = last_seen_at[j] /\ missing_since'[j] = missing_since[j]
        /\ cleared_at'[j] = cleared_at[j]
    BY <1>3 DEF UpsertRow, Base, TypeOK
  <2>2. QED
    BY <2>1, RowKept
<1>4. PhaseMap' = [PhaseMap EXCEPT ![i] = "observed"]
  BY <1>2, <1>3 DEF PhaseMap
<1>5. AbsencesMap' = [AbsencesMap EXCEPT ![i] = 0]
  BY <1>2, <1>3 DEF AbsencesMap
<1>6. PhaseMap[i] = "cleared" <=> cleared_at[i] # 0
  BY PhaseCases DEF PhaseMap
<1>7. reopen_count' =
        [reopen_count EXCEPT ![i] = IF PhaseMap[i] = "cleared" THEN @ + 1 ELSE @]
  BY <1>1, <1>6
<1>8. QED
  BY <1>4, <1>5, <1>7 DEF Promise!Observe, PhaseMap, AbsencesMap

(***************************************************************************)
(* Marking begins an absence, which no published poll has counted yet.     *)
(***************************************************************************)
LEMMA MarkGoesMissing ==
  ASSUME RowShape, RowShape', OkPolls' = OkPolls,
         Len(polls) \in Nat, OkPolls \subseteq 1..Len(polls), Len(polls) > 0,
         Len(polls) \notin OkPolls,
         UNCHANGED <<last_seen_at, cleared_at, reopen_count>>,
         missing_since' =
           [i \in Incident |->
              IF i \in Unobserved /\ missing_since[i] = 0
                THEN Len(polls) ELSE missing_since[i]]
  PROVE  \E S \in SUBSET Incident : Promise!GoMissing(S)
<1> DEFINE S == {i \in Unobserved : missing_since[i] = 0}
<1>1. S \subseteq Incident
  BY DEF Unobserved
<1>2. ASSUME NEW i \in S
      PROVE  PhaseOf(i) = "observed" /\ AbsencesOf(i) = 0
             /\ PhaseOf(i)' = "missing" /\ AbsencesOf(i)' = 0
  <2>1. /\ i \in Incident /\ last_seen_at[i] # 0 /\ cleared_at[i] = 0
        /\ missing_since[i] = 0
    BY DEF Unobserved, Exists, Null
  <2>2. missing_since'[i] = Len(polls) /\ cleared_at'[i] = 0 /\ Len(polls) # 0
    BY <2>1
  <2>3. PhaseOf(i) = "observed" /\ AbsencesOf(i) = 0
    BY <2>1, PhaseCases
  <2>4. PhaseOf(i)' = "missing" /\ AbsencesOf(i)' =
          Cardinality({p \in OkPolls' : p >= missing_since'[i]})
    BY <2>1, <2>2, PhaseCasesNext
  <2>5. {p \in OkPolls' : p >= missing_since'[i]} = {}
    <3>1. \A p \in OkPolls : p \in 1..Len(polls) /\ p # Len(polls)
      OBVIOUS
    <3>2. \A p \in OkPolls : ~(p >= Len(polls))
      BY <3>1
    <3>3. QED
      BY <2>2, <3>2
  <2>6. QED
    BY <2>3, <2>4, <2>5, FS_EmptySet
<1>3. ASSUME NEW i \in Incident, i \notin S
      PROVE  PhaseOf(i)' = PhaseOf(i) /\ AbsencesOf(i)' = AbsencesOf(i)
  <2>1. missing_since'[i] = missing_since[i]
    BY <1>3
  <2>2. QED
    BY <2>1, RowKept
<1> HIDE DEF S
<1>4. \A i \in S : PhaseMap[i] = "observed"
  BY <1>1, <1>2 DEF PhaseMap
<1>5. PhaseMap' = [i \in Incident |-> IF i \in S THEN "missing" ELSE PhaseMap[i]]
  BY <1>2, <1>3 DEF PhaseMap
<1>6. AbsencesMap' = AbsencesMap
  BY <1>2, <1>3 DEF AbsencesMap
<1>7. Promise!GoMissing(S)
  BY <1>4, <1>5, <1>6 DEF Promise!GoMissing, PhaseMap, AbsencesMap
<1>8. QED
  BY <1>1, <1>7

(***************************************************************************)
(* The sweep clears what is due, and only that.                            *)
(***************************************************************************)
LEMMA SweepClearsDue ==
  ASSUME RowShape, RowShape', OkPolls' = OkPolls,
         UNCHANGED <<last_seen_at, missing_since, reopen_count>>,
         cleared_at' =
           [i \in Incident |-> IF i \in Ripe THEN missing_since[i] ELSE cleared_at[i]]
  PROVE  Promise!ClearDue
<1>1. ASSUME NEW i \in Incident
      PROVE  /\ i \in Ripe <=>
                  PhaseOf(i) = "missing" /\ AbsencesOf(i) >= ClearAfterMisses
             /\ i \in Ripe => PhaseOf(i)' = "cleared" /\ AbsencesOf(i)' = 0
             /\ i \notin Ripe =>
                  PhaseOf(i)' = PhaseOf(i) /\ AbsencesOf(i)' = AbsencesOf(i)
  <2>1. i \in Ripe <=>
          PhaseOf(i) = "missing" /\ AbsencesOf(i) >= ClearAfterMisses
    <3>1. missing_since[i] # 0 => last_seen_at[i] # 0
      BY DEF RowShape
    <3>2. i \in Ripe <=>
            /\ missing_since[i] # 0 /\ cleared_at[i] = 0
            /\ Cardinality(OkSince(missing_since[i])) >= ClearAfterMisses
      BY <3>1, Zenon DEF Ripe, Exists, Null
    <3>3. QED
      BY <3>2, PhaseCases
  <2>2. ASSUME i \in Ripe PROVE PhaseOf(i)' = "cleared" /\ AbsencesOf(i)' = 0
    <3>1. cleared_at'[i] # 0
      BY <2>2 DEF Ripe, Null
    <3>2. QED
      BY <3>1, PhaseCasesNext
  <2>3. ASSUME i \notin Ripe
        PROVE  PhaseOf(i)' = PhaseOf(i) /\ AbsencesOf(i)' = AbsencesOf(i)
    BY <2>3, RowKept
  <2>4. QED
    BY <2>1, <2>2, <2>3
<1>2. Promise!Due = {i \in Incident :
                       PhaseOf(i) = "missing" /\ AbsencesOf(i) >= ClearAfterMisses}
  BY DEF Promise!Due
<1>3. Promise!Due = {i \in Incident : i \in Ripe}
  BY <1>1, <1>2
<1>4. PhaseMap' = [i \in Incident |-> IF i \in Promise!Due THEN "cleared" ELSE PhaseMap[i]]
  BY <1>1, <1>3 DEF PhaseMap
<1>5. AbsencesMap' = [i \in Incident |-> IF i \in Promise!Due THEN 0 ELSE AbsencesMap[i]]
  BY <1>1, <1>3 DEF AbsencesMap
<1>6. QED
  BY <1>4, <1>5 DEF Promise!ClearDue, PhaseMap, AbsencesMap

(***************************************************************************)
(* Marking the poll successful publishes one absence of every missing row. *)
(***************************************************************************)
LEMMA SuccessPublishes ==
  ASSUME RowShape, RowShape', UNCHANGED row,
         Len(polls) \in Nat, OkPolls \subseteq 1..Len(polls),
         Len(polls) \notin OkPolls, OkPolls' = OkPolls \union {Len(polls)}
  PROVE  Promise!Publish
<1>1. ASSUME NEW i \in Incident
      PROVE  /\ PhaseOf(i)' = PhaseOf(i)
             /\ AbsencesOf(i)' =
                  IF PhaseOf(i) = "missing" THEN AbsencesOf(i) + 1 ELSE AbsencesOf(i)
  <2>1. /\ last_seen_at'[i] = last_seen_at[i] /\ missing_since'[i] = missing_since[i]
        /\ cleared_at'[i] = cleared_at[i]
    BY DEF row
  <2>2. PhaseOf(i)' = PhaseOf(i)
    BY <2>1 DEF PhaseOf, Exists
  <2>3. CASE PhaseOf(i) # "missing"
    BY <2>2, <2>3, PhaseCases, PhaseCasesNext
  <2>4. CASE PhaseOf(i) = "missing"
    <3> DEFINE t == missing_since[i]
               now == {p \in OkPolls : p >= t}
               next == {p \in OkPolls' : p >= t}
    <3>1. t \in Nat /\ t <= Len(polls)
      <4>1. t # 0
        BY <2>4, PhaseCases
      <4>2. QED
        BY <4>1 DEF RowShape
    <3>2. AbsencesOf(i) = Cardinality(now) /\ AbsencesOf(i)' = Cardinality(next)
      <4>1. AbsencesOf(i) = Cardinality(now)
        BY <2>4, PhaseCases DEF OkSince
      <4>2. AbsencesOf(i)' = Cardinality({p \in OkPolls' : p >= missing_since'[i]})
        BY <2>2, <2>4, PhaseCasesNext
      <4>3. QED
        BY <2>1, <4>1, <4>2
    <3>3. next = now \union {Len(polls)} /\ Len(polls) \notin now
      BY <3>1
    <3>4. IsFiniteSet(now)
      <4>1. 1 \in Int /\ Len(polls) \in Int
        OBVIOUS
      <4>2. IsFiniteSet(1..Len(polls))
        BY <4>1, FS_Interval
      <4>3. now \subseteq 1..Len(polls)
        OBVIOUS
      <4>4. QED
        BY <4>2, <4>3, FS_Subset
    <3> HIDE DEF now, next
    <3>5. Cardinality(next) = Cardinality(now) + 1
      BY <3>3, <3>4, FS_AddElement
    <3>6. QED
      BY <2>2, <2>4, <3>2, <3>5
  <2>5. QED
    BY <2>3, <2>4
<1>2. PhaseMap' = PhaseMap
  BY <1>1 DEF PhaseMap
<1>3. AbsencesMap' = [i \in Incident |->
        IF PhaseMap[i] = "missing" THEN AbsencesMap[i] + 1 ELSE AbsencesMap[i]]
  BY <1>1 DEF PhaseMap, AbsencesMap
<1>4. QED
  BY <1>2, <1>3 DEF Promise!Publish, PhaseMap, AbsencesMap, row

-----------------------------------------------------------------------------
(***************************************************************************)
(* One store call is one step of the promise, or none.                     *)
(***************************************************************************)
LEMMA PromiseStep ==
  IInv /\ IInv' /\ [Next]_vars => [Promise!ANext]_(Promise!avars)
<1> SUFFICES ASSUME IInv, IInv', [Next]_vars
             PROVE  [Promise!ANext]_(Promise!avars)
  OBVIOUS
<1>0. /\ RowShape /\ Base
      /\ Len(polls) \in Nat /\ OkPolls \subseteq 1..Len(polls)
      /\ pc # "idle" => Len(polls) > 0 /\ Len(polls) \notin OkPolls
  <2>1. RowShape /\ Base
    BY ShapeOfRows DEF IInv
  <2>2. Len(polls) \in Nat /\ OkPolls \subseteq 1..Len(polls)
    BY <2>1, PollsStep
  <2>3. pc # "idle" => Len(polls) > 0 /\ Len(polls) \notin OkPolls
    BY <2>1 DEF Base, InFlight, OkPolls, pollID
  <2>4. QED
    BY <2>1, <2>2, <2>3
<1>a. RowShape'
  BY DEF IInv, Base, TypeOK, Rows, RowOrder, RowShape, Exists, Null, pollID
<1>b. pc # "succeed" => OkPolls' = OkPolls
  BY <1>0, PollsStep
<1>1. CASE UNCHANGED <<PhaseMap, AbsencesMap, reopen_count>>
  BY <1>1 DEF Promise!avars, PhaseMap, AbsencesMap
<1>2. CASE pc # "succeed" /\ UNCHANGED row
  BY <1>0, <1>a, <1>b, <1>1, <1>2, RowsKept
<1>3. ASSUME NEW i \in Incident, pc = "upsert", UpsertRow(i)
      PROVE  Promise!ANext
  <2>1. Promise!Observe(i)
    BY <1>0, <1>a, <1>b, <1>3, UpsertObserves DEF pollID
  <2>2. QED
    BY <2>1 DEF Promise!ANext
<1>4. ASSUME NEW reply \in Reply, MarkMissing(reply)
      PROVE  [Promise!ANext]_(Promise!avars)
  <2>1. pc = "upsert" /\ UNCHANGED <<content, last_seen_at, cleared_at, reopen_count>>
    BY <1>4 DEF MarkMissing
  <2>2. CASE UNCHANGED missing_since
    BY <1>2, <2>1, <2>2 DEF row
  <2>3. CASE missing_since' =
               [i \in Incident |->
                  IF i \in Unobserved /\ missing_since[i] = 0
                    THEN Len(polls) ELSE missing_since[i]]
    <3>1. \E S \in SUBSET Incident : Promise!GoMissing(S)
      BY <1>0, <1>a, <1>b, <2>1, <2>3, MarkGoesMissing
    <3>2. QED
      BY <3>1 DEF Promise!ANext
  <2>4. QED
    BY <1>4, <2>2, <2>3 DEF MarkMissing, Null, pollID
<1>5. ASSUME NEW reply \in Reply, SweepCleared(reply)
      PROVE  [Promise!ANext]_(Promise!avars)
  <2>1. pc = "sweep" /\ UNCHANGED <<content, last_seen_at, missing_since, reopen_count>>
    BY <1>5 DEF SweepCleared
  <2>2. CASE UNCHANGED cleared_at
    BY <1>2, <2>1, <2>2 DEF row
  <2>3. CASE cleared_at' =
               [i \in Incident |->
                  IF i \in Ripe THEN missing_since[i] ELSE cleared_at[i]]
    <3>1. Promise!ClearDue
      BY <1>0, <1>a, <1>b, <2>1, <2>3, SweepClearsDue
    <3>2. QED
      BY <3>1 DEF Promise!ANext
  <2>4. QED
    BY <1>5, <2>2, <2>3 DEF SweepCleared
<1>6. ASSUME NEW reply \in Reply, MarkPollSucceeded(reply)
      PROVE  [Promise!ANext]_(Promise!avars)
  <2>1. pc = "succeed" /\ UNCHANGED row
    BY <1>6 DEF MarkPollSucceeded
  <2>2. CASE UNCHANGED polls
    <3>1. OkPolls' = OkPolls
      BY <2>2 DEF OkPolls
    <3>2. QED
      BY <1>0, <1>a, <1>1, <2>1, <3>1, RowsKept
  <2>3. CASE SetStatus(Len(polls), "success")
    <3>1. /\ polls \in Seq(PollRow) /\ Len(polls) \in 1..Len(polls)
          /\ DOMAIN polls = 1..Len(polls) /\ "success" \in Status
      BY <1>0, <2>1, LenProperties DEF Base, TypeOK, Status
    <3>2. /\ DOMAIN polls' = 1..Len(polls)
          /\ \A q \in 1..Len(polls) : q # Len(polls) => polls'[q] = polls[q]
          /\ polls'[Len(polls)].status = "success"
      BY <2>3, <3>1, SetStatusFacts
    <3>3. OkPolls' = OkPolls \union {Len(polls)}
      BY <3>1, <3>2 DEF OkPolls
    <3>4. Promise!Publish
      BY <1>0, <1>a, <2>1, <3>3, SuccessPublishes
    <3>5. QED
      BY <3>4 DEF Promise!ANext
  <2>4. QED
    BY <1>6, <2>2, <2>3 DEF MarkPollSucceeded, pollID
<1>7. ASSUME NEW i \in Incident, NEW reply \in Reply, UpsertIncident(i, reply)
      PROVE  [Promise!ANext]_(Promise!avars)
  <2>1. pc = "upsert" /\ (UpsertRow(i) \/ UNCHANGED row)
    BY <1>7 DEF UpsertIncident
  <2>2. QED
    BY <1>2, <1>3, <2>1
<1>8. CASE \/ RecordPoll \/ RecordPollRefused \/ Crash
           \/ \E s \in Snapshot, reply \in Reply : RecordPollPending(s, reply)
           \/ \E reply \in Reply : RecordClearedEvents(reply) \/ MarkPollFailed(reply)
  <2>1. UNCHANGED row
    BY <1>8 DEF RecordPoll, RecordPollRefused, Crash, RecordPollPending,
       RecordClearedEvents, MarkPollFailed
  <2>2. CASE pc # "succeed"
    BY <1>2, <2>1, <2>2
  <2>3. CASE pc = "succeed"
    <3>1. UNCHANGED polls
      BY <1>8, <2>3 DEF RecordPoll, RecordPollRefused, Crash, RecordPollPending,
         RecordClearedEvents, MarkPollFailed
    <3>2. OkPolls' = OkPolls
      BY <3>1 DEF OkPolls
    <3>3. QED
      BY <1>0, <1>a, <1>1, <2>1, <3>2, RowsKept
  <2>4. QED
    BY <2>2, <2>3
<1>9. CASE UNCHANGED vars
  <2>1. UNCHANGED row /\ OkPolls' = OkPolls
    BY <1>9 DEF vars, OkPolls
  <2>2. QED
    BY <1>0, <1>a, <1>1, <2>1, RowsKept
<1>10. QED
  BY <1>4, <1>5, <1>6, <1>7, <1>8, <1>9 DEF Next

LEMMA PromiseInit == Init => Promise!AInit
<1> SUFFICES ASSUME Init PROVE Promise!AInit
  OBVIOUS
<1>1. \A i \in Incident : PhaseOf(i) = "unknown" /\ AbsencesOf(i) = 0
  BY DEF Init, PhaseOf, AbsencesOf, Exists, Null
<1>2. QED
  BY <1>1 DEF Init, Promise!AInit

(***************************************************************************)
(* The apply of polls over source_polls, incidents and incident_events,    *)
(* store call by store call and with every fault, implements the promised  *)
(* lifecycle (lifecycle.go 40-110).                                        *)
(***************************************************************************)
THEOREM ImplementsPromiseCorrect == Spec => ImplementsPromise
<1>1. []IInv /\ [][Next]_vars => [][Promise!ANext]_(Promise!avars)
  BY PromiseStep, PTL
<1>2. QED
  BY <1>1, PromiseInit, InductiveInvariant, PTL DEF Spec, ImplementsPromise, Promise!ASpec
=============================================================================
