-------------------------- MODULE IngesterProofs ---------------------------
(***************************************************************************)
(* In the loop of cmd/ingester each component does only what its own       *)
(* module allows, so everything proved of the lifecycle under arbitrary    *)
(* polls is true of it when the client supplies them.                      *)
(***************************************************************************)
EXTENDS IngesterProperties, LifecycleProofs, PhxFireProofs

\* What the hand-over from client to lifecycle rests on.
HandOver == ClientBase /\ applied \in Nat

(***************************************************************************)
(* An authoritative result names a payload whose incidents are a snapshot. *)
(***************************************************************************)
LEMMA AuthoritativeSnapshot ==
  ASSUME HandOver, applied < Len(results), LastResult.verdict = "authoritative"
  PROVE  Incidents[LastResult.payload] \in Snapshot
<1>1. results \in Seq(PollResult) /\ Len(results) \in Nat
  BY DEF HandOver, ClientBase, ClientTypeOK
<1>2. Len(results) \in DOMAIN results
  BY <1>1, LenProperties DEF HandOver
<1>3. LastResult.payload \in Payload
  BY <1>2 DEF HandOver, ClientBase, LastResult
<1>4. QED
  BY <1>3, IncidentsAssumption

(***************************************************************************)
(* A step of the loop is a step of the lifecycle or leaves it alone, and a *)
(* step of the client or leaves it alone.                                  *)
(***************************************************************************)
LEMMA StepOfBoth ==
  HandOver /\ [IngesterNext]_ingesterVars
    => [Next]_vars /\ [ClientNext]_clientVars /\ (applied \in Nat)'
<1> SUFFICES ASSUME HandOver, [IngesterNext]_ingesterVars
             PROVE  [Next]_vars /\ [ClientNext]_clientVars /\ (applied \in Nat)'
  OBVIOUS
<1>0. applied \in Nat /\ Len(results) \in Nat /\ Len(results) \in Int
  BY DEF HandOver, ClientBase, ClientTypeOK
<1>1. CASE Poll
  BY <1>0, <1>1 DEF Poll, ClientNext
<1>2. CASE ApplyRejected
  BY <1>0, <1>2 DEF ApplyRejected, Take, Next
<1>3. ASSUME NEW reply \in Reply, ApplyAuthoritative(reply)
      PROVE  [Next]_vars /\ [ClientNext]_clientVars /\ (applied \in Nat)'
  <2>1. Incidents[LastResult.payload] \in Snapshot
    BY <1>3, AuthoritativeSnapshot DEF ApplyAuthoritative, Take
  <2>2. QED
    BY <1>0, <1>3, <2>1 DEF ApplyAuthoritative, Take, Next
<1>4. CASE ApplyRefused
  BY <1>0, <1>4 DEF ApplyRefused, Take, Next
<1>5. CASE ApplyStep
  BY <1>0, <1>5 DEF ApplyStep, Next
<1>6. CASE ProcessRestart
  BY <1>0, <1>6 DEF ProcessRestart, Next, ClientNext
<1>7. CASE UNCHANGED ingesterVars
  BY <1>0, <1>7 DEF ingesterVars
<1>8. QED
  BY <1>1, <1>2, <1>3, <1>4, <1>5, <1>6, <1>7 DEF IngesterNext

(***************************************************************************)
(* The hand-over holds in every reachable state of the loop.               *)
(***************************************************************************)
LEMMA HandOverCorrect == IngesterSpec => []HandOver
<1>1. IngesterInit => HandOver
  BY ClientBaseInit DEF IngesterInit, HandOver
<1>2. HandOver /\ [IngesterNext]_ingesterVars => HandOver'
  BY StepOfBoth, ClientBaseInductive DEF HandOver
<1>3. QED
  BY <1>1, <1>2, PTL DEF IngesterSpec

(***************************************************************************)
(* The loop implements both components: Apply is never entered twice, and  *)
(* is only handed snapshots the client answered as authoritative           *)
(* (main.go 52-91).                                                        *)
(***************************************************************************)
THEOREM ComponentsKeptCorrect == IngesterSpec => ComponentsKept
<1>1. IngesterInit => Init /\ ClientInit
  BY DEF IngesterInit
<1>2. HandOver /\ [IngesterNext]_ingesterVars => [Next]_vars /\ [ClientNext]_clientVars
  BY StepOfBoth
<1>3. QED
  BY <1>1, <1>2, HandOverCorrect, PTL DEF IngesterSpec, Spec, ClientSpec, ComponentsKept

(***************************************************************************)
(* So the inductive invariant of the lifecycle holds of the running        *)
(* ingester, across restarts and whatever the feed serves.                 *)
(***************************************************************************)
THEOREM IngesterInvariant == IngesterSpec => []IInv
BY ComponentsKeptCorrect, InductiveInvariant, PTL DEF ComponentsKept

-----------------------------------------------------------------------------
(***************************************************************************)
(* Which answer each poll row records, and where each row has its content. *)
(***************************************************************************)
Recorded ==
  /\ recorded \in Seq(Nat)
  /\ Len(recorded) = Len(polls)
  /\ \A p \in 1..Len(polls) : recorded[p] \in 1..Len(results)

Applying ==
  pc # "idle" =>
    LET n == recorded[Len(polls)] IN
    /\ results[n].verdict = "authoritative"
    /\ snapshot = Incidents[results[n].payload]

Provenance == Recorded /\ Applying /\ RowsComeFromSnapshots

(***************************************************************************)
(* Answers are only added.                                                 *)
(***************************************************************************)
LEMMA AnswersStay ==
  ASSUME ClientBase, [ClientNext]_clientVars
  PROVE  /\ Len(results) \in Nat /\ Len(results') \in Nat
         /\ Len(results) <= Len(results') /\ Len(results') <= Len(results) + 1
         /\ \A k \in 1..Len(results) : results'[k] = results[k]
<1>1. Len(results) \in Nat
  BY DEF ClientBase, ClientTypeOK
<1>2. CASE UNCHANGED results
  BY <1>1, <1>2
<1>3. ASSUME NEW r \in PollResult, Finish(r)
      PROVE  /\ Len(results') \in Nat /\ Len(results') = Len(results) + 1
             /\ \A k \in 1..Len(results) : results'[k] = results[k]
  <2>1. results \in Seq(PollResult) /\ results' = Append(results, r)
    BY <1>3 DEF Finish, ClientBase, ClientTypeOK
  <2>2. Len(results') = Len(results) + 1
        /\ \A k \in 1..Len(results) : results'[k] = results[k]
    BY <2>1, AppendFacts
  <2>3. QED
    BY <1>1, <2>2
<1>4. UNCHANGED results \/ \E r \in PollResult : Finish(r)
  BY StepAnswers DEF Restart
<1>5. QED
  BY <1>1, <1>2, <1>3, <1>4

(***************************************************************************)
(* What a step of Apply does to content and last_seen_at of one row.       *)
(***************************************************************************)
LEMMA ContentStep ==
  ASSUME Base, ApplyStep, NEW i \in Incident
  PROVE  /\ pc # "idle"
         /\ Len(polls') = Len(polls)
         /\ pc' # "idle" => snapshot' = snapshot
         /\ \/ UNCHANGED <<content[i], last_seen_at[i]>>
            \/ content'[i] = snapshot[i] /\ last_seen_at'[i] = Len(polls)
<1>1. pc # "idle" /\ [Next]_vars /\ (pc' # "idle" => snapshot' = snapshot)
  BY DEF ApplyStep, Next, UpsertIncident, MarkMissing, SweepCleared,
     RecordClearedEvents, MarkPollSucceeded, MarkPollFailed, Return
<1>2. Len(polls') = Len(polls)
  BY <1>1, PollsStep
<1>3. UNCHANGED <<content, last_seen_at>> \/ \E j \in Incident : UpsertRow(j)
  BY DEF ApplyStep, UpsertIncident, MarkMissing, SweepCleared,
     RecordClearedEvents, MarkPollSucceeded, MarkPollFailed, row
<1>4. ASSUME NEW j \in Incident, UpsertRow(j)
      PROVE  \/ UNCHANGED <<content[i], last_seen_at[i]>>
             \/ content'[i] = snapshot[i] /\ last_seen_at'[i] = Len(polls)
  <2>1. content \in [Incident -> Content \union {Absent}] /\ last_seen_at \in [Incident -> Nat]
    BY DEF Base, TypeOK, Snapshot
  <2>2. QED
    BY <1>4, <2>1 DEF UpsertRow, pollID
<1>5. QED
  BY <1>1, <1>2, <1>3, <1>4

\* A row that stays keeps its origin while answers and poll rows are added.
LEMMA OriginStays ==
  ASSUME IInv, Recorded, RowsComeFromSnapshots, NEW i \in Incident,
         last_seen_at[i] # 0,
         \A p \in 1..Len(polls) : recorded'[p] = recorded[p],
         \A k \in 1..Len(results) : results'[k] = results[k],
         content'[i] = content[i], last_seen_at'[i] = last_seen_at[i]
  PROVE  LET n == recorded'[last_seen_at'[i]] IN
         /\ results'[n].verdict = "authoritative"
         /\ content'[i] = Incidents[results'[n].payload][i]
<1>1. last_seen_at[i] \in 1..Len(polls)
  BY DEF IInv, Base, TypeOK, Rows, RowOrder, pollID
<1>2. recorded[last_seen_at[i]] \in 1..Len(results)
  BY <1>1 DEF Recorded
<1>3. /\ results[recorded[last_seen_at[i]]].verdict = "authoritative"
      /\ content[i] = Incidents[results[recorded[last_seen_at[i]]].payload][i]
  BY DEF RowsComeFromSnapshots, Exists, Null
<1>4. recorded'[last_seen_at'[i]] = recorded[last_seen_at[i]]
  BY <1>1
<1>5. QED
  BY <1>2, <1>3, <1>4

\* Taking a result adds the poll row that records it.
LEMMA RecordedTaken ==
  ASSUME HandOver, Recorded, Take, recorded' = Append(recorded, Len(results)),
         Len(polls) \in Nat, Len(polls') = Len(polls) + 1
  PROVE  /\ Recorded' /\ results' = results
         /\ \A p \in 1..Len(polls) : recorded'[p] = recorded[p]
         /\ recorded'[Len(polls')] = Len(results)
<1>1. results' = results /\ applied < Len(results) /\ applied \in Nat
      /\ Len(results) \in Nat
  BY DEF Take, clientVars, HandOver, ClientBase, ClientTypeOK
<1>2. Len(results) \in 1..Len(results)
  BY <1>1
<1>3. /\ recorded' \in Seq(Nat) /\ Len(recorded') = Len(polls) + 1
      /\ \A p \in 1..Len(polls) : recorded'[p] = recorded[p]
      /\ recorded'[Len(polls) + 1] = Len(results)
  BY <1>1, AppendFacts DEF Recorded
<1>4. \A p \in 1..Len(polls') : recorded'[p] \in 1..Len(results')
  BY <1>1, <1>2, <1>3 DEF Recorded
<1>5. QED
  BY <1>1, <1>3, <1>4 DEF Recorded

(***************************************************************************)
(* Every step of the loop keeps the origin of every row.                   *)
(***************************************************************************)
LEMMA ProvenanceInductive ==
  IInv /\ HandOver /\ Provenance /\ [IngesterNext]_ingesterVars => Provenance'
<1> SUFFICES ASSUME IInv, HandOver, Provenance, [IngesterNext]_ingesterVars
             PROVE  Provenance'
  OBVIOUS
<1>0. /\ Base /\ Recorded /\ Applying /\ RowsComeFromSnapshots
      /\ Len(polls) \in Nat /\ Len(results) \in Nat
      /\ [ClientNext]_clientVars
  BY StepOfBoth, LenProperties
  DEF IInv, Base, TypeOK, Provenance, HandOver, ClientBase, ClientTypeOK
<1>a. /\ Len(results') \in Nat /\ Len(results) <= Len(results')
      /\ \A k \in 1..Len(results) : results'[k] = results[k]
  BY <1>0, AnswersStay DEF HandOver
<1>1. ASSUME Recorded', Applying',
             \A p \in 1..Len(polls) : recorded'[p] = recorded[p],
             UNCHANGED <<content, last_seen_at>>
      PROVE  Provenance'
  <2>1. RowsComeFromSnapshots'
    <3>1. ASSUME NEW i \in Incident, last_seen_at'[i] # 0
          PROVE  LET n == recorded'[last_seen_at'[i]] IN
                 /\ results'[n].verdict = "authoritative"
                 /\ content'[i] = Incidents[results'[n].payload][i]
      BY <1>0, <1>a, <1>1, <3>1, OriginStays
    <3>2. QED
      BY <3>1 DEF RowsComeFromSnapshots, Exists, Null
  <2>2. QED
    BY <1>1, <2>1 DEF Provenance
<1>2. ASSUME UNCHANGED <<polls, recorded>>
      PROVE  Recorded' /\ \A p \in 1..Len(polls) : recorded'[p] = recorded[p]
  BY <1>0, <1>a, <1>2 DEF Recorded
<1>3. CASE Poll
  <2>1. UNCHANGED <<vars, recorded>> /\ pc = "idle"
    BY <1>3 DEF Poll
  <2>2. UNCHANGED <<polls, content, last_seen_at, pc>>
    BY <2>1 DEF vars, row
  <2>3. QED
    BY <1>1, <1>2, <2>1, <2>2 DEF Applying
<1>4. CASE ApplyRejected
  <2>1. /\ Take /\ RecordPoll /\ recorded' = Append(recorded, Len(results))
    BY <1>4 DEF ApplyRejected
  <2>2. /\ pc' = "idle" /\ UNCHANGED <<content, last_seen_at>>
        /\ polls' = Append(polls, [status |-> "failed", seen |-> {}])
    BY <2>1 DEF RecordPoll, row
  <2>3. Len(polls') = Len(polls) + 1
    BY <1>0, <2>2 DEF Base, TypeOK
  <2>4. Recorded' /\ \A p \in 1..Len(polls) : recorded'[p] = recorded[p]
    BY <1>0, <2>1, <2>3, RecordedTaken
  <2>5. QED
    BY <1>1, <2>2, <2>4 DEF Applying
<1>5. ASSUME NEW reply \in Reply, ApplyAuthoritative(reply)
      PROVE  Provenance'
  <2> DEFINE s == Incidents[LastResult.payload]
  <2>1. /\ Take /\ RecordPollPending(s, reply)
        /\ recorded' = Append(recorded, Len(results))
        /\ LastResult.verdict = "authoritative"
    BY <1>5 DEF ApplyAuthoritative
  <2>2. /\ pc' = "idle" \/ snapshot' = s
        /\ UNCHANGED <<content, last_seen_at>>
        /\ polls' = Append(polls, [status |-> "pending", seen |-> Observed(s)])
        /\ pc = "idle"
    BY <2>1 DEF RecordPollPending, row
  <2>3. Len(polls') = Len(polls) + 1
    BY <1>0, <2>2 DEF Base, TypeOK
  <2>4. /\ Recorded' /\ results' = results
        /\ \A p \in 1..Len(polls) : recorded'[p] = recorded[p]
        /\ recorded'[Len(polls')] = Len(results)
    BY <1>0, <2>1, <2>3, RecordedTaken
  <2>5. Applying'
    <3>1. pc' # "idle" =>
            /\ results'[recorded'[Len(polls')]].verdict = "authoritative"
            /\ snapshot' = Incidents[results'[recorded'[Len(polls')]].payload]
      BY <2>1, <2>2, <2>4 DEF LastResult
    <3>2. QED
      BY <3>1 DEF Applying
  <2>6. QED
    BY <1>1, <2>2, <2>4, <2>5
<1>6. CASE ApplyRefused
  <2>1. UNCHANGED <<polls, recorded, content, last_seen_at, pc>> /\ pc = "idle"
    BY <1>6 DEF ApplyRefused, Take, RecordPollRefused, row
  <2>2. QED
    BY <1>1, <1>2, <2>1 DEF Applying
<1>7. CASE ApplyStep
  <2>1. UNCHANGED <<results, recorded>>
    BY <1>7 DEF ApplyStep, clientVars
  <2>2. pc # "idle" /\ Len(polls') = Len(polls) /\ (pc' # "idle" => snapshot' = snapshot)
    <3>1. CASE Incident = {}
      <4>1. [Next]_vars /\ pc # "idle" /\ (pc' # "idle" => snapshot' = snapshot)
        BY <1>7 DEF ApplyStep, Next, UpsertIncident, MarkMissing, SweepCleared,
           RecordClearedEvents, MarkPollSucceeded, MarkPollFailed, Return
      <4>2. QED
        BY <1>0, <4>1, PollsStep
    <3>2. CASE Incident # {}
      BY <1>0, <1>7, <3>2, ContentStep
    <3>3. QED
      BY <3>1, <3>2
  <2>3. Recorded'
    BY <1>0, <2>1, <2>2 DEF Recorded
  <2>4. Applying'
    BY <1>0, <2>1, <2>2 DEF Applying
  <2>5. ASSUME NEW i \in Incident, last_seen_at'[i] # 0
        PROVE  LET n == recorded'[last_seen_at'[i]] IN
               /\ results'[n].verdict = "authoritative"
               /\ content'[i] = Incidents[results'[n].payload][i]
    <3>1. CASE content'[i] = content[i] /\ last_seen_at'[i] = last_seen_at[i]
      BY <1>0, <1>a, <2>1, <2>5, <3>1, OriginStays
    <3>2. CASE content'[i] = snapshot[i] /\ last_seen_at'[i] = Len(polls)
      BY <1>0, <2>1, <2>2, <3>2 DEF Applying
    <3>3. QED
      BY <1>0, <1>7, <3>1, <3>2, ContentStep
  <2>6. RowsComeFromSnapshots'
    BY <2>5 DEF RowsComeFromSnapshots, Exists, Null
  <2>7. QED
    BY <2>3, <2>4, <2>6 DEF Provenance
<1>8. CASE ProcessRestart
  <2>1. UNCHANGED <<polls, recorded, content, last_seen_at>> /\ pc' = "idle"
    BY <1>8 DEF ProcessRestart, Crash, Return, vars, row
  <2>2. QED
    BY <1>1, <1>2, <2>1 DEF Applying
<1>9. CASE UNCHANGED ingesterVars
  <2>1. UNCHANGED <<polls, recorded, content, last_seen_at, pc, snapshot, results>>
    BY <1>9 DEF ingesterVars, vars, row, clientVars
  <2>2. Applying'
    BY <1>0, <2>1 DEF Applying
  <2>3. QED
    BY <1>1, <1>2, <2>1, <2>2
<1>10. QED
  BY <1>3, <1>4, <1>5, <1>6, <1>7, <1>8, <1>9 DEF IngesterNext

(***************************************************************************)
(* No row shows what no accepted snapshot said: its content is that of the *)
(* authoritative answer its last sight records, across failed applies,     *)
(* lost replies and restarts (main.go 69-75 with lifecycle.go 52-70).      *)
(***************************************************************************)
THEOREM RowsComeFromSnapshotsCorrect == IngesterSpec => []RowsComeFromSnapshots
<1>1. IngesterInit => Provenance
  <2> SUFFICES ASSUME IngesterInit PROVE Provenance
    OBVIOUS
  <2>1. polls = <<>> /\ recorded = <<>> /\ pc = "idle"
    BY DEF IngesterInit, Init
  <2>2. Recorded
    BY <2>1 DEF Recorded
  <2>3. QED
    BY <2>1, <2>2 DEF IngesterInit, Init, Provenance, Applying,
       RowsComeFromSnapshots, Exists, Null
<1>2. Provenance => RowsComeFromSnapshots
  BY DEF Provenance
<1>3. QED
  BY <1>1, <1>2, IngesterInvariant, HandOverCorrect, ProvenanceInductive, PTL
  DEF IngesterSpec

-----------------------------------------------------------------------------
(***************************************************************************)
(* Polling and applying alternate: at most one answer is not yet taken,    *)
(* poll rows record answers in their order, and only authoritative ones    *)
(* are published.                                                          *)
(***************************************************************************)
Pace ==
  /\ applied \in Nat /\ applied <= Len(results) /\ Len(results) <= applied + 1
  /\ \A p \in 1..Len(polls) : recorded[p] <= applied
  /\ \A p, q \in 1..Len(polls) : p < q => recorded[p] < recorded[q]
  /\ pc # "idle" => applied = Len(results) /\ recorded[Len(polls)] = applied
  /\ \A p \in OkPolls : results[recorded[p]].verdict = "authoritative"

LEMMA PaceInductive ==
  IInv /\ HandOver /\ Provenance /\ Pace /\ [IngesterNext]_ingesterVars => Pace'
<1> SUFFICES ASSUME IInv, HandOver, Provenance, Pace, [IngesterNext]_ingesterVars
             PROVE  Pace'
  OBVIOUS
<1>0. /\ Base /\ Recorded /\ Applying /\ HandOver
      /\ Len(polls) \in Nat /\ Len(results) \in Nat /\ Len(results) <= Len(results)
      /\ [Next]_vars /\ [ClientNext]_clientVars
  BY StepOfBoth, LenProperties
  DEF IInv, Base, TypeOK, Provenance, HandOver, ClientBase, ClientTypeOK
<1>1. /\ Len(results') \in Nat /\ Len(results) <= Len(results')
      /\ Len(results') <= Len(results) + 1
      /\ \A k \in 1..Len(results) : results'[k] = results[k]
  BY <1>0, AnswersStay DEF HandOver
<1>2. /\ OkPolls \subseteq 1..Len(polls) /\ OkPolls' \subseteq 1..Len(polls')
      /\ \A p \in OkPolls' : p \notin OkPolls => pc = "succeed" /\ p = Len(polls)
  BY <1>0, PollsStep
<1>3. ASSUME Len(polls') = Len(polls), UNCHANGED recorded,
             applied' = applied \/ applied' = Len(results'),
             applied' \in Nat, applied' <= Len(results'), Len(results') <= applied' + 1,
             pc' # "idle" => pc # "idle" /\ UNCHANGED <<applied, results>>
      PROVE  Pace'
  <2>1. applied <= applied'
    BY <1>0, <1>1, <1>3 DEF Pace
  <2>2. \A p \in 1..Len(polls) : recorded[p] \in 1..Len(results) /\ recorded[p] <= applied
    BY DEF Pace, Provenance, Recorded
  <2>3. ASSUME NEW p \in 1..Len(polls') PROVE recorded'[p] <= applied'
    <3>0. p \in 1..Len(polls)
      BY <1>3
    <3>1. /\ recorded'[p] = recorded[p] /\ recorded[p] <= applied
          /\ recorded[p] \in 1..Len(results)
      BY <1>3, <2>2, <3>0
    <3>2. applied \in Nat /\ applied' \in Nat
      BY <1>3 DEF Pace
    <3>3. QED
      BY <2>1, <3>1, <3>2
  <2>4. \A p, q \in 1..Len(polls') : p < q => recorded'[p] < recorded'[q]
    BY <1>3 DEF Pace
  <2>5. pc' # "idle" => applied' = Len(results') /\ recorded'[Len(polls')] = applied'
    BY <1>3 DEF Pace
  <2>6. ASSUME NEW p \in OkPolls' PROVE results'[recorded'[p]].verdict = "authoritative"
    <3>1. p \in 1..Len(polls) /\ recorded'[p] = recorded[p]
      BY <1>2, <1>3
    <3>2. results'[recorded[p]] = results[recorded[p]]
      BY <1>1, <2>2, <3>1
    <3>3. CASE p \in OkPolls
      BY <3>1, <3>2, <3>3 DEF Pace
    <3>4. CASE p \notin OkPolls
      BY <1>0, <1>2, <3>1, <3>2, <3>4 DEF Applying
    <3>5. QED
      BY <3>3, <3>4
  <2>7. QED
    BY <1>3, <2>3, <2>4, <2>5, <2>6 DEF Pace
<1>4. ASSUME Take, recorded' = Append(recorded, Len(results)),
             Len(polls') = Len(polls) + 1
      PROVE  Pace'
  <2>1. /\ results' = results /\ applied' = Len(results)
        /\ applied < Len(results) /\ applied \in Nat /\ pc = "idle"
    BY <1>4 DEF Take, clientVars, Pace
  <2>2. /\ \A p \in 1..Len(polls) : recorded'[p] = recorded[p]
        /\ recorded'[Len(polls')] = Len(results)
    BY <1>0, <1>4, RecordedTaken
  <2>3. \A p \in 1..Len(polls) : recorded[p] \in 1..Len(results) /\ recorded[p] <= applied
    BY DEF Pace, Provenance, Recorded
  <2>4. \A p \in 1..Len(polls) : recorded'[p] < Len(results)
    BY <1>0, <2>1, <2>2, <2>3
  <2>5. \A p \in 1..Len(polls') : p \in 1..Len(polls) \/ p = Len(polls')
    BY <1>0, <1>4
  <2>6. ASSUME NEW p \in 1..Len(polls') PROVE recorded'[p] <= applied'
    <3>1. CASE p \in 1..Len(polls)
      <4>1. recorded'[p] \in 1..Len(results)
        BY <2>2, <2>3, <3>1
      <4>2. QED
        BY <1>0, <2>1, <4>1
    <3>2. CASE p = Len(polls')
      BY <1>0, <2>1, <2>2, <3>2
    <3>3. QED
      BY <2>5, <3>1, <3>2
  <2>7. ASSUME NEW p \in 1..Len(polls'), NEW q \in 1..Len(polls'), p < q
        PROVE  recorded'[p] < recorded'[q]
    <3>1. p \in 1..Len(polls)
      BY <1>0, <1>4, <2>7
    <3>2. CASE q \in 1..Len(polls)
      BY <2>2, <2>7, <3>1, <3>2 DEF Pace
    <3>3. CASE q = Len(polls')
      BY <2>2, <2>4, <3>1, <3>3
    <3>4. QED
      BY <2>5, <3>2, <3>3
  <2>8. ASSUME NEW p \in OkPolls' PROVE results'[recorded'[p]].verdict = "authoritative"
    <3>1. p \in OkPolls /\ p \in 1..Len(polls)
      BY <1>2, <2>1
    <3>2. QED
      BY <2>1, <2>2, <3>1 DEF Pace
  <2>9. QED
    BY <1>0, <2>1, <2>2, <2>6, <2>7, <2>8 DEF Pace
<1>5. CASE Poll
  <2>1. UNCHANGED <<vars, applied, recorded>> /\ pc = "idle" /\ applied = Len(results)
    BY <1>5 DEF Poll
  <2>2. UNCHANGED <<polls, pc>>
    BY <2>1 DEF vars
  <2>3. QED
    BY <1>0, <1>1, <1>3, <2>1, <2>2
<1>6. CASE ApplyRejected
  <2>1. Take /\ recorded' = Append(recorded, Len(results)) /\ Len(polls') = Len(polls) + 1
    BY <1>0, <1>6 DEF ApplyRejected, RecordPoll, Base, TypeOK
  <2>2. QED
    BY <1>4, <2>1
<1>7. ASSUME NEW reply \in Reply, ApplyAuthoritative(reply)
      PROVE  Pace'
  <2>1. Take /\ recorded' = Append(recorded, Len(results)) /\ Len(polls') = Len(polls) + 1
    BY <1>0, <1>7 DEF ApplyAuthoritative, RecordPollPending, Base, TypeOK
  <2>2. QED
    BY <1>4, <2>1
<1>8. CASE ApplyRefused
  <2>1. UNCHANGED <<polls, recorded, pc, results>> /\ pc = "idle" /\ applied' = Len(results)
    BY <1>8 DEF ApplyRefused, Take, RecordPollRefused, clientVars
  <2>2. QED
    BY <1>0, <1>3, <2>1
<1>9. CASE ApplyStep
  <2>1. UNCHANGED <<results, recorded, applied>> /\ pc # "idle"
    BY <1>9 DEF ApplyStep, clientVars, UpsertIncident, MarkMissing, SweepCleared,
       RecordClearedEvents, MarkPollSucceeded, MarkPollFailed
  <2>2. Len(polls') = Len(polls)
    BY <1>0, <2>1, PollsStep
  <2>3. QED
    BY <1>3, <2>1, <2>2 DEF Pace
<1>10. CASE ProcessRestart
  <2>1. UNCHANGED <<polls, recorded, results>> /\ pc' = "idle" /\ applied' = Len(results)
    BY <1>10 DEF ProcessRestart, Crash, Return, vars, Restart
  <2>2. QED
    BY <1>0, <1>3, <2>1
<1>11. CASE UNCHANGED ingesterVars
  <2>1. UNCHANGED <<polls, recorded, applied, results, pc>>
    BY <1>11 DEF ingesterVars, vars, clientVars
  <2>2. QED
    BY <1>3, <2>1 DEF Pace
<1>12. QED
  BY <1>5, <1>6, <1>7, <1>8, <1>9, <1>10, <1>11 DEF IngesterNext

(***************************************************************************)
(* Every authoritative answer of this process that the database did not    *)
(* take has met a fault of its own, which pays for it.                     *)
(***************************************************************************)
Taken(n) == \E p \in OkPolls : recorded[p] = n

Missed ==
  {n \in Authoritative :
     /\ n <= applied
     /\ ~Taken(n)
     /\ pc \in {"idle", "fail"} \/ n # applied}

Bill == faults \in Nat /\ Cardinality(Missed) <= faults

LEMMA MissedFinite == ASSUME HandOver PROVE IsFiniteSet(Missed)
<1>1. Authoritative \subseteq 1..Len(results) /\ 1 \in Int /\ Len(results) \in Int
  BY CountedFacts DEF HandOver
<1>2. IsFiniteSet(1..Len(results))
  BY <1>1, FS_Interval
<1>3. Missed \subseteq 1..Len(results)
  BY <1>1 DEF Missed
<1>4. QED
  BY <1>2, <1>3, FS_Subset

LEMMA OneMore ==
  ASSUME NEW S, IsFiniteSet(S), NEW x, NEW T, T \subseteq S \union {x}
  PROVE  Cardinality(T) <= Cardinality(S) + 1
<1>1. /\ IsFiniteSet(S \union {x}) /\ Cardinality(S) \in Nat
      /\ Cardinality(S \union {x}) <= Cardinality(S) + 1
      /\ Cardinality(S \union {x}) \in Nat
  BY FS_AddElement, FS_CardinalityType
<1>2. IsFiniteSet(T) /\ Cardinality(T) <= Cardinality(S \union {x})
  BY <1>1, FS_Subset
<1>3. Cardinality(T) \in Nat
  BY <1>2, FS_CardinalityType
<1>4. QED
  BY <1>1, <1>2, <1>3

\* Taking a result: what was missed stays, and the result may be missed too.
LEMMA MissedTaken ==
  ASSUME IInv, HandOver, Provenance, Pace, Take, [Next]_vars,
         \A p \in 1..Len(polls) : recorded'[p] = recorded[p]
  PROVE  /\ Missed' \subseteq Missed \union {Len(results)}
         /\ applied' = Len(results) /\ Authoritative' = Authoritative
<1>0. Base /\ Len(results) \in Nat
  BY DEF IInv, HandOver, ClientBase, ClientTypeOK
<1>1. /\ pc = "idle" /\ applied < Len(results) /\ applied' = Len(results)
      /\ UNCHANGED <<results, bornAt>> /\ applied \in Nat /\ Len(results) <= applied + 1
  BY DEF Take, clientVars, Pace
<1>2. Authoritative' = Authoritative
  BY <1>1 DEF Authoritative, Counted
<1>3. OkPolls \subseteq OkPolls' /\ OkPolls \subseteq 1..Len(polls)
  BY <1>0, PollsStep
<1>4. ASSUME NEW n \in Missed', n # Len(results) PROVE n \in Missed
  <2>1. n \in Authoritative /\ n <= Len(results) /\ ~Taken(n)'
    BY <1>1, <1>2 DEF Missed
  <2>2. ~Taken(n)
    BY <1>3, <2>1 DEF Taken
  <2>3. n \in Nat
    BY <2>1, CountedFacts DEF HandOver
  <2>4. n <= applied
    BY <1>0, <1>1, <1>4, <2>1, <2>3
  <2>5. QED
    BY <1>1, <2>1, <2>2, <2>4 DEF Missed
<1>5. QED
  BY <1>1, <1>2, <1>4

(***************************************************************************)
(* A step adds no missed answer, or one together with a fault.             *)
(***************************************************************************)
LEMMA MissedStep ==
  ASSUME IInv, HandOver, Provenance, Pace, [IngesterNext]_ingesterVars
  PROVE  \/ Missed' \subseteq Missed /\ faults' \in {faults, faults + 1}
         \/ \E x : Missed' \subseteq Missed \union {x} /\ faults' = faults + 1
<1>0. /\ Base /\ Recorded /\ Applying /\ ClientBase
      /\ Len(polls) \in Nat /\ Len(results) \in Nat
      /\ [Next]_vars /\ [ClientNext]_clientVars
  BY StepOfBoth, LenProperties
  DEF IInv, Base, TypeOK, Provenance, HandOver, ClientBase, ClientTypeOK
<1>1. CASE Poll
  <2>1. /\ UNCHANGED <<vars, applied, recorded>> /\ applied = Len(results)
        /\ UNCHANGED <<polls, pc, faults>>
    BY <1>1 DEF Poll, vars
  <2>2. \A n \in Authoritative' : n <= Len(results) => n \in Authoritative
    <3>1. CASE Restart
      <4>1. bornAt' = Len(results') /\ Len(results') \in Nat
        BY <1>0, <3>1 DEF Restart
      <4>2. QED
        BY <4>1 DEF Authoritative, Counted
    <3>2. CASE UNCHANGED <<results, bornAt>>
      BY <3>2 DEF Authoritative, Counted
    <3>3. ASSUME UNCHANGED bornAt, NEW r \in PollResult, Finish(r)
          PROVE  \A n \in Authoritative' : n <= Len(results) => n \in Authoritative
      <4>1. \A n \in Authoritative' : n \in Authoritative \/ n = Len(results) + 1
        BY <1>0, <3>3, AnswerAdded
      <4>2. QED
        BY <1>0, <4>1
    <3>4. QED
      BY <1>0, <3>1, <3>2, <3>3, StepAnswers
  <2>3. \A n : Taken(n)' = Taken(n)
    BY <2>1 DEF Taken, OkPolls
  <2>4. Missed' \subseteq Missed
    BY <2>1, <2>2, <2>3 DEF Missed
  <2>5. QED
    BY <2>1, <2>4
<1>2. CASE ApplyRejected
  <2>1. Take /\ LastResult.verdict # "authoritative" /\ faults' = faults
        /\ recorded' = Append(recorded, Len(results)) /\ Len(polls') = Len(polls) + 1
    BY <1>0, <1>2 DEF ApplyRejected, RecordPoll, Base, TypeOK
  <2>2. \A p \in 1..Len(polls) : recorded'[p] = recorded[p]
    BY <1>0, <2>1, RecordedTaken
  <2>3. Missed' \subseteq Missed \union {Len(results)} /\ Authoritative' = Authoritative
    BY <1>0, <2>1, <2>2, MissedTaken
  <2>4. Len(results) \notin Authoritative
    BY <2>1 DEF Authoritative, LastResult
  <2>5. \A n \in Missed' : n \in Authoritative'
    BY DEF Missed
  <2>6. QED
    BY <2>1, <2>3, <2>4, <2>5
<1>3. ASSUME NEW reply \in Reply, ApplyAuthoritative(reply)
      PROVE  \/ Missed' \subseteq Missed /\ faults' = faults
             \/ Missed' \subseteq Missed \union {Len(results)} /\ faults' = faults + 1
  <2>1. /\ Take /\ RecordPollPending(Incidents[LastResult.payload], reply)
        /\ recorded' = Append(recorded, Len(results)) /\ Len(polls') = Len(polls) + 1
    BY <1>0, <1>3 DEF ApplyAuthoritative, RecordPollPending, Base, TypeOK
  <2>2. \A p \in 1..Len(polls) : recorded'[p] = recorded[p]
    BY <1>0, <2>1, RecordedTaken
  <2>3. Missed' \subseteq Missed \union {Len(results)} /\ applied' = Len(results)
    BY <1>0, <2>1, <2>2, MissedTaken
  <2>4. CASE reply = "ok"
    <3>1. pc' = "upsert" /\ faults' = faults
      BY <2>1, <2>4 DEF RecordPollPending, Reports
    <3>2. Len(results) \notin Missed'
      BY <2>3, <3>1 DEF Missed
    <3>3. QED
      BY <2>3, <3>1, <3>2
  <2>5. CASE reply # "ok"
    BY <2>1, <2>3, <2>5 DEF RecordPollPending, Reports
  <2>6. QED
    BY <2>4, <2>5
<1>4. CASE ApplyRefused
  <2>1. Take /\ recorded' = recorded /\ faults' = faults + 1
    BY <1>4 DEF ApplyRefused, RecordPollRefused, Reports
  <2>2. QED
    BY <1>0, <2>1, MissedTaken
<1>5. CASE ApplyStep
  <2>1. UNCHANGED <<results, bornAt, recorded, applied>> /\ pc # "idle"
    BY <1>5 DEF ApplyStep, clientVars, UpsertIncident, MarkMissing, SweepCleared,
       RecordClearedEvents, MarkPollSucceeded, MarkPollFailed
  <2>2. Authoritative' = Authoritative
    BY <2>1 DEF Authoritative, Counted
  <2>3. OkPolls \subseteq OkPolls'
    BY <1>0, PollsStep
  <2>4. \A n : Taken(n) => Taken(n)'
    BY <2>1, <2>3 DEF Taken
  <2>5. \A n \in Missed' : n # applied => n \in Missed
    BY <2>1, <2>2, <2>4 DEF Missed
  <2>6. \/ faults' = faults + 1
        \/ faults' = faults /\ pc' \notin {"idle", "fail"}
        \/ faults' = faults /\ pc = "fail"
        \/ faults' = faults /\ pc = "succeed" /\ SetStatus(pollID, "success")
    BY <1>5 DEF ApplyStep, UpsertIncident, MarkMissing, SweepCleared,
       RecordClearedEvents, MarkPollSucceeded, MarkPollFailed, Reports, Committed
  <2>7. CASE faults' = faults + 1
    BY <2>5, <2>7
  <2>8. ASSUME faults' = faults, applied \notin Missed' \/ applied \in Missed
        PROVE  Missed' \subseteq Missed /\ faults' = faults
    BY <2>5, <2>8
  <2>9. pc' \notin {"idle", "fail"} => applied \notin Missed'
    BY <2>1 DEF Missed
  <2>10. pc = "fail" => (applied \notin Missed' \/ applied \in Missed)
    BY <2>1, <2>2, <2>4 DEF Missed
  <2>11. pc = "succeed" /\ SetStatus(pollID, "success") => applied \notin Missed'
    <3>1. SUFFICES ASSUME pc = "succeed", SetStatus(pollID, "success")
                   PROVE  applied \notin Missed'
      OBVIOUS
    <3>2. pollID \in 1..Len(polls) /\ "success" \in Status /\ polls \in Seq(PollRow)
      BY <1>0, <3>1 DEF Base, InFlight, TypeOK, Status, pollID
    <3>3. Len(polls) \in OkPolls'
      BY <3>1, <3>2, SetStatusFacts DEF OkPolls, pollID
    <3>4. recorded[Len(polls)] = applied
      BY <2>1 DEF Pace
    <3>5. Taken(applied)'
      BY <2>1, <3>3, <3>4 DEF Taken
    <3>6. QED
      BY <2>1, <3>5 DEF Missed
  <2>12. QED
    BY <2>6, <2>7, <2>8, <2>9, <2>10, <2>11
<1>6. CASE ProcessRestart
  <2>1. bornAt' = Len(results') /\ Len(results') \in Nat
    BY <1>0, <1>6 DEF ProcessRestart, Restart
  <2>2. Missed' = {}
    BY <2>1 DEF Missed, Authoritative, Counted
  <2>3. faults' \in {faults, faults + 1}
    BY <1>6 DEF ProcessRestart, Crash, vars
  <2>4. QED
    BY <2>2, <2>3
<1>7. CASE UNCHANGED ingesterVars
  <2>1. UNCHANGED <<polls, pc, faults, applied, recorded, results, bornAt>>
    BY <1>7 DEF ingesterVars, vars, clientVars
  <2>2. Authoritative' = Authoritative /\ \A n : Taken(n)' = Taken(n)
    BY <2>1 DEF Authoritative, Counted, Taken, OkPolls
  <2>3. Missed' = Missed
    BY <2>1, <2>2 DEF Missed
  <2>4. QED
    BY <2>1, <2>3
<1>8. QED
  BY <1>1, <1>2, <1>3, <1>4, <1>5, <1>6, <1>7 DEF IngesterNext

LEMMA BillInductive ==
  ASSUME IInv, HandOver, Provenance, Pace, Bill, [IngesterNext]_ingesterVars
  PROVE  Bill'
<1>1. IsFiniteSet(Missed) /\ Cardinality(Missed) \in Nat /\ faults \in Nat
  BY MissedFinite, FS_CardinalityType DEF Bill
<1>2. CASE Missed' \subseteq Missed /\ faults' \in {faults, faults + 1}
  <2>1. IsFiniteSet(Missed') /\ Cardinality(Missed') <= Cardinality(Missed)
    BY <1>1, <1>2, FS_Subset
  <2>2. Cardinality(Missed') \in Nat
    BY <2>1, FS_CardinalityType
  <2>3. QED
    BY <1>1, <1>2, <2>1, <2>2 DEF Bill
<1>3. ASSUME NEW x, Missed' \subseteq Missed \union {x}, faults' = faults + 1
      PROVE  Bill'
  <2>1. Cardinality(Missed') <= Cardinality(Missed) + 1
    BY <1>1, <1>3, OneMore
  <2>2. IsFiniteSet(Missed')
    <3>1. IsFiniteSet(Missed \union {x})
      BY <1>1, FS_AddElement
    <3>2. QED
      BY <1>3, <3>1, FS_Subset
  <2>3. Cardinality(Missed') \in Nat
    BY <2>2, FS_CardinalityType
  <2>4. QED
    BY <1>1, <1>3, <2>1, <2>3 DEF Bill
<1>4. QED
  BY <1>2, <1>3, MissedStep

(***************************************************************************)
(* Once given up as frozen with a reason, a poll stays so: what is         *)
(* published and what has failed is only added to.                         *)
(***************************************************************************)
FrozenPaid(n) ==
  results[n].verdict = "frozen" =>
    \/ \E p \in OkPolls : recorded[p] \in RunUpTo(n)
    \/ faults >= FrozenRepeatCount - 1

LEMMA PaidStays ==
  ASSUME IInv, HandOver, Provenance, Pace, [IngesterNext]_ingesterVars,
         faults' \in {faults, faults + 1}, faults \in Nat,
         \A p \in 1..Len(polls) : recorded'[p] = recorded[p],
         NEW n, FrozenPaid(n), results'[n] = results[n], RunUpTo(n)' = RunUpTo(n)
  PROVE  FrozenPaid(n)'
<1>1. OkPolls \subseteq OkPolls' /\ OkPolls \subseteq 1..Len(polls)
  BY StepOfBoth, PollsStep DEF IInv
<1>2. FrozenRepeatCount \in Nat
  BY PolicyAssumption
<1>3. CASE results'[n].verdict # "frozen"
  BY <1>3 DEF FrozenPaid
<1>4. CASE \E p \in OkPolls : recorded[p] \in RunUpTo(n)
  BY <1>1, <1>4 DEF FrozenPaid
<1>5. CASE faults >= FrozenRepeatCount - 1
  BY <1>2, <1>5 DEF FrozenPaid
<1>6. QED
  BY <1>3, <1>4, <1>5 DEF FrozenPaid

\* A poll that comes out frozen is paid for: had none of its run been
\* published, its authoritative polls would all have been missed.
LEMMA FrozenIsPaid ==
  ASSUME HandOver, Pace, Bill, Poll, NEW r \in PollResult, Finish(r), UNCHANGED bornAt,
         NEW N, N = Len(results) + 1, r.verdict = "frozen", RunsBegin'
  PROVE  FrozenPaid(N)'
<1>0. /\ ClientBase /\ UNCHANGED <<polls, pc, faults, applied, recorded>>
      /\ pc = "idle" /\ applied = Len(results)
  BY DEF HandOver, Poll, vars
<1>1. /\ results'[N] = r /\ N \in Counted' /\ Authoritative' = Authoritative
      /\ Authoritative \subseteq 1..Len(results) /\ Len(results) \in Nat
  BY <1>0, AnswerAdded, CountedFacts
<1>2. Cardinality(RunUpTo(N)' \cap Authoritative) >= FrozenRepeatCount - 1
  BY <1>1 DEF RunsBegin, AuthoritativeOf
<1>3. CASE \E a \in RunUpTo(N)' \cap Authoritative : Taken(a)
  <2>1. PICK a \in RunUpTo(N)' : Taken(a)
    BY <1>3
  <2>2. PICK p \in OkPolls : recorded[p] = a
    BY <2>1 DEF Taken
  <2>3. p \in OkPolls' /\ recorded'[p] \in RunUpTo(N)'
    BY <1>0, <2>1, <2>2 DEF OkPolls
  <2>4. QED
    BY <2>3 DEF FrozenPaid
<1>4. CASE \A a \in RunUpTo(N)' \cap Authoritative : ~Taken(a)
  <2>0. ASSUME NEW a \in RunUpTo(N)' \cap Authoritative PROVE a \in Missed
    <3>1. a \in Authoritative /\ ~Taken(a)
      BY <1>4
    <3>2. a \in 1..Len(results)
      BY <1>1, <3>1
    <3>3. a <= applied
      BY <1>0, <1>1, <3>2
    <3>4. QED
      BY <1>0, <3>1, <3>3 DEF Missed
  <2>1. RunUpTo(N)' \cap Authoritative \subseteq Missed
    BY <2>0
  <2>2. IsFiniteSet(Missed) /\ Cardinality(Missed) \in Nat
    BY MissedFinite, FS_CardinalityType
  <2>3. /\ Cardinality(RunUpTo(N)' \cap Authoritative) <= Cardinality(Missed)
        /\ IsFiniteSet(RunUpTo(N)' \cap Authoritative)
    BY <2>1, <2>2, FS_Subset
  <2>4. Cardinality(RunUpTo(N)' \cap Authoritative) \in Nat
    BY <2>3, FS_CardinalityType
  <2>5. FrozenRepeatCount \in Nat
    BY PolicyAssumption
  <2>6. faults' >= FrozenRepeatCount - 1
    BY <1>0, <1>2, <2>2, <2>3, <2>4, <2>5 DEF Bill
  <2>7. QED
    BY <2>6 DEF FrozenPaid
<1>5. QED
  BY <1>3, <1>4

LEMMA PaidInductive ==
  ASSUME IInv, HandOver, Provenance, Pace, Bill, RunsBegin', FrozenBeforePublished,
         [IngesterNext]_ingesterVars
  PROVE  FrozenBeforePublished'
<1>0. /\ ClientBase /\ Base /\ Recorded /\ [ClientNext]_clientVars /\ [Next]_vars
      /\ Len(polls) \in Nat
  BY StepOfBoth, LenProperties DEF HandOver, IInv, Base, TypeOK, Provenance
<1>1. faults' \in {faults, faults + 1} /\ faults \in Nat
  BY MissedStep DEF Bill
<1>2. \A n \in Counted : FrozenPaid(n)
  BY Zenon DEF FrozenBeforePublished, FrozenPaid
<1>3. \A p \in 1..Len(polls) : recorded'[p] = recorded[p]
  <2>1. CASE UNCHANGED recorded
    BY <2>1
  <2>2. CASE Take /\ recorded' = Append(recorded, Len(results))
    <3>1. Len(results) \in Nat
      BY <1>0 DEF ClientBase, ClientTypeOK
    <3>2. QED
      BY <1>0, <2>2, <3>1, AppendFacts DEF Recorded
  <2>3. QED
    BY <2>1, <2>2 DEF IngesterNext, ingesterVars, Poll, ApplyRejected, ApplyAuthoritative,
       ApplyRefused, ApplyStep, ProcessRestart
<1>4. (\A n \in Counted' : FrozenPaid(n)') => FrozenBeforePublished'
  BY Zenon DEF FrozenBeforePublished, FrozenPaid
<1>5. CASE Restart
  <2>1. bornAt' = Len(results') /\ Len(results') \in Nat
    BY <1>0, <1>5 DEF Restart, ClientBase, ClientTypeOK
  <2>2. Counted' = {}
    BY <2>1 DEF Counted
  <2>3. QED
    BY <1>4, <2>2
<1>6. CASE UNCHANGED <<results, bornAt>>
  <2>1. Counted' = Counted
    BY <1>6 DEF Counted
  <2>2. \A n \in Counted : RunUpTo(n)' = RunUpTo(n) /\ results'[n] = results[n]
    BY <1>6, <2>1 DEF RunUpTo
  <2>3. \A n \in Counted : FrozenPaid(n)'
    BY <1>1, <1>2, <1>3, <2>2, PaidStays
  <2>4. QED
    BY <1>4, <2>1, <2>3
<1>7. ASSUME UNCHANGED bornAt, NEW r \in PollResult, Finish(r)
      PROVE  FrozenBeforePublished'
  <2>1. PICK N : N = Len(results) + 1
    OBVIOUS
  <2>2. /\ results'[N] = r /\ \A n \in Counted : results'[n] = results[n]
        /\ \A n \in Counted' : n \in Counted \/ n = N
    BY <1>0, <1>7, <2>1, AnswerAdded
  <2>3. \A n \in Counted : FrozenPaid(n)'
    BY <1>0, <1>1, <1>2, <1>3, <1>7, <2>2, RunsStand, PaidStays
  <2>4. Poll
    <3>1. results' # results
      BY <1>0, <1>7, <2>1 DEF Finish, ClientBase, ClientTypeOK
    <3>2. QED
      BY <3>1 DEF IngesterNext, ingesterVars, ApplyRejected, ApplyAuthoritative,
         ApplyRefused, ApplyStep, ProcessRestart, Take, Restart, clientVars
  <2>5. r.verdict = "frozen" => FrozenPaid(N)'
    BY <1>7, <2>1, <2>4, FrozenIsPaid
  <2>6. r.verdict # "frozen" => FrozenPaid(N)'
    BY <2>2 DEF FrozenPaid
  <2>7. QED
    BY <1>4, <2>2, <2>3, <2>5, <2>6
<1>8. QED
  BY <1>0, <1>5, <1>6, <1>7, StepAnswers

(***************************************************************************)
(* The whole invariant of the loop.                                        *)
(***************************************************************************)
LoopInv == Provenance /\ Pace /\ Bill /\ FrozenBeforePublished

LEMMA LoopInvCorrect == IngesterSpec => [](LoopInv /\ IInv /\ HandOver /\ ClientInv)
<1>1. IngesterInit => LoopInv
  <2> SUFFICES ASSUME IngesterInit PROVE LoopInv
    OBVIOUS
  <2>1. /\ polls = <<>> /\ recorded = <<>> /\ pc = "idle" /\ results = <<>>
        /\ applied = 0 /\ faults = 0 /\ bornAt = 0
    BY DEF IngesterInit, Init, ClientInit
  <2>2. Provenance
    BY <2>1 DEF IngesterInit, Init, Provenance, Recorded, Applying,
       RowsComeFromSnapshots, Exists, Null
  <2>3. Pace
    BY <2>1 DEF Pace, OkPolls
  <2>4. Counted = {} /\ Missed = {}
    BY <2>1 DEF Counted, Missed, Authoritative
  <2>5. Cardinality(Missed) = 0
    BY <2>4, FS_EmptySet
  <2>6. QED
    BY <2>1, <2>2, <2>3, <2>4, <2>5 DEF LoopInv, Bill, FrozenBeforePublished
<1>2. /\ IInv /\ HandOver /\ LoopInv /\ RunsBegin' /\ [IngesterNext]_ingesterVars
      => LoopInv'
  BY ProvenanceInductive, PaceInductive, BillInductive, PaidInductive DEF LoopInv
<1>3. QED
  BY <1>1, <1>2, IngesterInvariant, HandOverCorrect, ComponentsKeptCorrect,
     ClientInvCorrect, RunsBeginCorrect, PTL DEF IngesterSpec, ComponentsKept

(***************************************************************************)
(* A payload that no poll has published is given up as frozen only after   *)
(* as many faults as authoritative polls the threshold allows (Poll 233,   *)
(* Apply): one passing error never makes the ingester skip a snapshot.     *)
(***************************************************************************)
THEOREM FrozenBeforePublishedCorrect == IngesterSpec => []FrozenBeforePublished
<1>1. LoopInv => FrozenBeforePublished
  BY DEF LoopInv
<1>2. QED
  BY <1>1, LoopInvCorrect, PTL

-----------------------------------------------------------------------------
(***************************************************************************)
(* A sweep that clears on the word of one snapshot would have counted      *)
(* CLEAR_AFTER_MISSES published polls of it and the one being applied, and *)
(* that many repetitions are frozen.                                       *)
(***************************************************************************)
LEMMA ClearingNeedsNews ==
  ASSUME FrozenRepeatCount <= ClearAfterMisses + 1,
         IInv, HandOver, ClientInv, LoopInv,
         pc = "sweep", NEW i \in Ripe,
         bornAt < recorded[missing_since[i]],
         FeatureCount[LastResult.payload] # 0,
         \A n \in Counted : n >= recorded[missing_since[i]] =>
           results[n].payload = LastResult.payload
  PROVE  FALSE
<1> DEFINE m == missing_since[i]
           L == Len(results)
           S == OkSince(m)
           D == S \union {Len(polls)}
<1>0. /\ Base /\ Recorded /\ Applying /\ Pace /\ VerdictsInv /\ ClientBase
      /\ Len(polls) \in Nat /\ L \in Nat /\ bornAt \in Nat /\ bornAt <= L
      /\ DOMAIN polls = 1..Len(polls)
  BY LenProperties, CountedFacts DEF IInv, Base, TypeOK, LoopInv, Provenance, ClientInv
<1>1. m \in 1..Len(polls) /\ Cardinality(S) >= ClearAfterMisses
  <2>1. i \in Incident /\ m # 0 /\ Cardinality(S) >= ClearAfterMisses
    BY DEF Ripe, Null
  <2>2. m <= Len(polls) /\ m \in Nat
    BY <1>0, <2>1 DEF IInv, Rows, RowOrder, Base, TypeOK, pollID, Null
  <2>3. QED
    BY <1>0, <2>1, <2>2
<1>2. /\ Len(polls) \in 1..Len(polls) /\ Len(polls) \notin OkPolls
      /\ recorded[Len(polls)] = L
      /\ results[L].verdict = "authoritative" /\ LastResult = results[L]
  BY <1>0 DEF Base, InFlight, pollID, OkPolls, Pace, Applying, LastResult
<1>3. \A p \in S : p \in OkPolls /\ p \in 1..Len(polls) /\ p >= m
  BY <1>0 DEF OkSince, OkPolls
<1> HIDE DEF S
<1>4. \A p \in D : p \in 1..Len(polls) /\ p >= m
  BY <1>0, <1>1, <1>2, <1>3
<1>5. \A p \in D : results[recorded[p]].verdict = "authoritative"
  BY <1>0, <1>2, <1>3 DEF Pace
<1>6. recorded[m] \in 1..L /\ bornAt < recorded[m]
  BY <1>0, <1>1 DEF Recorded
<1>7. ASSUME NEW p \in D
      PROVE  recorded[p] \in Counted /\ recorded[p] >= recorded[m] /\ recorded[p] <= L
  <2>1. p \in 1..Len(polls) /\ p >= m /\ recorded[p] \in 1..L
    BY <1>0, <1>4 DEF Recorded
  <2>2. recorded[p] >= recorded[m]
    <3>1. CASE p = m
      BY <1>6, <3>1
    <3>2. CASE p # m
      <4>1. m < p
        BY <1>1, <2>1, <3>2
      <4>2. recorded[m] < recorded[p]
        BY <1>0, <1>1, <2>1, <4>1 DEF Pace
      <4>3. QED
        BY <1>6, <2>1, <4>2
    <3>3. QED
      BY <3>1, <3>2
  <2>3. recorded[p] \in (bornAt + 1)..L
    <3>1. \A a, b, c, d \in Nat : a < b /\ b <= c /\ c <= d => c \in (a + 1)..d
      OBVIOUS
    <3>2. /\ bornAt \in Nat /\ L \in Nat /\ recorded[p] \in Nat /\ recorded[p] <= L
      BY <1>0, <2>1
    <3>3. recorded[m] \in Nat
      BY <1>0, <1>6
    <3>4. bornAt < recorded[m]
      BY <1>6
    <3> HIDE DEF L, m
    <3>5. QED
      BY <2>2, <3>1, <3>2, <3>3, <3>4
  <2>4. QED
    BY <1>5, <2>1, <2>2, <2>3 DEF Counted
<1>8. Len(polls) \in D /\ L \in Counted
  BY <1>2, <1>7
<1>9. ASSUME NEW p \in D PROVE recorded[p] \in RunUpTo(L)
  <2>1. recorded[p] \in Counted /\ recorded[p] >= recorded[m] /\ recorded[p] <= L
    BY <1>7
  <2>2. ASSUME NEW j \in Counted, j \in recorded[p]..L
        PROVE  results[j].payload = results[L].payload
    <3>1. recorded[p] \in Nat /\ j \in Nat
      <4>1. Counted \subseteq 1..L
        BY <1>0, CountedFacts
      <4>2. recorded[p] \in 1..L /\ j \in 1..L
        BY <2>1, <2>2, <4>1
      <4>3. \A k \in 1..L : k \in Nat
        BY <1>0
      <4> HIDE DEF L
      <4>4. QED
        BY <4>2, <4>3
    <3>2. j >= recorded[m]
      BY <1>6, <2>1, <2>2, <3>1
    <3>3. QED
      BY <1>2, <3>2
  <2>3. QED
    BY <2>1, <2>2 DEF RunUpTo
<1>10. CountOf(L) > 0 /\ results[L].verdict # "frozen"
  <2>1. CountOf(L) \in Nat /\ CountOf(L) # 0
    BY <1>0, <1>2, <1>8, CountedFacts DEF CountOf
  <2>2. QED
    BY <1>2, <2>1
<1>11. ~(Cardinality(RunUpTo(L)) >= FrozenRepeatCount)
  BY <1>0, <1>8, <1>10 DEF VerdictsInv, FrozenAt
<1>12. IsFiniteSet(S) /\ IsFiniteSet(RunUpTo(L))
  <2>1. 1 \in Int /\ Len(polls) \in Int /\ L \in Int
    BY <1>0
  <2>2. IsFiniteSet(1..Len(polls)) /\ IsFiniteSet(1..L)
    BY <2>1, FS_Interval
  <2>3. S \subseteq 1..Len(polls)
    BY <1>3
  <2>4. RunUpTo(L) \subseteq 1..L
    BY <1>0, CountedFacts DEF RunUpTo
  <2>5. QED
    BY <2>2, <2>3, <2>4, FS_Subset
<1>13. /\ IsFiniteSet(D) /\ Cardinality(D) = Cardinality(S) + 1
       /\ Cardinality(S) \in Nat /\ Cardinality(RunUpTo(L)) \in Nat
  BY <1>2, <1>3, <1>12, FS_AddElement, FS_CardinalityType
<1>14. Cardinality(D) <= Cardinality(RunUpTo(L))
  <2> DEFINE f == [p \in D |-> recorded[p]]
  <2>1. f \in [D -> RunUpTo(L)]
    BY <1>9
  <2>2. ASSUME NEW p \in D, NEW q \in D, f[p] = f[q] PROVE p = q
    <3>1. p \in 1..Len(polls) /\ q \in 1..Len(polls) /\ recorded[p] = recorded[q]
      BY <1>4, <2>2
    <3>2. recorded[p] \in 1..L /\ recorded[q] \in 1..L
      BY <1>0, <3>1 DEF Recorded
    <3>3. \A k \in 1..L : ~(k < k)
      BY <1>0
    <3>4. \A a, b \in 1..Len(polls) : a < b => recorded[a] < recorded[b]
      BY <1>0 DEF Pace
    <3> HIDE DEF f, D, L
    <3>5. ~(p < q) /\ ~(q < p)
      <4>1. ASSUME p < q PROVE FALSE
        <5>1. recorded[p] < recorded[q]
          BY <3>1, <3>4, <4>1, Zenon
        <5>2. recorded[p] < recorded[p]
          BY <3>1, <5>1, Zenon
        <5>3. QED
          BY <3>2, <3>3, <5>2, Zenon
      <4>2. ASSUME q < p PROVE FALSE
        <5>1. recorded[q] < recorded[p]
          BY <3>1, <3>4, <4>2, Zenon
        <5>2. recorded[p] < recorded[p]
          BY <3>1, <5>1, Zenon
        <5>3. QED
          BY <3>2, <3>3, <5>2, Zenon
      <4>3. QED
        BY <4>1, <4>2
    <3>6. p \in Nat /\ q \in Nat
      BY <1>0, <3>1
    <3>7. QED
      BY <3>5, <3>6
  <2> HIDE DEF f, D
  <2>3. IsInjective(f)
    BY <2>1, <2>2 DEF IsInjective
  <2>4. f \in Injection(D, RunUpTo(L))
    BY <2>1, <2>3 DEF Injection
  <2>5. QED
    BY <1>12, <1>13, <2>4, FS_Injection
<1> HIDE DEF D
<1>15. FrozenRepeatCount \in Nat /\ ClearAfterMisses \in Nat
  BY PolicyAssumption, ClearAfterMissesAssumption
<1>16. QED
  BY <1>1, <1>11, <1>13, <1>14, <1>15

(***************************************************************************)
(* Only a sweep clears.                                                    *)
(***************************************************************************)
LEMMA OnlySweepsClear ==
  ASSUME IInv, [Next]_vars, NEW i \in Incident, cleared_at[i] = Null, cleared_at'[i] # Null
  PROVE  pc = "sweep" /\ i \in Ripe
<1>1. cleared_at \in [Incident -> Nat]
  BY DEF IInv, Base, TypeOK
<1>2. ~(UNCHANGED cleared_at)
  OBVIOUS
<1>3. ASSUME NEW j \in Incident, NEW reply \in Reply, UpsertIncident(j, reply)
      PROVE  FALSE
  BY <1>1, <1>2, <1>3 DEF UpsertIncident, UpsertRow, row
<1>4. ASSUME NEW reply \in Reply, SweepCleared(reply)
      PROVE  pc = "sweep" /\ i \in Ripe
  BY <1>1, <1>2, <1>4 DEF SweepCleared
<1>5. QED
  BY <1>2, <1>3, <1>4 DEF Next, vars, row, RecordPoll, RecordPollPending,
     RecordPollRefused, MarkMissing, RecordClearedEvents, MarkPollSucceeded,
     MarkPollFailed, Crash

(***************************************************************************)
(* A snapshot the source merely repeats clears nothing (Poll 233 with      *)
(* SweepCleared 845-883), when FROZEN_REPEAT_COUNT is at most              *)
(* CLEAR_AFTER_MISSES + 1 - which nothing in config.Load ensures.          *)
(***************************************************************************)
THEOREM FrozenFeedClearsNothingCorrect ==
  ASSUME FrozenRepeatCount <= ClearAfterMisses + 1
  PROVE  IngesterSpec => FrozenFeedClearsNothing
<1> DEFINE News(i) ==
      LET first == recorded[missing_since[i]] IN
      \/ bornAt >= first
      \/ FeatureCount[LastResult.payload] = 0
      \/ \E n \in Counted : n >= first /\ results[n].payload # LastResult.payload
<1>1. ASSUME LoopInv, IInv, HandOver, ClientInv, [IngesterNext]_ingesterVars,
             NEW i \in Incident, cleared_at[i] = Null, cleared_at'[i] # Null
      PROVE  News(i)
  <2>1. pc = "sweep" /\ i \in Ripe
    BY <1>1, StepOfBoth, OnlySweepsClear
  <2>2. SUFFICES ASSUME ~News(i) PROVE FALSE
    OBVIOUS
  <2>3. recorded[missing_since[i]] \in Nat /\ bornAt \in Nat
    <3>1. missing_since[i] \in 1..Len(polls)
      BY <1>1, <2>1 DEF IInv, Rows, RowOrder, Base, TypeOK, pollID, Ripe, Null
    <3>2. recorded[missing_since[i]] \in 1..Len(results)
      BY <1>1, <3>1 DEF LoopInv, Provenance, Recorded
    <3>3. QED
      BY <1>1, <3>2, CountedFacts DEF HandOver
  <2>4. bornAt < recorded[missing_since[i]]
    BY <2>2, <2>3
  <2>5. QED
    BY <1>1, <2>1, <2>2, <2>4, ClearingNeedsNews
<1>2. LoopInv /\ IInv /\ HandOver /\ ClientInv /\ [IngesterNext]_ingesterVars
      => [\A i \in Incident :
            cleared_at[i] = Null /\ cleared_at'[i] # Null => News(i)]_ingesterVars
  BY <1>1
<1>3. QED
  BY <1>2, LoopInvCorrect, PTL DEF IngesterSpec, FrozenFeedClearsNothing
=============================================================================
