----------------------------- MODULE ApiProofs -----------------------------
(***************************************************************************)
(* Proofs about what the API answers.  The feed: the ingester beside the   *)
(* reader is the one of Lifecycle, so its invariants hold here, and every  *)
(* answer is right at the moment it is given although its statements share *)
(* no snapshot.  The status: how long it takes to tell the truth of the    *)
(* source, for every pacing.                                               *)
(***************************************************************************)
EXTENDS ActiveFeed, SourceStatus, LifecycleProofs

-----------------------------------------------------------------------------
(***************************************************************************)
(* The reader writes nothing the ingester reads.                           *)
(***************************************************************************)
LEMMA FeedStep == [FeedNext]_feedVars => [Next]_vars
BY DEF FeedNext, feedVars, ApplyStep, ReadMeta, ListIncidents, GetIncident,
   GetIncidentEvents, ReadFails

(***************************************************************************)
(* The reads of the API never disturb a poll that is being applied: with   *)
(* the reader hidden, the composition is the lifecycle (store.go 319-386,  *)
(* 689-708 are reads only).                                                *)
(***************************************************************************)
THEOREM FeedLeavesLifecycle == FeedSpec => Spec
<1>1. FeedInit => Init
  BY DEF FeedInit
<1>2. QED
  BY <1>1, FeedStep, PTL DEF FeedSpec, Spec

LEMMA FeedLifecycle == FeedSpec => [](IInv /\ LogsAgree)
BY FeedLeavesLifecycle, LogsCorrect, PTL

(***************************************************************************)
(* What a store call of the ingester does to a row: its reopenings only    *)
(* grow, and it is seen again only by the poll in flight, which carries it *)
(***************************************************************************)
LEMMA RowStep ==
  ASSUME Base, [Next]_vars, NEW i \in Incident
  PROVE  /\ reopen_count[i] \in Nat /\ reopen_count'[i] \in Nat
         /\ reopen_count[i] <= reopen_count'[i]
         /\ last_seen_at[i] \in Nat
         /\ \/ last_seen_at'[i] = last_seen_at[i]
            \/ /\ pc = "upsert" /\ Len(polls) > 0
               /\ i \in polls[Len(polls)].seen
               /\ last_seen_at'[i] = Len(polls)
<1>1. /\ reopen_count[i] \in Nat /\ last_seen_at[i] \in Nat
      /\ pc = "upsert" => /\ todo \subseteq polls[Len(polls)].seen
                          /\ Len(polls) > 0
  BY DEF Base, TypeOK, InFlight, pollID
<1>2. CASE UNCHANGED row
  BY <1>1, <1>2 DEF row
<1>3. CASE \E j \in todo : pc = "upsert" /\ UpsertRow(j)
  <2>1. PICK j \in todo : pc = "upsert" /\ UpsertRow(j)
    BY <1>3
  <2>2. CASE j = i
    <3>1. last_seen_at'[i] = Len(polls)
      BY <2>1, <2>2 DEF UpsertRow, Base, TypeOK, pollID
    <3>2. reopen_count'[i] = IF cleared_at[i] # Null THEN reopen_count[i] + 1 ELSE reopen_count[i]
      BY <2>1, <2>2 DEF UpsertRow, Base, TypeOK
    <3>3. QED
      BY <1>1, <2>1, <2>2, <3>1, <3>2
  <2>3. CASE j # i
    <3>1. last_seen_at'[i] = last_seen_at[i] /\ reopen_count'[i] = reopen_count[i]
      BY <2>1, <2>3 DEF UpsertRow, Base, TypeOK
    <3>2. QED
      BY <1>1, <3>1
  <2>4. QED
    BY <2>2, <2>3
<1>4. CASE UNCHANGED <<last_seen_at, reopen_count>>
  BY <1>1, <1>4
<1>5. UNCHANGED <<last_seen_at, reopen_count>> \/ \E j \in todo : pc = "upsert" /\ UpsertRow(j)
  BY DEF Next, vars, row, RecordPoll, RecordPollPending, RecordPollRefused,
     UpsertIncident, MarkMissing, SweepCleared, RecordClearedEvents,
     MarkPollSucceeded, MarkPollFailed, Crash
<1>6. QED
  BY <1>3, <1>4, <1>5

-----------------------------------------------------------------------------
(***************************************************************************)
(* What the reader holds between its statements.                           *)
(***************************************************************************)
HasLatest(S) == \E p \in S \union {Null} : \A q \in S : q <= p

ReaderTypeOK ==
  /\ notes \in Seq(Classification)
  /\ Len(notes) = pollID
  /\ rpc \in {"idle", "list", "incident", "events"}
  /\ meta \in Meta
  /\ found \in FoundRow \union {NoRow}
  /\ rpc = "events" <=> found # NoRow

\* Every row names a poll that carried it as its last sight.
SeenInPoll ==
  \A i \in Incident : Exists(i) =>
    last_seen_at[i] \in DOMAIN polls /\ i \in polls[last_seen_at[i]].seen

Held ==
  /\ meta.success \in OkPolls \union {Null}
  /\ rpc = "events" =>
       Exists(found.incident) /\ found.reopened <= reopen_count[found.incident]

ReaderInv ==
  /\ ReaderTypeOK
  /\ HasLatest(OkPolls)
  /\ HasLatest(Attempts)
  /\ SeenInPoll
  /\ Held

(***************************************************************************)
(* The newest of a set of polls that has one.                              *)
(***************************************************************************)
LEMMA LatestIn ==
  ASSUME NEW S, HasLatest(S)
  PROVE  /\ Latest(S) \in S \union {Null}
         /\ \A q \in S : q <= Latest(S)
<1>1. Latest(S) = CHOOSE p \in S \union {Null} : \A q \in S : q <= p
  BY DEF Latest
<1>2. QED
  BY <1>1, Zenon DEF HasLatest

\* A set of polls keeps a newest one when only later polls join it.
LEMMA LatestStep ==
  ASSUME NEW n \in Nat, NEW S, S \subseteq 1 .. n, HasLatest(S),
         NEW m \in Nat, n <= m, NEW T, S \subseteq T, T \subseteq S \union {m}
  PROVE  HasLatest(T)
<1>1. CASE m \in T
  BY <1>1 DEF HasLatest, Null
<1>2. CASE m \notin T
  <2>1. S = T
    BY <1>2
  <2>2. QED
    BY <2>1
<1>3. QED
  BY <1>1, <1>2

\* A poll that has been settled stays an attempt, and only the poll applied
\* or recorded in a step becomes one.
LEMMA AttemptsStep ==
  ASSUME Base, [Next]_vars
  PROVE  /\ Attempts \subseteq 1 .. Len(polls)
         /\ Attempts \subseteq Attempts'
         /\ Attempts' \subseteq Attempts \union {Len(polls')}
<1>1. /\ Len(polls) \in Nat /\ DOMAIN polls = 1 .. Len(polls)
      /\ polls \in Seq(PollRow)
      /\ pc # "idle" => Len(polls) \in 1 .. Len(polls)
  BY LenProperties DEF Base, TypeOK, InFlight, pollID
<1>2. CASE UNCHANGED polls
  BY <1>1, <1>2 DEF Attempts
<1>3. ASSUME NEW r \in PollRow, polls' = Append(polls, r)
      PROVE  Attempts \subseteq Attempts' /\ Attempts' \subseteq Attempts \union {Len(polls')}
  <2>1. /\ DOMAIN polls' = 1 .. (Len(polls) + 1) /\ Len(polls') = Len(polls) + 1
        /\ \A j \in 1 .. Len(polls) : polls'[j] = polls[j]
    BY <1>1, <1>3, AppendFacts
  <2>2. QED
    BY <1>1, <2>1 DEF Attempts
<1>4. ASSUME NEW s \in {"success", "failed"}, pc # "idle", SetStatus(Len(polls), s)
      PROVE  Attempts \subseteq Attempts' /\ Attempts' \subseteq Attempts \union {Len(polls')}
  <2>1. s \in Status
    BY DEF Status
  <2>2. /\ DOMAIN polls' = 1 .. Len(polls) /\ Len(polls') = Len(polls)
        /\ \A q \in 1 .. Len(polls) : q # Len(polls) => polls'[q] = polls[q]
        /\ polls'[Len(polls)].status = s
    BY <1>1, <1>4, <2>1, SetStatusFacts
  <2>3. \A p \in 1 .. Len(polls) :
          /\ polls[p].status # "pending" => polls'[p].status # "pending"
          /\ polls'[p].status # "pending" => p = Len(polls) \/ polls[p].status # "pending"
    BY <1>1, <2>2
  <2>4. QED
    BY <1>1, <2>2, <2>3 DEF Attempts
<1>5. QED
  <2>1. CASE \E r \in PollRow : polls' = Append(polls, r)
    BY <1>1, <1>3, <2>1 DEF Attempts
  <2>2. CASE pc = "succeed" /\ SetStatus(Len(polls), "success")
    BY <1>1, <1>4, <2>2 DEF Attempts
  <2>3. CASE pc = "fail" /\ SetStatus(Len(polls), "failed")
    BY <1>1, <1>4, <2>3 DEF Attempts
  <2>4. QED
    BY <1>1, <1>2, <2>1, <2>2, <2>3, PollsCases DEF Attempts, pollID

LEMMA ReaderInit == FeedInit => ReaderInv
<1> SUFFICES ASSUME FeedInit PROVE ReaderInv
  OBVIOUS
<1>1. OkPolls = {} /\ Attempts = {} /\ DOMAIN polls = {}
  BY DEF FeedInit, Init, OkPolls, Attempts
<1>2. ReaderTypeOK
  <2>1. notes \in Seq(Classification) /\ Len(notes) = pollID
    BY DEF FeedInit, Init, pollID
  <2>2. meta \in Meta
    BY DEF FeedInit, Meta, NoMeta, Null
  <2>3. QED
    BY <2>1, <2>2 DEF FeedInit, ReaderTypeOK
<1>3. HasLatest({})
  BY DEF HasLatest, Null
<1>4. SeenInPoll
  BY DEF FeedInit, Init, SeenInPoll, Exists, Null
<1>5. Held
  BY DEF FeedInit, Held, NoMeta, Null
<1>6. QED
  BY <1>1, <1>2, <1>3, <1>4, <1>5 DEF ReaderInv

(***************************************************************************)
(* A store call between two statements leaves what the reader holds true.  *)
(***************************************************************************)
LEMMA ReaderApply == Base /\ ReaderInv /\ ApplyStep => ReaderInv'
<1> SUFFICES ASSUME Base, ReaderInv, ApplyStep PROVE ReaderInv'
  OBVIOUS
<1>0. [Next]_vars /\ UNCHANGED <<rpc, meta, found>> /\ Len(polls) \in Nat
  BY LenProperties DEF ApplyStep, Base, TypeOK
<1>1. ReaderTypeOK'
  <2>1. CASE pollID' = pollID /\ UNCHANGED notes
    BY <1>0, <2>1 DEF ReaderInv, ReaderTypeOK
  <2>2. ASSUME NEW c \in Classification, pollID' = pollID + 1, notes' = Append(notes, c)
        PROVE  ReaderTypeOK'
    <3>1. notes' \in Seq(Classification) /\ Len(notes') = Len(notes) + 1
      BY <2>2, AppendFacts DEF ReaderInv, ReaderTypeOK
    <3>2. QED
      BY <1>0, <2>2, <3>1 DEF ReaderInv, ReaderTypeOK
  <2>3. QED
    BY <2>1, <2>2 DEF ApplyStep
<1>2. HasLatest(OkPolls')
  <2>1. /\ Len(polls) <= Len(polls)
        /\ OkPolls \subseteq 1 .. Len(polls) /\ OkPolls \subseteq OkPolls'
        /\ OkPolls' \subseteq OkPolls \union {Len(polls)}
    BY <1>0, PollsStep
  <2>2. HasLatest(OkPolls)
    BY DEF ReaderInv
  <2>3. QED
    BY <1>0, <2>1, <2>2, LatestStep, Zenon
<1>3. HasLatest(Attempts')
  <2>1. /\ Len(polls') \in Nat /\ Len(polls) <= Len(polls')
    BY <1>0, PollsStep
  <2>2. HasLatest(Attempts)
    BY DEF ReaderInv
  <2>3. QED
    BY <1>0, <2>1, <2>2, AttemptsStep, LatestStep
<1>4. SeenInPoll'
  <2>1. /\ DOMAIN polls = 1 .. Len(polls) /\ DOMAIN polls' = 1 .. Len(polls')
        /\ \A p \in 1 .. Len(polls) : polls'[p].seen = polls[p].seen
        /\ Len(polls') \in Nat /\ Len(polls) <= Len(polls')
    <3>1. polls \in Seq(PollRow) /\ polls' \in Seq(PollRow)
      BY <1>0, BaseInductive DEF Base, TypeOK
    <3>2. DOMAIN polls = 1 .. Len(polls) /\ DOMAIN polls' = 1 .. Len(polls')
      BY <3>1, LenProperties
    <3>3. QED
      BY <1>0, <3>2, PollsStep
  <2>2. ASSUME NEW i \in Incident, last_seen_at'[i] # 0
        PROVE  /\ last_seen_at'[i] \in DOMAIN polls'
               /\ i \in (polls'[last_seen_at'[i]]).seen
    <3>1. CASE last_seen_at'[i] = last_seen_at[i]
      <4>1. last_seen_at[i] \in 1 .. Len(polls) /\ i \in polls[last_seen_at[i]].seen
        BY <2>1, <2>2, <3>1 DEF ReaderInv, SeenInPoll, Exists, Null
      <4>2. QED
        BY <1>0, <2>1, <3>1, <4>1
    <3>2. CASE /\ Len(polls) > 0
               /\ i \in polls[Len(polls)].seen
               /\ last_seen_at'[i] = Len(polls)
      <4>1. Len(polls) \in 1 .. Len(polls) /\ Len(polls) \in 1 .. Len(polls')
        BY <1>0, <2>1, <3>2
      <4>2. QED
        BY <2>1, <3>2, <4>1
    <3>3. QED
      BY <1>0, <3>1, <3>2, RowStep
  <2>3. QED
    BY <2>2 DEF SeenInPoll, Exists, Null
<1>5. Held'
  <2>1. meta'.success \in OkPolls' \union {Null}
    BY <1>0, PollsStep DEF ReaderInv, Held
  <2>2. ASSUME rpc' = "events"
        PROVE  /\ last_seen_at'[found'.incident] # 0
               /\ found'.reopened <= reopen_count'[found'.incident]
    <3>1. /\ found' = found /\ found \in FoundRow
          /\ last_seen_at[found.incident] # 0
          /\ found.reopened <= reopen_count[found.incident]
      BY <1>0, <2>2 DEF ReaderInv, ReaderTypeOK, Held, Exists, Null
    <3>2. found.incident \in Incident /\ found.reopened \in Nat
      BY <3>1 DEF FoundRow
    <3>3. /\ reopen_count[found.incident] \in Nat /\ reopen_count'[found.incident] \in Nat
          /\ reopen_count[found.incident] <= reopen_count'[found.incident]
      BY <1>0, <3>2, RowStep
    <3>4. last_seen_at'[found.incident] # 0
      BY <1>0, <3>1, <3>2, RowStep
    <3>5. QED
      BY <3>1, <3>2, <3>3, <3>4
  <2>3. QED
    BY <2>1, <2>2 DEF Held, Exists, Null
<1>6. QED
  BY <1>1, <1>2, <1>3, <1>4, <1>5 DEF ReaderInv

(***************************************************************************)
(* The statements of a request keep it as well.                            *)
(***************************************************************************)
LEMMA ReaderStatement ==
  ASSUME Base, ReaderInv, UNCHANGED <<vars, notes>>,
         ReaderTypeOK', Held'
  PROVE  ReaderInv'
BY DEF ReaderInv, SeenInPoll, vars, row, HasLatest, OkPolls, Attempts, Exists

LEMMA MetaRead ==
  ASSUME Base, ReaderInv
  PROVE  SourcePollMeta \in Meta /\ LastSuccess \in OkPolls \union {Null}
<1>1. /\ DOMAIN polls = 1 .. Len(polls) /\ Len(polls) \in Nat
      /\ DOMAIN notes = 1 .. Len(polls) /\ notes \in Seq(Classification)
  <2>1. polls \in Seq(PollRow) /\ notes \in Seq(Classification) /\ Len(notes) = Len(polls)
    BY DEF Base, TypeOK, ReaderInv, ReaderTypeOK, pollID
  <2>2. QED
    BY <2>1, LenProperties
<1>2. LastSuccess \in OkPolls \union {Null} /\ LastSuccess \in Nat
  <2>1. LastSuccess \in OkPolls \union {Null}
    BY LatestIn DEF ReaderInv, LastSuccess
  <2>2. OkPolls \subseteq Nat /\ Null \in Nat
    BY <1>1 DEF OkPolls, Null
  <2>3. QED
    BY <2>1, <2>2, Zenon
<1>3. Attempts # {} => notes[Latest(Attempts)] \in Classification
  <2>1. ASSUME Attempts # {} PROVE Latest(Attempts) \in 1 .. Len(polls)
    <3>1. Latest(Attempts) \in Attempts \union {Null}
      BY LatestIn DEF ReaderInv
    <3>2. \A q \in Attempts : q <= Latest(Attempts)
      BY LatestIn DEF ReaderInv
    <3>3. PICK q \in Attempts : q \in 1 .. Len(polls)
      BY <1>1, <2>1 DEF Attempts
    <3>4. q <= Latest(Attempts)
      BY <3>2
    <3>5. Attempts \subseteq 1 .. Len(polls)
      BY <1>1 DEF Attempts
    <3>6. Latest(Attempts) # Null
      BY <1>1, <3>3, <3>4 DEF Null
    <3>7. QED
      BY <3>1, <3>5, <3>6
  <2>2. QED
    BY <1>1, <2>1, ElementOfSeq
<1>4. ConsecutiveFailures \in Nat
  <2> DEFINE other == Latest({p \in Attempts : notes[p] # "failure"})
             S == {p \in Attempts :
                     p > other /\ polls[p].status = "failed" /\ notes[p] = "failure"}
  <2>1. S \subseteq 1 .. Len(polls) /\ IsFiniteSet(1 .. Len(polls))
    BY <1>1, FS_Interval DEF Attempts
  <2>2. Cardinality(S) \in Nat
    BY <2>1, FS_Subset, FS_CardinalityType
  <2>3. QED
    BY <2>2 DEF ConsecutiveFailures
<1> HIDE DEF LastSuccess
<1>5. QED
  BY <1>2, <1>3, <1>4 DEF SourcePollMeta, Meta

LEMMA ReaderInductive == Base /\ ReaderInv /\ [FeedNext]_feedVars => ReaderInv'
<1> SUFFICES ASSUME Base, ReaderInv, [FeedNext]_feedVars PROVE ReaderInv'
  OBVIOUS
<1>0. ReaderTypeOK /\ Held /\ NoMeta \in Meta /\ NoRow \notin FoundRow
  BY DEF ReaderInv, NoMeta, Meta, NoRow, FoundRow, Null
<1>1. CASE ApplyStep
  BY <1>1, ReaderApply
<1>2. ASSUME NEW a, Respond(a), UNCHANGED <<vars, notes>>
      PROVE  ReaderInv'
  <2>1. ReaderTypeOK'
    BY <1>0, <1>2 DEF Respond, ReaderTypeOK, pollID, vars
  <2>2. Held'
    BY <1>2 DEF Respond, Held, NoMeta
  <2>3. QED
    BY <1>2, <2>1, <2>2, ReaderStatement
<1>3. ASSUME NEW statement \in {"list", "incident"}, ReadMeta(statement)
      PROVE  ReaderInv'
  <2>1. meta' \in Meta /\ meta'.success \in OkPolls \union {Null}
    BY <1>3, MetaRead DEF ReadMeta, SourcePollMeta
  <2>2. /\ UNCHANGED <<vars, notes, found>> /\ rpc = "idle"
        /\ rpc' \in {"list", "incident"}
    BY <1>3 DEF ReadMeta
  <2>3. ReaderTypeOK'
    BY <1>0, <2>1, <2>2 DEF ReaderTypeOK, pollID, vars
  <2>4. Held'
    BY <2>1, <2>2 DEF Held, OkPolls, vars
  <2>5. QED
    BY <2>2, <2>3, <2>4, ReaderStatement
<1>4. ASSUME NEW i \in Incident, GetIncident(i), Exists(i)
      PROVE  ReaderInv'
  <2> DEFINE f == [incident |-> i, seen |-> last_seen_at[i],
                   cleared |-> cleared_at[i], reopened |-> reopen_count[i]]
  <2>1. /\ rpc' = "events" /\ found' = f
        /\ UNCHANGED <<vars, notes, meta>>
    BY <1>4 DEF GetIncident
  <2>2. /\ last_seen_at[i] \in Nat \ {Null} /\ cleared_at[i] \in Nat
        /\ reopen_count[i] \in Nat
    BY <1>4 DEF Base, TypeOK, Exists
  <2>3. f \in FoundRow /\ f.reopened = reopen_count[i] /\ f.incident = i
    BY <2>2 DEF FoundRow
  <2> HIDE DEF f
  <2>4. ReaderTypeOK'
    BY <1>0, <2>1, <2>3 DEF ReaderTypeOK, pollID, vars
  <2>5. reopen_count' = reopen_count /\ OkPolls' = OkPolls
    BY <2>1 DEF vars, row, OkPolls
  <2>6. reopen_count[i] <= reopen_count[i]
    BY <2>2
  <2>7. Held'
    BY <1>0, <1>4, <2>1, <2>3, <2>5, <2>6 DEF Held, Exists, vars, row
  <2>8. QED
    BY <2>1, <2>4, <2>7, ReaderStatement
<1>5. CASE UNCHANGED feedVars
  <2>1. UNCHANGED <<vars, notes, rpc, meta, found>>
    BY <1>5 DEF feedVars, reader
  <2>2. ReaderTypeOK' /\ Held'
    BY <1>0, <2>1 DEF ReaderTypeOK, Held, Exists, pollID, vars, row, OkPolls
  <2>3. QED
    BY <2>1, <2>2, ReaderStatement
<1>6. CASE ReadFails
  BY <1>2, <1>6 DEF ReadFails
<1>7. ASSUME NEW sdr \in SdrRows, NEW fresh \in BOOLEAN, ListIncidents(sdr, fresh)
      PROVE  ReaderInv'
  BY <1>2, <1>7 DEF ListIncidents
<1>8. ASSUME NEW fresh \in BOOLEAN, GetIncidentEvents(fresh)
      PROVE  ReaderInv'
  BY <1>2, <1>8 DEF GetIncidentEvents
<1>9. ASSUME NEW i \in Incident, GetIncident(i), ~Exists(i)
      PROVE  ReaderInv'
  BY <1>2, <1>9 DEF GetIncident
<1>10. QED
  BY <1>1, <1>3, <1>4, <1>5, <1>6, <1>7, <1>8, <1>9 DEF FeedNext

LEMMA ReaderCorrect == FeedSpec => [](IInv /\ LogsAgree /\ ReaderInv)
<1>1. IInv => Base
  BY DEF IInv
<1>2. QED
  BY <1>1, FeedLifecycle, ReaderInit, ReaderInductive, PTL DEF FeedSpec

(***************************************************************************)
(* Every variable of the reader keeps its type, the classification of the  *)
(* newest attempt included, which is looked up in a log that grows beside  *)
(* the request.                                                            *)
(***************************************************************************)
THEOREM FeedTypeCorrect == FeedSpec => []FeedTypeOK
<1>1. IInv /\ ReaderInv => FeedTypeOK
  BY DEF IInv, Base, ReaderInv, ReaderTypeOK, FeedTypeOK
<1>2. QED
  BY <1>1, ReaderCorrect, PTL

-----------------------------------------------------------------------------
(***************************************************************************)
(* What a step answers, and that an answer changes nothing.                *)
(***************************************************************************)
LEMMA AnswerCases ==
  ASSUME [FeedNext]_feedVars
  PROVE  \/ answer'.kind = "none"
         \/ UNCHANGED <<vars, answer>>
         \/ /\ UNCHANGED vars
            /\ \E sdr \in SdrRows, fresh \in BOOLEAN : answer' = ListAnswer(sdr, fresh)
         \/ /\ UNCHANGED vars
            /\ \E i \in Incident :
                 ~Exists(i)
                 /\ answer' = [kind |-> "not_found", asOf |-> meta.success, incident |-> i]
         \/ /\ UNCHANGED vars /\ rpc = "events"
            /\ \E fresh \in BOOLEAN :
                 answer' = DetailAnswer(events[found.incident], fresh)
BY DEF FeedNext, feedVars, reader, ApplyStep, ReadMeta, ListIncidents, GetIncident,
   GetIncidentEvents, ReadFails, Respond, NoAnswer

(***************************************************************************)
(* An incident of a published poll that is not on the list any more was    *)
(* cleared, after enough later successes.                                  *)
(***************************************************************************)
LEMMA OutlivedWhenUnlisted ==
  ASSUME IInv, NEW p \in OkPolls, NEW i \in polls[p].seen
  PROVE  /\ i \in Incident /\ Exists(i) /\ last_seen_at[i] >= p
         /\ cleared_at[i] # Null => Cardinality(OkSince(p + 1)) >= ClearAfterMisses
<1>1. /\ polls \in Seq(PollRow) /\ Len(polls) \in Nat /\ DOMAIN polls = 1 .. Len(polls)
  BY LenProperties DEF IInv, Base, TypeOK
<1>2. p \in 1 .. Len(polls) /\ OkPolls \subseteq 1 .. Len(polls)
  BY <1>1 DEF OkPolls
<1>3. i \in Incident
  <2>1. polls[p] \in PollRow
    BY <1>1, <1>2, ElementOfSeq
  <2>2. QED
    BY <2>1 DEF PollRow
<1>4. last_seen_at[i] >= p /\ last_seen_at[i] \in Nat /\ cleared_at[i] \in Nat
  BY <1>3 DEF IInv, Rows, PublishedPollApplied, Base, TypeOK
<1>5. Exists(i)
  BY <1>2, <1>4 DEF Exists, Null
<1>6. ASSUME cleared_at[i] # Null
      PROVE  Cardinality(OkSince(p + 1)) >= ClearAfterMisses
  <2>1. Cardinality(OkSince(cleared_at[i])) >= ClearAfterMisses
    BY <1>3, <1>6 DEF IInv, Counts, ClearedCount
  <2>2. last_seen_at[i] < cleared_at[i]
    BY <1>3, <1>6 DEF IInv, Rows, RowOrder
  <2>3. OkSince(cleared_at[i]) \subseteq OkSince(p + 1)
    <3>1. cleared_at[i] >= p + 1
      BY <1>2, <1>4, <2>2
    <3>2. \A q \in OkPolls : q \in Nat /\ (q >= cleared_at[i] => q >= p + 1)
      BY <1>2, <1>4, <3>1
    <3>3. QED
      BY <3>2 DEF OkSince
  <2>4. IsFiniteSet(OkSince(p + 1))
    <3>1. IsFiniteSet(1 .. Len(polls))
      <4>1. 1 \in Int /\ Len(polls) \in Int
        BY <1>1
      <4>2. QED
        BY <4>1, FS_Interval
    <3>2. OkSince(p + 1) \subseteq 1 .. Len(polls)
      BY <1>2 DEF OkSince
    <3>3. QED
      BY <3>1, <3>2, FS_Subset
  <2>5. /\ Cardinality(OkSince(cleared_at[i])) <= Cardinality(OkSince(p + 1))
        /\ Cardinality(OkSince(cleared_at[i])) \in Nat
        /\ Cardinality(OkSince(p + 1)) \in Nat
    BY <2>3, <2>4, FS_Subset, FS_CardinalityType
  <2>6. QED
    BY <2>1, <2>5, ClearAfterMissesAssumption
<1>7. QED
  BY <1>3, <1>4, <1>5, <1>6

(***************************************************************************)
(* The feed is complete as of the success it names.                        *)
(***************************************************************************)
LEMMA ListedInductive ==
  IInv /\ ReaderInv /\ ListedUnlessOutlived /\ [FeedNext]_feedVars
    => ListedUnlessOutlived'
<1> SUFFICES ASSUME IInv, ReaderInv, ListedUnlessOutlived, [FeedNext]_feedVars
             PROVE  ListedUnlessOutlived'
  OBVIOUS
<1>1. CASE answer'.kind \in {"none", "not_found", "detail"}
  BY <1>1 DEF ListedUnlessOutlived
<1>2. CASE UNCHANGED <<vars, answer>>
  BY <1>2 DEF ListedUnlessOutlived, vars, row, OkSince, OkPolls
<1>3. ASSUME UNCHANGED vars, NEW sdr \in SdrRows, NEW fresh \in BOOLEAN,
             answer' = ListAnswer(sdr, fresh)
      PROVE  ListedUnlessOutlived'
  <2>1. answer'.asOf = meta.success /\ answer'.listed = Listed
    BY <1>3 DEF ListAnswer
  <2>2. ASSUME meta.success # Null, NEW i \in polls[meta.success].seen \ Listed
        PROVE  \/ content[i] \notin Wanted
               \/ Cardinality(OkSince(meta.success + 1)) >= ClearAfterMisses
    <3>1. meta.success \in OkPolls
      BY <2>2 DEF ReaderInv, Held
    <3>2. QED
      BY <2>2, <3>1, OutlivedWhenUnlisted DEF Listed, Active
  <2>3. QED
    BY <1>3, <2>1, <2>2 DEF ListedUnlessOutlived, vars, row, OkSince, OkPolls
<1>4. QED
  BY <1>1, <1>2, <1>3, AnswerCases DEF DetailAnswer

\* An answer lists every incident that the success it names carried, unless
\* the filter leaves it out or so many polls have succeeded since that it was
\* cleared in between (ListActiveIncidents, store.go 319-386).
THEOREM ListedUnlessOutlivedCorrect == FeedSpec => []ListedUnlessOutlived
<1>1. FeedInit => ListedUnlessOutlived
  BY DEF FeedInit, ListedUnlessOutlived, NoAnswer
<1>2. QED
  BY <1>1, ListedInductive, ReaderCorrect, PTL DEF FeedSpec

(***************************************************************************)
(* A row of sdr_audio is in no poll, and its last sight is its promotion.  *)
(***************************************************************************)
LEMMA PromotedIsUnpolled ==
  ASSUME IInv, NEW sdr \in SdrRows, NEW d \in DOMAIN sdr
  PROVE  d \notin Incident /\ \A p \in DOMAIN polls : d \notin polls[p].seen
<1>1. d \notin Incident
  BY SdrAssumption DEF SdrRows
<1>2. ASSUME NEW p \in DOMAIN polls
      PROVE  d \notin polls[p].seen
  <2>1. polls[p] \in PollRow
    BY LenProperties, ElementOfSeq DEF IInv, Base, TypeOK
  <2>2. QED
    BY <1>1, <2>1 DEF PollRow
<1>3. QED
  BY <1>1, <1>2

(***************************************************************************)
(* A row of the polled source is confirmed because the success the list    *)
(* names, or a later poll, carried it: the row's last sight is such a      *)
(* poll.  A row of sdr_audio is confirmed because it was promoted since.   *)
(***************************************************************************)
LEMMA ConfirmedInductive ==
  IInv /\ ReaderInv /\ ConfirmedForCause /\ [FeedNext]_feedVars
    => ConfirmedForCause'
<1> SUFFICES ASSUME IInv, ReaderInv, ConfirmedForCause, [FeedNext]_feedVars
             PROVE  ConfirmedForCause'
  OBVIOUS
<1>1. CASE answer'.kind \in {"none", "not_found", "detail"}
  BY <1>1 DEF ConfirmedForCause
<1>2. CASE UNCHANGED <<vars, answer>>
  BY <1>2 DEF ConfirmedForCause, vars, row
<1>3. ASSUME UNCHANGED vars, NEW sdr \in SdrRows, NEW fresh \in BOOLEAN,
             answer' = ListAnswer(sdr, fresh)
      PROVE  ConfirmedForCause'
  <2> DEFINE Shown == {i \in Listed : Confirmed(last_seen_at[i], fresh)}
             ShownSdr == {d \in DOMAIN sdr : Confirmed(sdr[d], fresh)}
             Carried(i) == i \in polls[meta.success].seen
             Since(i) == \E p \in DOMAIN polls : p > meta.success /\ i \in polls[p].seen
             Promoted(i) == i \in DOMAIN sdr /\ sdr[i] >= meta.success
  <2>1. /\ answer'.asOf = meta.success /\ answer'.listed = Listed
        /\ answer'.ok = StatusOK(fresh) /\ answer'.promoted = sdr
        /\ answer'.confirmed = Shown \union ShownSdr
    BY <1>3 DEF ListAnswer
  <2>2. ~StatusOK(fresh) => answer'.confirmed = {}
    BY <2>1 DEF Confirmed
  <2>3. ASSUME StatusOK(fresh)
        PROVE  meta.success \in OkPolls /\ OkPolls \subseteq DOMAIN polls \intersect Nat
    BY <2>3, LenProperties
    DEF ReaderInv, Held, StatusOK, IInv, Base, TypeOK, OkPolls
  <2>4. ASSUME StatusOK(fresh), NEW i \in Listed
        PROVE  /\ Carried(i) => i \in Shown
               /\ i \in Shown => Carried(i) \/ Since(i)
               /\ i \notin ShownSdr
    <3>1. Carried(i) => i \in Shown
      BY <2>3, <2>4, OutlivedWhenUnlisted DEF Confirmed
    <3>2. ASSUME i \in Shown
          PROVE  Carried(i) \/ Since(i)
      <4>1. last_seen_at[i] >= meta.success /\ i \in Incident /\ Exists(i)
        BY <3>2 DEF Confirmed, Listed, Active
      <4>2. last_seen_at[i] \in DOMAIN polls /\ i \in polls[last_seen_at[i]].seen
        BY <4>1 DEF ReaderInv, SeenInPoll
      <4>3. last_seen_at[i] \in Nat /\ meta.success \in Nat
        BY <2>3, <2>4, <4>1 DEF IInv, Base, TypeOK
      <4>4. last_seen_at[i] = meta.success \/ last_seen_at[i] > meta.success
        BY <4>1, <4>3
      <4>5. QED
        BY <4>2, <4>4
    <3>3. i \notin ShownSdr
      BY PromotedIsUnpolled DEF Listed
    <3>4. QED
      BY <3>1, <3>2, <3>3
  <2>5. ASSUME StatusOK(fresh), NEW d \in DOMAIN sdr
        PROVE  ~Carried(d) /\ d \notin Shown /\ (d \in ShownSdr => Promoted(d))
    <3>1. ~Carried(d) /\ d \notin Shown
      BY <2>3, <2>5, PromotedIsUnpolled DEF Listed
    <3>2. d \in ShownSdr => Promoted(d)
      BY DEF Confirmed
    <3>3. QED
      BY <3>1, <3>2
  <2>6. polls' = polls
    BY <1>3 DEF vars
  <2>7. ASSUME StatusOK(fresh), NEW i \in Listed \union DOMAIN sdr
        PROVE  /\ Carried(i) => i \in answer'.confirmed
               /\ i \in answer'.confirmed => Carried(i) \/ Since(i) \/ Promoted(i)
    <3>1. CASE i \in Listed
      BY <2>1, <2>4, <2>7, <3>1
    <3>2. CASE i \in DOMAIN sdr
      BY <2>1, <2>5, <2>7, <3>2
    <3>3. QED
      BY <2>7, <3>1, <3>2
  <2>8. QED
    BY <2>1, <2>2, <2>6, <2>7 DEF ConfirmedForCause
<1>4. QED
  BY <1>1, <1>2, <1>3, AnswerCases DEF DetailAnswer

\* is_last_known tells of every row of the list, of either source, whether the
\* named success carried it or a later sight or promotion confirms it
\* (incidentIsLastKnown).
THEOREM ConfirmedForCauseCorrect == FeedSpec => []ConfirmedForCause
<1>1. FeedInit => ConfirmedForCause
  BY DEF FeedInit, ConfirmedForCause, NoAnswer
<1>2. QED
  BY <1>1, ConfirmedInductive, ReaderCorrect, PTL DEF FeedSpec

(***************************************************************************)
(* No page is missing for an incident that a published poll carried.       *)
(***************************************************************************)
LEMMA NotFoundInductive ==
  IInv /\ NotFoundWasNeverPublished /\ [FeedNext]_feedVars
    => NotFoundWasNeverPublished'
<1> SUFFICES ASSUME IInv, NotFoundWasNeverPublished, [FeedNext]_feedVars
             PROVE  NotFoundWasNeverPublished'
  OBVIOUS
<1>1. CASE answer'.kind \in {"none", "list", "detail"}
  BY <1>1 DEF NotFoundWasNeverPublished
<1>2. CASE UNCHANGED <<vars, answer>>
  BY <1>2 DEF NotFoundWasNeverPublished, vars, row, OkPolls
<1>3. ASSUME UNCHANGED vars, NEW i \in Incident, ~Exists(i), answer'.incident = i
      PROVE  NotFoundWasNeverPublished'
  <2>1. \A p \in OkPolls : i \notin polls[p].seen
    BY <1>3, OutlivedWhenUnlisted
  <2>2. QED
    BY <1>3, <2>1 DEF NotFoundWasNeverPublished, vars, OkPolls
<1>4. QED
  BY <1>1, <1>2, <1>3, AnswerCases DEF DetailAnswer, ListAnswer

\* A 404 is only given for an incident no recorded poll carried
\* (GetIncidentDetail).
THEOREM NotFoundWasNeverPublishedCorrect == FeedSpec => []NotFoundWasNeverPublished
<1>1. FeedInit => NotFoundWasNeverPublished
  BY DEF FeedInit, NotFoundWasNeverPublished, NoAnswer
<1>2. QED
  BY <1>1, NotFoundInductive, ReaderCorrect, PTL DEF FeedSpec

(***************************************************************************)
(* The events of a detail hold every reopening its row counts, although    *)
(* the row was read first.                                                 *)
(***************************************************************************)
LEMMA DetailInductive ==
  IInv /\ LogsAgree /\ ReaderInv /\ DetailEventsCoverRow /\ [FeedNext]_feedVars
    => DetailEventsCoverRow'
<1> SUFFICES ASSUME IInv, LogsAgree, ReaderInv, DetailEventsCoverRow,
                    [FeedNext]_feedVars
             PROVE  DetailEventsCoverRow'
  OBVIOUS
<1>1. CASE answer'.kind \in {"none", "list", "not_found"}
  BY <1>1 DEF DetailEventsCoverRow
<1>2. CASE UNCHANGED <<vars, answer>>
  BY <1>2 DEF DetailEventsCoverRow
<1>3. ASSUME rpc = "events", NEW fresh \in BOOLEAN,
             answer' = DetailAnswer(events[found.incident], fresh)
      PROVE  DetailEventsCoverRow'
  <2> DEFINE i == found.incident
             told == events[i]
  <2>1. answer'.events = told /\ answer'.row = found
    BY <1>3 DEF DetailAnswer
  <2>2. /\ i \in Incident /\ Exists(i) /\ found.reopened <= reopen_count[i]
    BY <1>3 DEF ReaderInv, ReaderTypeOK, Held, FoundRow
  <2>3. LogAgrees(told, last_seen_at[i], cleared_at[i], reopen_count[i])
    BY <2>2 DEF LogsAgree
  <2> HIDE DEF i, told
  <2>4. told # <<>> /\ told \in Seq(EventRow)
    BY <2>2, <2>3 DEF LogAgrees, Exists, Null, IInv, Base, TypeOK, i, told
  <2>5. told[1].type = "created"
    <3>1. 1 \in DOMAIN told
      BY <2>4, EmptySeq, LenProperties
    <3>2. QED
      BY <2>3, <3>1 DEF LogAgrees
  <2>6. Cardinality(Reopenings(told)) >= found.reopened
    BY <2>2, <2>3 DEF LogAgrees, i
  <2>7. QED
    BY <2>1, <2>4, <2>5, <2>6 DEF DetailEventsCoverRow, Reopenings
<1>4. QED
  BY <1>1, <1>2, <1>3, AnswerCases DEF ListAnswer

\* A detail shows the event of every reopening its row counts, although row
\* and events are read by two statements (GetIncidentDetail, getIncident).
THEOREM DetailEventsCoverRowCorrect == FeedSpec => []DetailEventsCoverRow
<1>1. FeedInit => DetailEventsCoverRow
  BY DEF FeedInit, DetailEventsCoverRow, NoAnswer
<1>2. QED
  BY <1>1, DetailInductive, ReaderCorrect, PTL DEF FeedSpec

-----------------------------------------------------------------------------
(***************************************************************************)
(* The status endpoint (SourceStatus).                                     *)
(* What the variables say of each other at each step of the loop.          *)
(***************************************************************************)
LoopBase ==
  /\ StatusTypeOK
  /\ step = "poll" => asked \in Behaviour /\ pollFor = 0
  /\ step = "apply" => verdict # "none" /\ pollFor \in 0..PollTimeout
  /\ repeated > 0 => unchangedFor # Never
  /\ step = "poll" /\ asked # source => steadyFor = 0

(***************************************************************************)
(* A live source: until the poll that first asks it is applied, steadyFor  *)
(* is short of the time that takes, and from then on the last attempt is a *)
(* success no older than the wait and the work since.                      *)
(***************************************************************************)
Wait == PollInterval + PollJitter

UpToDate(age) ==
  latest = "authoritative" /\ failures = 0 /\ backoff = 0 /\ successFor \in 0..age

LiveInv ==
  source = "live" =>
    /\ step = "wait" => steadyFor <= Work \/ UpToDate(Work)
    /\ step = "poll" => steadyFor <= FirstAsked \/ UpToDate(Work + Wait)
    /\ step = "apply" =>
         \/ steadyFor <= PollTimeout
         \/ /\ verdict = "authoritative"
            /\ \/ steadyFor <= FirstAsked + PollTimeout
               \/ UpToDate(Work + Wait + PollTimeout)

(***************************************************************************)
(* A repeating source: the run the client counts is nearly as old as the   *)
(* source is steady, and each repetition took at most a cycle, until the   *)
(* last attempt is frozen and says how old the run is.                     *)
(***************************************************************************)
ReportedFrozen ==
  /\ latest = "frozen" /\ repeated = FrozenRepeatCount /\ backoff = 0
  /\ latestUnchanged # Never /\ latestUnchanged >= steadyFor - FirstAsked

AskedAfter(n) == FirstAsked + n * Cycle

RepeatingInv ==
  source = "repeating" =>
    /\ repeated > 0 => unchangedFor >= steadyFor - FirstAsked
    /\ step = "wait" =>
         \/ steadyFor <= Work \/ ReportedFrozen
         \/ /\ repeated \in 1..(FrozenRepeatCount - 1) /\ backoff = 0
            /\ steadyFor <= AskedAfter(repeated - 1) + Work
    /\ step = "poll" =>
         \/ ReportedFrozen
         \/ steadyFor <= AskedAfter(Smaller(repeated, FrozenRepeatCount - 1))
    /\ step = "apply" =>
         \/ steadyFor <= PollTimeout
         \/ /\ repeated > 0
            /\ verdict = IF repeated = FrozenRepeatCount THEN "frozen" ELSE "authoritative"
            /\ \/ ReportedFrozen
               \/ steadyFor <= AskedAfter(repeated - 1) + PollTimeout

StatusInv == LoopBase /\ LiveInv /\ RepeatingInv

-----------------------------------------------------------------------------
(***************************************************************************)
(* Durations and ages.                                                     *)
(***************************************************************************)
LEMMA Durations ==
  /\ Work \in Nat /\ Wait \in Nat /\ Cycle \in Nat /\ FirstAsked \in Nat
  /\ Cycle = Wait + Work /\ FirstAsked = Work + Wait + BackoffCap
  /\ PollTimeout \in Nat /\ ApplyTime \in Nat /\ BackoffCap \in Nat
  /\ Work = PollTimeout + ApplyTime
BY PacingAssumption DEF Work, Wait, Cycle, FirstAsked

LEMMA OlderAge ==
  ASSUME NEW age \in Age, NEW d \in Nat
  PROVE  /\ Older(age, d) \in Age
         /\ Older(age, d) = Never <=> age = Never
         /\ age # Never =>
              /\ Older(age, d) \in 0..Horizon
              /\ Older(age, d) <= age + d
              /\ Older(age, d) >= age
              /\ Older(age, d) = age + d \/ Older(age, d) = Horizon
BY ThresholdsAssumption DEF Older, Age, Smaller, Never

LEMMA SteadierAge ==
  ASSUME StatusTypeOK, NEW d \in Nat
  PROVE  Steadier(d) \in 0..Horizon /\ Steadier(d) <= steadyFor + d
<1>1. steadyFor \in Age /\ steadyFor # Never /\ steadyFor \in Nat /\ Horizon \in Nat
  BY ThresholdsAssumption DEF StatusTypeOK, Age, Never
<1>2. Older(steadyFor, d) \in 0..Horizon /\ Older(steadyFor, d) <= steadyFor + d
  BY <1>1, OlderAge
<1>3. 0 \in 0..Horizon /\ 0 <= steadyFor + d
  BY <1>1
<1>4. QED
  BY <1>2, <1>3 DEF Steadier

LEMMA WaitsLast ==
  ASSUME StatusTypeOK, NEW wait \in Waits
  PROVE  wait \in Nat /\ wait <= Wait + backoff
BY PacingAssumption DEF Waits, StatusTypeOK, Wait

(***************************************************************************)
(* The backoff stays within its cap, and nothing but a failure adds to it. *)
(***************************************************************************)
LEMMA BackoffBounded ==
  ASSUME LoopBase, step = "apply"
  PROVE  /\ NextBackoff \in 0..BackoffCap
         /\ verdict \in {"authoritative", "frozen"} => NextBackoff = 0
<1>1. backoff \in 0..BackoffCap /\ BackoffCap \in Nat
  BY PacingAssumption DEF LoopBase, StatusTypeOK
<1>2. verdict \in {"authoritative", "frozen", "incomplete", "failure", "refused"}
  BY DEF LoopBase, StatusTypeOK
<1>3. \A d \in Nat : CapBackoff(d) \in 0..BackoffCap
  BY <1>1 DEF CapBackoff, Smaller
<1>4. /\ 2 * backoff + RefusedStep \in Nat
      /\ 2 * backoff + FailureStep \in Nat
  BY <1>1, PacingAssumption
<1>5. CASE verdict \in {"authoritative", "frozen", "incomplete"}
  BY <1>1, <1>5 DEF NextBackoff
<1>6. CASE verdict = "refused"
  BY <1>3, <1>4, <1>6 DEF NextBackoff
<1>7. CASE verdict = "failure"
  BY <1>3, <1>4, <1>7 DEF NextBackoff
<1>8. QED
  BY <1>2, <1>5, <1>6, <1>7

-----------------------------------------------------------------------------
(***************************************************************************)
(* Type correctness, action by action.                                     *)
(***************************************************************************)
LEMMA TurnKeepsBase == LoopBase /\ SourceTurns => LoopBase'
<1> SUFFICES ASSUME LoopBase, SourceTurns PROVE LoopBase'
  OBVIOUS
<1> USE DEF SourceTurns, loop, memory, log
<1>1. StatusTypeOK'
  BY ThresholdsAssumption DEF LoopBase, StatusTypeOK
<1>2. QED
  BY <1>1 DEF LoopBase

LEMMA StartKeepsBase ==
  ASSUME LoopBase, NEW wait \in Waits, StartPoll(wait)
  PROVE  LoopBase'
<1>1. wait \in Nat /\ wait <= Wait + backoff
  BY WaitsLast DEF LoopBase
<1>2. Steadier(wait) \in 0..Horizon
  BY <1>1, SteadierAge DEF LoopBase
<1>3. /\ Older(unchangedFor, wait) \in Age /\ Older(successFor, wait) \in Age
      /\ Older(latestUnchanged, wait) \in Age
      /\ Older(unchangedFor, wait) = Never <=> unchangedFor = Never
  BY <1>1, OlderAge DEF LoopBase, StatusTypeOK
<1>4. 0 \in Age
  BY ThresholdsAssumption DEF Age
<1>5. StatusTypeOK'
  BY <1>2, <1>3, <1>4 DEF LoopBase, StatusTypeOK, StartPoll
<1>6. asked' = source' /\ source' \in Behaviour /\ pollFor' = 0 /\ step' = "poll"
  BY DEF StartPoll, LoopBase, StatusTypeOK
<1>7. repeated' > 0 => unchangedFor' # Never
  BY <1>3 DEF StartPoll, LoopBase
<1>8. QED
  BY <1>5, <1>6, <1>7 DEF LoopBase

LEMMA ClassifyKeepsBase ==
  ASSUME LoopBase, NEW same \in BOOLEAN, NEW d \in 0..PollTimeout,
         pollFor = 0, pollFor' = Older(pollFor, d), same => repeated > 0,
         ClassifyPayloadHistory(same, d)
  PROVE  /\ repeated' \in 1..FrozenRepeatCount
         /\ unchangedFor' \in 0..Horizon
         /\ verdict' \in {"authoritative", "frozen"}
<1>1. d \in Nat /\ repeated \in 0..FrozenRepeatCount /\ unchangedFor \in Age
      /\ FrozenRepeatCount \in Nat /\ FrozenRepeatCount >= 2
  BY PacingAssumption, ThresholdsAssumption DEF LoopBase, StatusTypeOK
<1>2. repeated' \in 1..FrozenRepeatCount
  BY <1>1 DEF ClassifyPayloadHistory, Smaller
<1>3. pollFor \in Age /\ pollFor # Never
  BY ThresholdsAssumption DEF Age, Never
<1>4. same => unchangedFor # Never
  BY DEF LoopBase
<1>5. PICK age \in Age : age # Never /\ unchangedFor' = Older(age, d)
  BY <1>1, <1>3, <1>4 DEF ClassifyPayloadHistory
<1>6. unchangedFor' \in 0..Horizon
  BY <1>1, <1>5, OlderAge
<1>7. QED
  BY <1>2, <1>6 DEF ClassifyPayloadHistory

LEMMA FinishKeepsBase ==
  ASSUME LoopBase, NEW behaviour \in Behaviour, NEW d \in 0..PollTimeout,
         FinishPoll(behaviour, d)
  PROVE  LoopBase'
<1>1. d \in Nat /\ pollFor = 0 /\ step = "poll" /\ step' = "apply"
  BY PacingAssumption DEF FinishPoll, LoopBase
<1>2. pollFor' \in 0..PollTimeout /\ pollFor' \in Age
  <2>1. pollFor \in Age /\ pollFor # Never
    BY <1>1, ThresholdsAssumption DEF Age, Never
  <2>2. pollFor' = Older(pollFor, d)
    BY DEF FinishPoll
  <2>3. pollFor' \in Age /\ pollFor' \in 0..Horizon /\ pollFor' <= pollFor + d
    BY <1>1, <2>1, <2>2, OlderAge
  <2>4. QED
    BY <1>1, <2>3, PacingAssumption
<1>3. /\ Steadier(d) \in 0..Horizon /\ Older(successFor, d) \in Age
      /\ Older(latestUnchanged, d) \in Age
  BY <1>1, SteadierAge, OlderAge DEF LoopBase, StatusTypeOK
<1>4. /\ repeated' \in 0..FrozenRepeatCount /\ unchangedFor' \in Age
      /\ verdict' \in {"authoritative", "frozen", "incomplete", "failure", "refused"}
      /\ repeated' > 0 => unchangedFor' # Never
  <2>1. CASE ForgetPayloads
    BY <2>1, ThresholdsAssumption DEF ForgetPayloads, Age, Never
  <2>2. ASSUME NEW same \in BOOLEAN, same => repeated > 0, ClassifyPayloadHistory(same, d)
        PROVE  /\ repeated' \in 0..FrozenRepeatCount /\ unchangedFor' \in Age
               /\ verdict' \in {"authoritative", "frozen"}
               /\ unchangedFor' # Never
    <3>1. pollFor' = Older(pollFor, d)
      BY DEF FinishPoll
    <3>2. /\ repeated' \in 1..FrozenRepeatCount
          /\ unchangedFor' \in 0..Horizon
          /\ verdict' \in {"authoritative", "frozen"}
      BY <1>1, <2>2, <3>1, ClassifyKeepsBase
    <3>3. QED
      BY <3>2, ThresholdsAssumption DEF Age, Never
  <2>3. ASSUME behaviour \in DOMAIN Outcome, verdict' = Outcome[behaviour],
               unchangedFor' = Older(unchangedFor, d), UNCHANGED repeated
        PROVE  /\ repeated' \in 0..FrozenRepeatCount /\ unchangedFor' \in Age
               /\ verdict' \in {"incomplete", "failure", "refused"}
               /\ repeated' > 0 => unchangedFor' # Never
    <3>1. unchangedFor' \in Age /\ (unchangedFor' = Never <=> unchangedFor = Never)
      BY <1>1, <2>3, OlderAge DEF LoopBase, StatusTypeOK
    <3>2. verdict' \in {"incomplete", "failure", "refused"}
      BY <2>3 DEF Outcome
    <3>3. QED
      BY <2>3, <3>1, <3>2 DEF LoopBase, StatusTypeOK
  <2>4. (repeated > 0) \in BOOLEAN
    OBVIOUS
  <2>5. \/ ForgetPayloads
        \/ ClassifyPayloadHistory(FALSE, d)
        \/ ClassifyPayloadHistory(repeated > 0, d)
        \/ /\ behaviour \in DOMAIN Outcome /\ verdict' = Outcome[behaviour]
           /\ unchangedFor' = Older(unchangedFor, d) /\ UNCHANGED repeated
    BY DEF FinishPoll
  <2>6. CASE ClassifyPayloadHistory(FALSE, d)
    BY <2>2, <2>6
  <2>7. CASE ClassifyPayloadHistory(repeated > 0, d)
    BY <2>2, <2>4, <2>7
  <2>8. QED
    BY <2>1, <2>3, <2>5, <2>6, <2>7
<1>5. StatusTypeOK'
  BY <1>2, <1>3, <1>4 DEF LoopBase, StatusTypeOK, FinishPoll
<1>6. QED
  BY <1>1, <1>2, <1>4, <1>5 DEF LoopBase

LEMMA RecordedAges ==
  ASSUME LoopBase, step = "apply", NEW d \in 0..ApplyTime, Recorded(d)
  PROVE  /\ successFor' \in Age /\ latestUnchanged' \in Age
         /\ latest' = verdict /\ failures' \in 0..DownFailures
         /\ failures' = 0 \/ Failed(verdict)
         /\ verdict = "authoritative" => successFor' \in 0..Work
<1>1. d \in Nat /\ d <= ApplyTime /\ pollFor \in 0..PollTimeout
      /\ PollTimeout \in Nat /\ ApplyTime \in Nat
  BY PacingAssumption DEF LoopBase
<1>2. pollFor \in Age /\ pollFor # Never /\ successFor \in Age /\ unchangedFor \in Age
  BY <1>1 DEF LoopBase, StatusTypeOK, Never
<1>3. successFor' \in Age
  BY <1>1, <1>2, OlderAge DEF Recorded
<1>4. latestUnchanged' \in Age
  <2>1. Never \in Age
    BY ThresholdsAssumption DEF Age, Never
  <2>2. QED
    BY <1>1, <1>2, <2>1, OlderAge DEF Recorded
<1>5. failures' \in 0..DownFailures /\ latest' = verdict
  BY ThresholdsAssumption DEF Recorded, LastAttempt, Smaller, LoopBase, StatusTypeOK
<1>6. failures' = 0 \/ Failed(verdict)
  BY DEF Recorded, LastAttempt
<1>7. ASSUME verdict = "authoritative" PROVE successFor' \in 0..Work
  <2>1. successFor' = Older(pollFor, d)
    BY <1>7 DEF Recorded
  <2>2. successFor' \in 0..Horizon /\ successFor' <= pollFor + d
    BY <1>1, <1>2, <2>1, OlderAge
  <2>3. QED
    BY <1>1, <2>2, Durations
<1>8. QED
  BY <1>3, <1>4, <1>5, <1>6, <1>7

LEMMA RestKeepsBase ==
  ASSUME LoopBase, NEW d \in 0..ApplyTime, Rest(d),
         successFor' \in Age, latestUnchanged' \in Age, failures' \in 0..DownFailures,
         latest' \in {verdict, latest}, steadyFor' \in 0..Horizon
  PROVE  LoopBase'
<1>1. d \in Nat /\ step = "apply" /\ step' = "wait"
  BY PacingAssumption DEF Rest
<1>2. Older(unchangedFor, d) \in Age
      /\ (Older(unchangedFor, d) = Never <=> unchangedFor = Never)
  BY <1>1, OlderAge DEF LoopBase, StatusTypeOK
<1>3. NextBackoff \in 0..BackoffCap
  BY <1>1, BackoffBounded
<1>4. pollFor' \in Age
  BY ThresholdsAssumption DEF Rest, Age, Never
<1>5. StatusTypeOK'
  BY <1>2, <1>3, <1>4 DEF LoopBase, StatusTypeOK, Rest
<1>6. repeated' > 0 => unchangedFor' # Never
  BY <1>2 DEF Rest, LoopBase
<1>7. QED
  BY <1>1, <1>5, <1>6 DEF LoopBase

LEMMA ApplyKeepsBase ==
  ASSUME LoopBase, NEW d \in 0..ApplyTime, Apply(d)
  PROVE  LoopBase'
<1>1. d \in Nat /\ Rest(d) /\ Recorded(d) /\ steadyFor' = Steadier(d) /\ step = "apply"
  BY PacingAssumption DEF Apply, Rest
<1>2. steadyFor' \in 0..Horizon
  BY <1>1, SteadierAge DEF LoopBase
<1>3. QED
  BY <1>1, <1>2, RecordedAges, RestKeepsBase

LEMMA ApplyFailsKeepsBase ==
  ASSUME LoopBase, NEW d \in 0..ApplyTime, ApplyFails(d)
  PROVE  LoopBase'
<1>1. /\ d \in Nat /\ Rest(d) /\ step = "apply"
      /\ steadyFor' \in 0..Horizon
      /\ Never \in Age
  BY PacingAssumption, ThresholdsAssumption DEF ApplyFails, Rest, Age, Never
<1>2. Older(successFor, d) \in Age /\ Older(latestUnchanged, d) \in Age
  BY <1>1, OlderAge DEF LoopBase, StatusTypeOK
<1>3. CASE Recorded(d)
  BY <1>1, <1>3, RecordedAges, RestKeepsBase
<1>4. CASE MarkedFailed(d)
  <2>1. failures' \in 0..DownFailures /\ latest' = verdict
    BY <1>4, ThresholdsAssumption
    DEF MarkedFailed, LastAttempt, Smaller, LoopBase, StatusTypeOK
  <2>2. successFor' \in Age /\ latestUnchanged' \in Age
    BY <1>1, <1>2, <1>4 DEF MarkedFailed
  <2>3. QED
    BY <1>1, <2>1, <2>2, RestKeepsBase
<1>5. CASE /\ successFor' = Older(successFor, d)
           /\ latestUnchanged' = Older(latestUnchanged, d)
           /\ UNCHANGED <<latest, failures>>
  <2>1. failures' \in 0..DownFailures /\ latest' = latest
    BY <1>5 DEF LoopBase, StatusTypeOK
  <2>2. QED
    BY <1>1, <1>2, <1>5, <2>1, RestKeepsBase
<1>6. QED
  BY <1>3, <1>4, <1>5 DEF ApplyFails

LEMMA RestartKeepsBase == LoopBase /\ Restart => LoopBase'
<1> SUFFICES ASSUME LoopBase, Restart PROVE LoopBase'
  OBVIOUS
<1>1. Never \in Age /\ 0 \in 0..Horizon /\ 0 \in 0..BackoffCap /\ 0 \in 0..FrozenRepeatCount
  BY PacingAssumption, ThresholdsAssumption DEF Age, Never
<1>2. StatusTypeOK'
  BY <1>1 DEF LoopBase, StatusTypeOK, Restart, log
<1>3. step' = "wait" /\ repeated' = 0
  BY DEF Restart
<1>4. QED
  BY <1>2, <1>3 DEF LoopBase

LEMMA LoopBaseInductive == LoopBase /\ [StatusNext]_statusVars => LoopBase'
<1> SUFFICES ASSUME LoopBase, [StatusNext]_statusVars PROVE LoopBase'
  OBVIOUS
<1>1. CASE SourceTurns
  BY <1>1, TurnKeepsBase
<1>2. CASE \E wait \in Waits : StartPoll(wait)
  BY <1>2, StartKeepsBase
<1>3. CASE \E behaviour \in Behaviour, d \in 0..PollTimeout : FinishPoll(behaviour, d)
  BY <1>3, FinishKeepsBase
<1>4. CASE \E d \in 0..ApplyTime : Apply(d)
  BY <1>4, ApplyKeepsBase
<1>5. CASE \E d \in 0..ApplyTime : ApplyFails(d)
  BY <1>5, ApplyFailsKeepsBase
<1>6. CASE Restart
  BY <1>6, RestartKeepsBase
<1>7. CASE UNCHANGED statusVars
  BY <1>7 DEF statusVars, environment, loop, memory, log, LoopBase, StatusTypeOK
<1>8. QED
  BY <1>1, <1>2, <1>3, <1>4, <1>5, <1>6, <1>7 DEF StatusNext

LEMMA LoopBaseInit == StatusInit => LoopBase
<1> SUFFICES ASSUME StatusInit PROVE LoopBase
  OBVIOUS
<1>1. Never \in Age /\ 0 \in 0..Horizon /\ 0 \in 0..BackoffCap /\ 0 \in 0..FrozenRepeatCount
      /\ 0 \in 0..DownFailures
  BY PacingAssumption, ThresholdsAssumption DEF Age, Never
<1>2. QED
  BY <1>1 DEF StatusInit, LoopBase, StatusTypeOK

(***************************************************************************)
(* Every variable has its type, and no age exceeds the horizon (main.go    *)
(* 52-91 with sourcePollMeta).                                             *)
(***************************************************************************)
THEOREM StatusTypeCorrect == StatusSpec => []StatusTypeOK
<1>1. LoopBase => StatusTypeOK
  BY DEF LoopBase
<1>2. QED
  BY <1>1, LoopBaseInit, LoopBaseInductive, PTL DEF StatusSpec

-----------------------------------------------------------------------------
(***************************************************************************)
(* A live source, action by action.                                        *)
(***************************************************************************)
LEMMA UpToDateAges ==
  ASSUME LoopBase, NEW age \in Nat, NEW d \in Nat, NEW e \in Nat, d <= e,
         UpToDate(age), UNCHANGED <<latest, failures, backoff>>,
         successFor' = Older(successFor, d)
  PROVE  UpToDate(age + e)'
<1>1. successFor \in Age /\ successFor # Never /\ successFor \in 0..age
  BY DEF UpToDate, LoopBase, StatusTypeOK, Never
<1>2. successFor' \in 0..Horizon /\ successFor' <= successFor + d
  BY <1>1, OlderAge
<1>3. successFor' \in 0..(age + e)
  BY <1>1, <1>2, ThresholdsAssumption
<1>4. QED
  BY <1>3 DEF UpToDate

LEMMA StartKeepsLive ==
  ASSUME LoopBase, LiveInv, NEW wait \in Waits, StartPoll(wait)
  PROVE  LiveInv'
<1> SUFFICES ASSUME source = "live" PROVE LiveInv'
  BY DEF StartPoll, LiveInv
<1>1. /\ wait \in Nat /\ wait <= Wait + backoff /\ backoff \in 0..BackoffCap
      /\ steadyFor \in 0..Horizon /\ Horizon \in Nat
      /\ steadyFor' <= steadyFor + wait /\ steadyFor' \in 0..Horizon
      /\ step = "wait" /\ step' = "poll"
  BY WaitsLast, SteadierAge, ThresholdsAssumption DEF LoopBase, StatusTypeOK, StartPoll
<1>2. CASE steadyFor <= Work
  <2>1. steadyFor' <= FirstAsked
    BY <1>1, <1>2, Durations
  <2>2. QED
    BY <1>1, <2>1 DEF LiveInv
<1>3. CASE UpToDate(Work)
  <2>1. wait <= Wait
    BY <1>1, <1>3, Durations DEF UpToDate
  <2>2. UpToDate(Work + Wait)'
    BY <1>1, <1>3, <2>1, Durations, UpToDateAges DEF StartPoll
  <2>3. QED
    BY <1>1, <2>2 DEF LiveInv
<1>4. QED
  BY <1>1, <1>2, <1>3 DEF LiveInv

LEMMA FinishKeepsLive ==
  ASSUME LoopBase, LiveInv, NEW behaviour \in Behaviour, NEW d \in 0..PollTimeout,
         FinishPoll(behaviour, d)
  PROVE  LiveInv'
<1> SUFFICES ASSUME source = "live" PROVE LiveInv'
  BY DEF FinishPoll, LiveInv
<1>1. /\ d \in Nat /\ d <= PollTimeout
      /\ steadyFor \in 0..Horizon /\ Horizon \in Nat
      /\ steadyFor' <= steadyFor + d /\ steadyFor' \in 0..Horizon
      /\ step = "poll" /\ step' = "apply"
  BY SteadierAge, ThresholdsAssumption, PacingAssumption
  DEF LoopBase, StatusTypeOK, FinishPoll
<1>2. CASE asked # "live"
  <2>1. steadyFor' <= PollTimeout
    BY <1>1, <1>2, Durations DEF LoopBase
  <2>2. QED
    BY <1>1, <2>1 DEF LiveInv
<1>3. CASE asked = "live"
  <2>1. behaviour = "live"
    BY <1>3 DEF FinishPoll
  <2>2. verdict' = "authoritative"
    BY <2>1 DEF FinishPoll, ForgetPayloads, ClassifyPayloadHistory, Outcome
  <2>3. CASE steadyFor <= FirstAsked
    <3>1. steadyFor' <= FirstAsked + PollTimeout
      BY <1>1, <2>3, Durations
    <3>2. QED
      BY <1>1, <2>2, <3>1 DEF LiveInv
  <2>4. CASE UpToDate(Work + Wait)
    <3>1. Work + Wait \in Nat /\ PollTimeout \in Nat
      BY Durations
    <3>2. UNCHANGED <<latest, failures, backoff>> /\ successFor' = Older(successFor, d)
      BY DEF FinishPoll
    <3>3. UpToDate(Work + Wait + PollTimeout)'
      BY <1>1, <2>4, <3>1, <3>2, UpToDateAges
    <3>4. QED
      BY <1>1, <2>2, <3>3 DEF LiveInv
  <2>5. QED
    BY <1>1, <2>3, <2>4 DEF LiveInv
<1>4. QED
  BY <1>2, <1>3

LEMMA ApplyKeepsLive ==
  ASSUME LoopBase, LiveInv, NEW d \in 0..ApplyTime, Apply(d)
  PROVE  LiveInv'
<1> SUFFICES ASSUME source = "live" PROVE LiveInv'
  BY DEF Apply, Rest, LiveInv
<1>1. /\ d \in Nat /\ d <= ApplyTime
      /\ steadyFor \in 0..Horizon /\ Horizon \in Nat
      /\ steadyFor' <= steadyFor + d /\ steadyFor' \in 0..Horizon
      /\ step = "apply" /\ step' = "wait" /\ Recorded(d) /\ backoff' = NextBackoff
  BY SteadierAge, ThresholdsAssumption, PacingAssumption
  DEF LoopBase, StatusTypeOK, Apply, Rest
<1>2. CASE steadyFor <= PollTimeout
  <2>1. steadyFor' <= Work
    BY <1>1, <1>2, Durations
  <2>2. QED
    BY <1>1, <2>1 DEF LiveInv
<1>3. CASE verdict = "authoritative"
  <2>1. successFor' \in 0..Work /\ latest' = verdict /\ failures' = 0
    BY <1>1, <1>3, RecordedAges DEF Failed
  <2>2. backoff' = 0
    BY <1>1, <1>3, BackoffBounded
  <2>3. UpToDate(Work)'
    BY <1>3, <2>1, <2>2, Durations DEF UpToDate
  <2>4. QED
    BY <1>1, <2>3 DEF LiveInv
<1>4. QED
  BY <1>1, <1>2, <1>3 DEF LiveInv

LEMMA LiveInductive == LoopBase /\ LiveInv /\ [StatusNext]_statusVars => LiveInv'
<1> SUFFICES ASSUME LoopBase, LiveInv, [StatusNext]_statusVars PROVE LiveInv'
  OBVIOUS
<1>1. ASSUME steadyFor' = 0, step' = "wait" \/ UNCHANGED <<step, asked, verdict>>
      PROVE  LiveInv'
  <2>1. /\ 0 <= Work /\ 0 <= FirstAsked /\ 0 <= PollTimeout
        /\ step' \in {"wait", "poll", "apply"}
    BY <1>1, Durations DEF LoopBase, StatusTypeOK
  <2>2. QED
    BY <1>1, <2>1 DEF LiveInv
<1>2. CASE SourceTurns
  BY <1>1, <1>2 DEF SourceTurns, loop
<1>3. CASE \E wait \in Waits : StartPoll(wait)
  BY <1>3, StartKeepsLive
<1>4. CASE \E behaviour \in Behaviour, d \in 0..PollTimeout : FinishPoll(behaviour, d)
  BY <1>4, FinishKeepsLive
<1>5. CASE \E d \in 0..ApplyTime : Apply(d)
  BY <1>5, ApplyKeepsLive
<1>6. CASE \E d \in 0..ApplyTime : ApplyFails(d)
  BY <1>1, <1>6 DEF ApplyFails, Rest
<1>7. CASE Restart
  BY <1>1, <1>7 DEF Restart
<1>8. CASE UNCHANGED statusVars
  BY <1>8 DEF statusVars, environment, loop, memory, log, LiveInv, UpToDate
<1>9. QED
  BY <1>2, <1>3, <1>4, <1>5, <1>6, <1>7, <1>8 DEF StatusNext

(***************************************************************************)
(* A source that answers is soon reported so, and stays so (main.go 60-90  *)
(* with classifySourceStatus).                                             *)
(***************************************************************************)
THEOREM LiveReportedOkCorrect == StatusSpec => []LiveReportedOk
<1>1. StatusInit => LiveInv
  BY Durations DEF StatusInit, LiveInv
<1>2. LoopBase /\ LiveInv => LiveReportedOk
  <2> SUFFICES ASSUME LoopBase, LiveInv, source = "live", steadyFor > FirstAsked + Work
               PROVE  SourceStatus = "ok"
    BY DEF LiveReportedOk
  <2>1. steadyFor \in Nat /\ step \in {"wait", "poll", "apply"}
    BY DEF LoopBase, StatusTypeOK
  <2>2. ~(steadyFor <= Work) /\ ~(steadyFor <= FirstAsked) /\ ~(steadyFor <= PollTimeout)
        /\ ~(steadyFor <= FirstAsked + PollTimeout)
    BY <2>1, Durations
  <2>3. \/ UpToDate(Work) \/ UpToDate(Work + Wait) \/ UpToDate(Work + Wait + PollTimeout)
    BY <2>1, <2>2 DEF LiveInv
  <2>4. /\ latest = "authoritative" /\ failures = 0
        /\ successFor \in Nat /\ successFor <= Wait + 2 * Work
    BY <2>3, Durations DEF UpToDate
  <2>5. successFor < DegradedAfter /\ successFor < DownAfter /\ successFor # Never
    BY <2>4, RoomAssumption, ThresholdsAssumption, Durations DEF Wait, Never
  <2>6. ~Down
    BY <2>4, <2>5, ThresholdsAssumption DEF Down
  <2>7. ~Degraded
    BY <2>4, <2>5, ThresholdsAssumption DEF Degraded, Failed
  <2>8. QED
    BY <2>6, <2>7 DEF SourceStatus
<1>3. QED
  BY <1>1, <1>2, LoopBaseInit, LoopBaseInductive, LiveInductive, PTL DEF StatusSpec

-----------------------------------------------------------------------------
(***************************************************************************)
(* A repeating source, action by action.                                   *)
(***************************************************************************)
LEMMA AskedAgain ==
  ASSUME NEW n \in Nat
  PROVE  /\ AskedAfter(n) \in Nat /\ AskedAfter(n) >= FirstAsked
         /\ AskedAfter(n + 1) = AskedAfter(n) + Work + Wait
<1>1. n * Cycle \in Nat
  BY Durations
<1>2. (n + 1) * Cycle = n * Cycle + Cycle
  BY Durations
<1>3. QED
  BY <1>1, <1>2, Durations DEF AskedAfter

LEMMA AskedInOrder ==
  ASSUME NEW m \in Nat, NEW n \in Nat, m <= n
  PROVE  AskedAfter(m) <= AskedAfter(n)
<1>1. n - m \in Nat /\ (n - m) * Cycle \in Nat
  BY Durations
<1>2. n * Cycle = m * Cycle + (n - m) * Cycle
  BY Durations
<1>3. m * Cycle \in Nat /\ n * Cycle \in Nat
  BY Durations
<1>4. QED
  BY <1>1, <1>2, <1>3, Durations DEF AskedAfter

LEMMA RunAges ==
  ASSUME NEW age \in Age, age # Never, NEW d \in Nat, LoopBase,
         age >= steadyFor - FirstAsked
  PROVE  Older(age, d) >= Steadier(d) - FirstAsked
<1>1. /\ age \in Int /\ steadyFor \in 0..Horizon /\ Horizon \in Nat /\ FirstAsked \in Nat
  BY Durations, ThresholdsAssumption DEF LoopBase, StatusTypeOK, Age
<1>2. Older(age, d) = age + d \/ Older(age, d) = Horizon
  BY OlderAge
<1>3. Steadier(d) \in 0..Horizon /\ Steadier(d) <= steadyFor + d
  BY SteadierAge DEF LoopBase
<1>4. QED
  BY <1>1, <1>2, <1>3

LEMMA FrozenAges ==
  ASSUME LoopBase, ReportedFrozen, NEW d \in Nat,
         UNCHANGED <<latest, repeated, backoff>>,
         latestUnchanged' = Older(latestUnchanged, d), steadyFor' = Steadier(d)
  PROVE  ReportedFrozen'
<1>1. latestUnchanged \in Age
  BY DEF LoopBase, StatusTypeOK
<1>2. latestUnchanged' >= steadyFor' - FirstAsked
  BY <1>1, RunAges DEF ReportedFrozen
<1>3. latestUnchanged' # Never
  BY <1>1, OlderAge DEF ReportedFrozen
<1>4. QED
  BY <1>2, <1>3 DEF ReportedFrozen

LEMMA StartKeepsRepeating ==
  ASSUME LoopBase, RepeatingInv, NEW wait \in Waits, StartPoll(wait)
  PROVE  RepeatingInv'
<1> SUFFICES ASSUME source = "repeating" PROVE RepeatingInv'
  BY DEF StartPoll, RepeatingInv
<1>1. /\ wait \in Nat /\ wait <= Wait + backoff /\ backoff \in 0..BackoffCap
      /\ steadyFor \in 0..Horizon /\ Horizon \in Nat
      /\ steadyFor' <= steadyFor + wait /\ steadyFor' \in 0..Horizon
      /\ step = "wait" /\ step' = "poll"
      /\ repeated \in 0..FrozenRepeatCount /\ repeated' = repeated
      /\ FrozenRepeatCount \in Nat /\ FrozenRepeatCount >= 2
  BY WaitsLast, SteadierAge, ThresholdsAssumption DEF LoopBase, StatusTypeOK, StartPoll
<1>2. repeated' > 0 => unchangedFor' >= steadyFor' - FirstAsked
  BY <1>1, RunAges DEF RepeatingInv, LoopBase, StatusTypeOK, StartPoll
<1> DEFINE m == Smaller(repeated, FrozenRepeatCount - 1)
<1>3. m \in Nat
  BY <1>1 DEF Smaller
<1>4. CASE steadyFor <= Work
  <2>1. steadyFor' <= FirstAsked
    BY <1>1, <1>4, Durations
  <2>2. steadyFor' <= AskedAfter(m)
    BY <1>1, <1>3, <2>1, AskedAgain, Durations
  <2>3. QED
    BY <1>1, <1>2, <2>2 DEF RepeatingInv
<1>5. CASE ReportedFrozen
  <2>1. ReportedFrozen'
    BY <1>1, <1>5, FrozenAges DEF StartPoll
  <2>2. QED
    BY <1>1, <1>2, <2>1 DEF RepeatingInv
<1>6. CASE /\ repeated \in 1..(FrozenRepeatCount - 1) /\ backoff = 0
           /\ steadyFor <= AskedAfter(repeated - 1) + Work
  <2>1. m = (repeated - 1) + 1 /\ repeated - 1 \in Nat
    BY <1>1, <1>6 DEF Smaller
  <2>2. AskedAfter(m) = AskedAfter(repeated - 1) + Work + Wait
        /\ AskedAfter(repeated - 1) \in Nat
    BY <2>1, AskedAgain
  <2>3. steadyFor' <= AskedAfter(m)
    BY <1>1, <1>6, <2>2, Durations
  <2>4. QED
    BY <1>1, <1>2, <2>3 DEF RepeatingInv
<1>7. QED
  BY <1>1, <1>4, <1>5, <1>6 DEF RepeatingInv

\* A poll that the repeating source answered.
LEMMA RepetitionKeepsRepeating ==
  ASSUME LoopBase, RepeatingInv, source = "repeating", NEW d \in 0..PollTimeout,
         FinishPoll("repeating", d), ClassifyPayloadHistory(repeated > 0, d)
  PROVE  RepeatingInv'
<1> DEFINE m == Smaller(repeated, FrozenRepeatCount - 1)
<1>1. /\ d \in Nat /\ d <= PollTimeout
      /\ steadyFor \in 0..Horizon /\ Horizon \in Nat
      /\ steadyFor' <= steadyFor + d /\ steadyFor' \in 0..Horizon
      /\ steadyFor' = Steadier(d)
      /\ step = "poll" /\ step' = "apply" /\ pollFor = 0 /\ source' = source
      /\ repeated \in 0..FrozenRepeatCount
      /\ FrozenRepeatCount \in Nat /\ FrozenRepeatCount >= 2
  BY SteadierAge, ThresholdsAssumption, PacingAssumption
  DEF LoopBase, StatusTypeOK, FinishPoll
<1>2. m \in Nat /\ repeated' = m + 1
  BY <1>1 DEF ClassifyPayloadHistory, Smaller
<1>3. verdict' = IF repeated' = FrozenRepeatCount THEN "frozen" ELSE "authoritative"
  BY <1>1, <1>2 DEF ClassifyPayloadHistory, Smaller
<1>4. unchangedFor' >= steadyFor' - FirstAsked
  <2>1. CASE repeated > 0
    <3>1. unchangedFor' = Older(unchangedFor, d) /\ unchangedFor \in Age
          /\ unchangedFor # Never /\ unchangedFor >= steadyFor - FirstAsked
      BY <1>1, <2>1 DEF ClassifyPayloadHistory, LoopBase, StatusTypeOK, RepeatingInv
    <3>2. QED
      BY <1>1, <3>1, RunAges
  <2>2. CASE ~(repeated > 0)
    <3>1. m = 0 /\ ~ReportedFrozen
      BY <1>1, <2>2 DEF Smaller, ReportedFrozen
    <3>2. steadyFor <= FirstAsked
      BY <1>1, <3>1, Durations DEF RepeatingInv, AskedAfter
    <3>3. pollFor \in Age /\ pollFor # Never /\ pollFor >= steadyFor - FirstAsked
      BY <1>1, <3>2, Durations DEF Age, Never
    <3>4. unchangedFor' = Older(pollFor, d)
      BY <2>2 DEF ClassifyPayloadHistory
    <3>5. QED
      BY <1>1, <3>3, <3>4, RunAges
  <2>3. QED
    BY <2>1, <2>2
<1>5. CASE ReportedFrozen
  <2>1. repeated' = repeated
    BY <1>1, <1>5 DEF ReportedFrozen, ClassifyPayloadHistory, Smaller
  <2>2. ReportedFrozen'
    BY <1>1, <1>5, <2>1, FrozenAges DEF FinishPoll
  <2>3. QED
    BY <1>1, <1>2, <1>3, <1>4, <2>2 DEF RepeatingInv
<1>6. CASE steadyFor <= AskedAfter(m)
  <2>1. AskedAfter(m) \in Nat /\ repeated' - 1 = m
    BY <1>2, AskedAgain
  <2>2. steadyFor' <= AskedAfter(repeated' - 1) + PollTimeout
    BY <1>1, <1>6, <2>1, Durations
  <2>3. AskedAfter(repeated' - 1) = AskedAfter(repeated - 1)'
    BY DEF AskedAfter
  <2>4. QED
    BY <1>1, <1>2, <1>3, <1>4, <2>2, <2>3 DEF RepeatingInv
<1>7. QED
  BY <1>1, <1>5, <1>6 DEF RepeatingInv

\* A poll that was asked before the source turned.
LEMMA StrayAnswerKeepsRepeating ==
  ASSUME LoopBase, RepeatingInv, source = "repeating", asked # source,
         NEW behaviour \in Behaviour, NEW d \in 0..PollTimeout, FinishPoll(behaviour, d)
  PROVE  RepeatingInv'
<1>1. /\ d \in Nat /\ d <= PollTimeout /\ steadyFor = 0
      /\ steadyFor' <= steadyFor + d /\ steadyFor' \in 0..Horizon /\ Horizon \in Nat
      /\ steadyFor' = Steadier(d)
      /\ step = "poll" /\ step' = "apply" /\ pollFor = 0 /\ source' = source
      /\ PollTimeout \in Nat /\ FirstAsked \in Nat
  BY SteadierAge, ThresholdsAssumption, PacingAssumption, Durations
  DEF LoopBase, StatusTypeOK, FinishPoll
<1>2. steadyFor' <= PollTimeout
  BY <1>1
<1>3. ASSUME NEW age \in Age, age # Never
      PROVE  Older(age, d) >= steadyFor' - FirstAsked
  <2>1. age >= steadyFor - FirstAsked
    BY <1>1, <1>3 DEF Age, Never
  <2>2. QED
    BY <1>1, <1>3, <2>1, RunAges
<1>4. ASSUME repeated' > 0 PROVE unchangedFor' >= steadyFor' - FirstAsked
  <2>1. pollFor \in Age /\ pollFor # Never
    BY <1>1 DEF Age, Never
  <2>2. unchangedFor \in Age /\ (repeated > 0 => unchangedFor # Never)
    BY DEF LoopBase, StatusTypeOK
  <2>3. CASE ForgetPayloads
    BY <1>4, <2>3 DEF ForgetPayloads
  <2>4. CASE ClassifyPayloadHistory(FALSE, d)
    BY <1>3, <2>1, <2>4 DEF ClassifyPayloadHistory
  <2>5. CASE ClassifyPayloadHistory(repeated > 0, d)
    BY <1>3, <2>1, <2>2, <2>5 DEF ClassifyPayloadHistory
  <2>6. CASE unchangedFor' = Older(unchangedFor, d) /\ UNCHANGED repeated
    BY <1>3, <1>4, <2>2, <2>6
  <2>7. QED
    BY <2>3, <2>4, <2>5, <2>6 DEF FinishPoll
<1>5. QED
  BY <1>1, <1>2, <1>4 DEF RepeatingInv

LEMMA FinishKeepsRepeating ==
  ASSUME LoopBase, RepeatingInv, NEW behaviour \in Behaviour, NEW d \in 0..PollTimeout,
         FinishPoll(behaviour, d)
  PROVE  RepeatingInv'
<1> SUFFICES ASSUME source = "repeating" PROVE RepeatingInv'
  BY DEF FinishPoll, RepeatingInv
<1>1. CASE asked # source
  BY <1>1, StrayAnswerKeepsRepeating
<1>2. CASE asked = source
  <2>1. behaviour = "repeating"
    BY <1>2 DEF FinishPoll
  <2>2. ClassifyPayloadHistory(repeated > 0, d)
    BY <2>1 DEF FinishPoll, Outcome
  <2>3. QED
    BY <2>1, <2>2, RepetitionKeepsRepeating
<1>3. QED
  BY <1>1, <1>2

LEMMA ApplyKeepsRepeating ==
  ASSUME LoopBase, RepeatingInv, NEW d \in 0..ApplyTime, Apply(d)
  PROVE  RepeatingInv'
<1> SUFFICES ASSUME source = "repeating" PROVE RepeatingInv'
  BY DEF Apply, Rest, RepeatingInv
<1>1. /\ d \in Nat /\ d <= ApplyTime
      /\ steadyFor \in 0..Horizon /\ Horizon \in Nat
      /\ steadyFor' <= steadyFor + d /\ steadyFor' \in 0..Horizon
      /\ steadyFor' = Steadier(d)
      /\ step = "apply" /\ step' = "wait" /\ Recorded(d) /\ backoff' = NextBackoff
      /\ repeated' = repeated /\ repeated \in 0..FrozenRepeatCount
      /\ unchangedFor' = Older(unchangedFor, d) /\ unchangedFor \in Age
      /\ FrozenRepeatCount \in Nat
  BY SteadierAge, ThresholdsAssumption, PacingAssumption
  DEF LoopBase, StatusTypeOK, Apply, Rest
<1>2. repeated > 0 =>
        unchangedFor' >= steadyFor' - FirstAsked /\ unchangedFor' # Never
  BY <1>1, RunAges, OlderAge DEF RepeatingInv, LoopBase
<1>3. CASE steadyFor <= PollTimeout
  <2>1. steadyFor' <= Work
    BY <1>1, <1>3, Durations
  <2>2. QED
    BY <1>1, <1>2, <2>1 DEF RepeatingInv
<1>4. CASE repeated = FrozenRepeatCount /\ verdict = "frozen"
  <2>1. repeated > 0 /\ backoff' = 0
    BY <1>1, <1>4, BackoffBounded, ThresholdsAssumption
  <2>2. latest' = "frozen" /\ latestUnchanged' = unchangedFor'
    BY <1>1, <1>4 DEF Recorded, LastAttempt
  <2>3. ReportedFrozen'
    BY <1>1, <1>2, <1>4, <2>1, <2>2 DEF ReportedFrozen
  <2>4. QED
    BY <1>1, <1>2, <2>3 DEF RepeatingInv
<1>5. CASE /\ repeated > 0 /\ repeated # FrozenRepeatCount /\ verdict = "authoritative"
           /\ ReportedFrozen \/ steadyFor <= AskedAfter(repeated - 1) + PollTimeout
  <2>1. repeated \in 1..(FrozenRepeatCount - 1) /\ repeated - 1 \in Nat
    BY <1>1, <1>5
  <2>2. steadyFor <= AskedAfter(repeated - 1) + PollTimeout
    BY <1>5 DEF ReportedFrozen
  <2>3. AskedAfter(repeated - 1) \in Nat
    BY <2>1, AskedAgain
  <2>4. steadyFor' <= AskedAfter(repeated - 1) + Work
    BY <1>1, <2>2, <2>3, Durations
  <2>5. AskedAfter(repeated - 1)' = AskedAfter(repeated - 1)
    BY <1>1 DEF AskedAfter
  <2>6. backoff' = 0
    BY <1>1, <1>5, BackoffBounded
  <2>7. QED
    BY <1>1, <1>2, <2>1, <2>4, <2>5, <2>6 DEF RepeatingInv
<1>6. QED
  BY <1>1, <1>3, <1>4, <1>5 DEF RepeatingInv

LEMMA RepeatingInductive ==
  LoopBase /\ RepeatingInv /\ [StatusNext]_statusVars => RepeatingInv'
<1> SUFFICES ASSUME LoopBase, RepeatingInv, [StatusNext]_statusVars PROVE RepeatingInv'
  OBVIOUS
<1>1. ASSUME steadyFor' = 0, LoopBase',
             step' = "wait" \/ UNCHANGED <<step, repeated>>
      PROVE  RepeatingInv'
  <2>1. /\ 0 <= Work /\ 0 <= FirstAsked /\ 0 <= PollTimeout
        /\ Work \in Nat /\ FirstAsked \in Nat /\ PollTimeout \in Nat
        /\ step' \in {"wait", "poll", "apply"}
    BY <1>1, Durations DEF LoopBase, StatusTypeOK
  <2>2. repeated' > 0 => unchangedFor' >= steadyFor' - FirstAsked
    BY <1>1, <2>1 DEF LoopBase, StatusTypeOK, Age, Never
  <2>3. steadyFor' <= AskedAfter(Smaller(repeated', FrozenRepeatCount - 1))
    <3>1. Smaller(repeated', FrozenRepeatCount - 1) \in Nat
      BY <1>1, ThresholdsAssumption DEF Smaller, LoopBase, StatusTypeOK
    <3>2. QED
      BY <1>1, <3>1, <2>1, AskedAgain
  <2>4. AskedAfter(Smaller(repeated', FrozenRepeatCount - 1))
          = AskedAfter(Smaller(repeated, FrozenRepeatCount - 1))'
    BY DEF AskedAfter, Smaller
  <2>5. QED
    BY <1>1, <2>1, <2>2, <2>3, <2>4 DEF RepeatingInv
<1>2. CASE SourceTurns
  BY <1>1, <1>2, TurnKeepsBase DEF SourceTurns, loop, memory
<1>3. CASE \E wait \in Waits : StartPoll(wait)
  BY <1>3, StartKeepsRepeating
<1>4. CASE \E behaviour \in Behaviour, d \in 0..PollTimeout : FinishPoll(behaviour, d)
  BY <1>4, FinishKeepsRepeating
<1>5. CASE \E d \in 0..ApplyTime : Apply(d)
  BY <1>5, ApplyKeepsRepeating
<1>6. CASE \E d \in 0..ApplyTime : ApplyFails(d)
  BY <1>1, <1>6, ApplyFailsKeepsBase DEF ApplyFails, Rest
<1>7. CASE Restart
  BY <1>1, <1>7, RestartKeepsBase DEF Restart
<1>8. CASE UNCHANGED statusVars
  BY <1>8 DEF statusVars, environment, loop, memory, log, RepeatingInv, ReportedFrozen,
     AskedAfter
<1>9. QED
  BY <1>2, <1>3, <1>4, <1>5, <1>6, <1>7, <1>8 DEF StatusNext

(***************************************************************************)
(* A source that repeats one snapshot is reported down by the time the     *)
(* snapshot is FROZEN_DOWN_AFTER old, or has been repeated often enough    *)
(* (classifyPayloadHistory with classifySourceStatus).                     *)
(***************************************************************************)
THEOREM FrozenReportedDownCorrect == StatusSpec => []FrozenReportedDown
<1>1. StatusInit => RepeatingInv
  BY Durations DEF StatusInit, RepeatingInv
<1>2. LoopBase /\ RepeatingInv => FrozenReportedDown
  <2> SUFFICES ASSUME LoopBase, RepeatingInv, source = "repeating",
                      steadyFor > FirstAsked + FrozenDownAfter,
                      steadyFor > FirstAsked + Repetitions
               PROVE  SourceStatus = "down"
    BY DEF FrozenReportedDown
  <2> DEFINE last == AskedAfter(FrozenRepeatCount - 1)
  <2>1. /\ steadyFor \in Nat /\ step \in {"wait", "poll", "apply"}
        /\ repeated \in 0..FrozenRepeatCount /\ FrozenDownAfter \in Nat
        /\ FrozenRepeatCount \in Nat /\ FrozenRepeatCount >= 2
    BY ThresholdsAssumption DEF LoopBase, StatusTypeOK
  <2>2. last \in Nat /\ last >= FirstAsked /\ FirstAsked + Repetitions = last + Work
    <3>1. FrozenRepeatCount - 1 \in Nat
      BY <2>1
    <3>2. last \in Nat /\ last >= FirstAsked
      BY <3>1, AskedAgain
    <3>3. (FrozenRepeatCount - 1) * Cycle \in Nat
      BY <3>1, Durations
    <3>4. FirstAsked + ((FrozenRepeatCount - 1) * Cycle + Work)
            = FirstAsked + (FrozenRepeatCount - 1) * Cycle + Work
      BY <3>3, Durations
    <3>5. QED
      BY <3>2, <3>4 DEF AskedAfter, Repetitions
  <2>3. ~(steadyFor <= Work) /\ ~(steadyFor <= PollTimeout)
        /\ ~(steadyFor <= last + Work) /\ ~(steadyFor <= last)
        /\ ~(steadyFor <= last + PollTimeout)
    BY <2>1, <2>2, Durations
  <2>4. ASSUME NEW n \in Nat, n <= FrozenRepeatCount - 1
        PROVE  ~(steadyFor <= AskedAfter(n) + Work) /\ ~(steadyFor <= AskedAfter(n))
               /\ ~(steadyFor <= AskedAfter(n) + PollTimeout)
    <3>1. AskedAfter(n) <= last /\ AskedAfter(n) \in Nat
      BY <2>1, <2>4, AskedInOrder, AskedAgain
    <3> HIDE DEF last
    <3>2. QED
      BY <2>1, <2>2, <2>3, <3>1, Durations
  <2>5. ReportedFrozen
    <3>1. CASE step = "wait"
      BY <2>1, <2>3, <2>4, <3>1 DEF RepeatingInv
    <3>2. CASE step = "poll"
      <4>1. Smaller(repeated, FrozenRepeatCount - 1) \in Nat
            /\ Smaller(repeated, FrozenRepeatCount - 1) <= FrozenRepeatCount - 1
        BY <2>1 DEF Smaller
      <4>2. QED
        BY <2>4, <3>2, <4>1 DEF RepeatingInv
    <3>3. CASE step = "apply"
      <4>1. repeated > 0 /\ (ReportedFrozen \/ steadyFor <= AskedAfter(repeated - 1) + PollTimeout)
        BY <2>3, <3>3 DEF RepeatingInv
      <4>2. repeated - 1 \in Nat /\ repeated - 1 <= FrozenRepeatCount - 1
        BY <2>1, <4>1
      <4>3. QED
        BY <2>4, <4>1, <4>2
    <3>4. QED
      BY <2>1, <3>1, <3>2, <3>3
  <2>6. latest = "frozen" /\ latestUnchanged >= FrozenDownAfter
    <3>1. latestUnchanged \in Int /\ latestUnchanged >= steadyFor - FirstAsked
      BY <2>5, ThresholdsAssumption DEF ReportedFrozen, LoopBase, StatusTypeOK, Age
    <3>2. QED
      BY <2>1, <2>5, <3>1, Durations DEF ReportedFrozen
  <2>7. QED
    BY <2>6 DEF Down, SourceStatus
<1>3. QED
  BY <1>1, <1>2, LoopBaseInit, LoopBaseInductive, RepeatingInductive, PTL DEF StatusSpec
=============================================================================
