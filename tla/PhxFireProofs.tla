--------------------------- MODULE PhxFireProofs ---------------------------
(***************************************************************************)
(* Proofs about the client for every set of payloads and every policy.     *)
(***************************************************************************)
EXTENDS PhxFireProperties, SequenceTheorems, FiniteSetTheorems, TLAPS

\* Types, and that every poll that was counted returned a real payload.
ClientBase ==
  /\ ClientTypeOK
  /\ \A n \in DOMAIN results :
       results[n].verdict \in {"authoritative", "frozen"}
         => results[n].payload \in Payload

(***************************************************************************)
(* Answering a poll adds one result, which keeps the types of the list.    *)
(***************************************************************************)
LEMMA FinishFacts ==
  ASSUME ClientBase, NEW r \in PollResult, Finish(r),
         r.verdict \in {"authoritative", "frozen"} => r.payload \in Payload
  PROVE  /\ results' \in Seq(PollResult)
         /\ Len(results') = Len(results) + 1
         /\ Len(results) \in Nat
         /\ probing' = NoPayload
         /\ \A n \in DOMAIN results' :
              results'[n].verdict \in {"authoritative", "frozen"}
                => results'[n].payload \in Payload
<1>1. results \in Seq(PollResult) /\ results' = Append(results, r)
  BY DEF ClientBase, ClientTypeOK, Finish
<1>2. /\ results' \in Seq(PollResult)
      /\ Len(results') = Len(results) + 1
      /\ Len(results) \in Nat
  BY <1>1
<1>3. DOMAIN results' = 1..(Len(results) + 1) /\ DOMAIN results = 1..Len(results)
  BY <1>1, <1>2, LenProperties
<1>4. ASSUME NEW n \in DOMAIN results',
             results'[n].verdict \in {"authoritative", "frozen"}
      PROVE  results'[n].payload \in Payload
  <2>1. CASE n = Len(results) + 1
    <3>1. results'[n] = r
      BY <2>1, <1>1
    <3>2. QED
      BY <3>1, <1>4
  <2>2. CASE n # Len(results) + 1
    <3>1. n \in 1..Len(results) /\ results'[n] = results[n]
      BY <2>2, <1>1, <1>2, <1>3
    <3>2. QED
      BY <3>1, <1>3, <1>4 DEF ClientBase
  <2>3. QED
    BY <2>1, <2>2
<1>5. QED
  BY <1>2, <1>4 DEF Finish

(***************************************************************************)
(* Counting a snapshot keeps the types, whichever way it is classified.    *)
(***************************************************************************)
LEMMA ClassifyKeepsBase ==
  ASSUME ClientBase, NEW p \in Payload, NEW probed \in BOOLEAN,
         ClassifyPayloadHistory(p, probed), UNCHANGED <<bornAt, restarts>>
  PROVE  ClientBase'
<1> DEFINE repeats == IF p = lastPayloadSHA THEN repeatedPayloads + 1 ELSE 1
           since == IF p = lastPayloadSHA THEN unchangedSince ELSE Len(results) + 1
           verdict == IF repeats >= FrozenRepeatCount THEN "frozen" ELSE "authoritative"
<1>1. Len(results) \in Nat
  BY DEF ClientBase, ClientTypeOK
<1>2. since \in Nat /\ repeats \in Nat /\ FeatureCount[p] \in Nat
  BY <1>1, PayloadAssumption DEF ClientBase, ClientTypeOK
<1>3. CASE FeatureCount[p] = 0
  <2> DEFINE r == Result(p, "authoritative", probed, 0)
  <2>1. r \in PollResult /\ r.payload = p
    BY DEF PollResult, Result, Verdict
  <2>2. Finish(r) /\ Forget
    BY <1>3 DEF ClassifyPayloadHistory
  <2> HIDE DEF r
  <2>3. QED
    BY <2>1, <2>2, <1>1, FinishFacts DEF ClientBase, ClientTypeOK, Forget
<1>4. CASE FeatureCount[p] # 0
  <2> DEFINE r == Result(p, verdict, probed, since)
  <2>1. r \in PollResult /\ r.payload = p
    BY <1>2 DEF PollResult, Result, Verdict
  <2>2. /\ Finish(r)
        /\ lastPayloadSHA' = p
        /\ repeatedPayloads' = repeats
        /\ unchangedSince' = since
        /\ lastAuthoritativeCount' \in {lastAuthoritativeCount, FeatureCount[p]}
    BY <1>4 DEF ClassifyPayloadHistory
  <2> HIDE DEF r, repeats, since
  <2>3. QED
    BY <2>1, <2>2, <1>1, <1>2, FinishFacts DEF ClientBase, ClientTypeOK
<1>5. QED
  BY <1>3, <1>4

(***************************************************************************)
(* Every step of the client, and a restart, keeps the types.               *)
(***************************************************************************)
LEMMA ClientBaseInductive == ClientBase /\ [ClientNext]_clientVars => ClientBase'
<1> SUFFICES ASSUME ClientBase, [ClientNext]_clientVars PROVE ClientBase'
  OBVIOUS
<1>1. ASSUME NEW verdict \in {"failure", "degraded"}, PollRejected(verdict)
      PROVE  ClientBase'
  <2> DEFINE r == Result(NoPayload, verdict, FALSE, 0)
  <2>1. r \in PollResult /\ r.verdict = verdict
    BY DEF PollResult, Result, Verdict
  <2>2. Finish(r) /\ UNCHANGED <<history, bornAt, restarts>>
    BY <1>1 DEF PollRejected
  <2> HIDE DEF r
  <2>3. QED
    BY <2>1, <2>2, FinishFacts DEF ClientBase, ClientTypeOK, history
<1>2. ASSUME NEW p \in Payload, PollFetched(p)
      PROVE  ClientBase'
  <2>1. CASE RequiresCountConfirmation(FeatureCount[p])
    BY <1>2, <2>1 DEF PollFetched, ClientBase, ClientTypeOK, history
  <2>2. CASE ~RequiresCountConfirmation(FeatureCount[p])
    BY <1>2, <2>2, ClassifyKeepsBase DEF PollFetched
  <2>3. QED
    BY <2>1, <2>2
<1>3. ASSUME NEW agrees \in BOOLEAN, FetchCount(agrees)
      PROVE  ClientBase'
  <2>1. probing \in Payload
    BY <1>3 DEF FetchCount, ClientBase, ClientTypeOK
  <2>2. CASE agrees
    BY <1>3, <2>1, <2>2, ClassifyKeepsBase DEF FetchCount
  <2>3. CASE ~agrees
    <3> DEFINE r == Result(probing, "incomplete", TRUE, 0)
    <3>1. r \in PollResult /\ r.verdict = "incomplete"
      BY <2>1 DEF PollResult, Result, Verdict
    <3>2. Finish(r) /\ UNCHANGED <<history, bornAt, restarts>>
      BY <1>3, <2>3 DEF FetchCount
    <3> HIDE DEF r
    <3>3. QED
      BY <3>1, <3>2, FinishFacts DEF ClientBase, ClientTypeOK, history
  <2>4. QED
    BY <2>2, <2>3
<1>4. CASE Restart
  BY <1>4, ResultBoundsAssumption DEF Restart, Forget, ClientBase, ClientTypeOK
<1>5. CASE UNCHANGED clientVars
  BY <1>5 DEF clientVars, history, ClientBase, ClientTypeOK
<1>6. QED
  BY <1>1, <1>2, <1>3, <1>4, <1>5 DEF ClientNext, ClientStep

(***************************************************************************)
(* The client starts with nothing remembered.                              *)
(***************************************************************************)
LEMMA ClientBaseInit == ClientInit => ClientBase
BY ResultBoundsAssumption DEF ClientInit, Forgotten, ClientBase, ClientTypeOK

(***************************************************************************)
(* The client's variables keep their types: in particular a verdict is one *)
(* of the five of Poll (168-235) and no result is ever taken back.         *)
(***************************************************************************)
THEOREM ClientTypeCorrect == ClientSpec => []ClientTypeOK
<1>1. ClientBase => ClientTypeOK
  BY DEF ClientBase
<1>2. QED
  BY <1>1, ClientBaseInit, ClientBaseInductive, PTL DEF ClientSpec

-----------------------------------------------------------------------------
(***************************************************************************)
(* The last and the first of a set of polls.                               *)
(***************************************************************************)
LEMMA LatestIs ==
  ASSUME NEW S, S \subseteq Nat, NEW n \in S, \A m \in S : m <= n
  PROVE  Latest(S) = n
<1>1. Latest(S) \in S /\ \A m \in S : m <= Latest(S)
  BY Zenon DEF Latest
<1>2. n <= Latest(S) /\ Latest(S) <= n /\ n \in Nat /\ Latest(S) \in Nat
  BY <1>1
<1>3. QED
  BY <1>2

LEMMA EarliestIs ==
  ASSUME NEW S, S \subseteq Nat, NEW n \in S, \A m \in S : n <= m
  PROVE  Earliest(S) = n
<1>1. Earliest(S) \in S /\ \A m \in S : Earliest(S) <= m
  BY Zenon DEF Earliest
<1>2. n <= Earliest(S) /\ Earliest(S) <= n /\ n \in Nat /\ Earliest(S) \in Nat
  BY <1>1
<1>3. QED
  BY <1>2

(***************************************************************************)
(* The memory, with its CHOOSEs opened.                                    *)
(***************************************************************************)
IsLast(n, S) == n \in S /\ \A m \in S : m <= n
IsFirst(n, S) == n \in S /\ \A m \in S : n <= m

CountOf(n) == FeatureCount[results[n].payload]

RemembersNothing == Counted = {} /\ Forgotten
RemembersEmpty(n) ==
  CountOf(n) = 0 /\ results[n].verdict = "authoritative" /\ Forgotten
RemembersRun(n) ==
  /\ CountOf(n) > 0
  /\ lastPayloadSHA = results[n].payload
  /\ IsFiniteSet(RunUpTo(n)) /\ repeatedPayloads = Cardinality(RunUpTo(n))
  /\ IsFirst(unchangedSince, RunUpTo(n))
  /\ \E a \in Authoritative :
       IsLast(a, Authoritative) /\ lastAuthoritativeCount = CountOf(a)

RunMemory ==
  \/ RemembersNothing
  \/ \E n \in Counted : IsLast(n, Counted) /\ (RemembersEmpty(n) \/ RemembersRun(n))

LEMMA CountedFacts ==
  ASSUME ClientBase
  PROVE  /\ Len(results) \in Nat /\ bornAt \in Nat /\ bornAt <= Len(results)
         /\ DOMAIN results = 1..Len(results)
         /\ Counted \subseteq 1..Len(results) /\ Authoritative \subseteq Counted
         /\ \A n \in Counted : results[n].payload \in Payload /\ CountOf(n) \in Nat
<1>1. /\ Len(results) \in Nat /\ bornAt \in Nat /\ bornAt <= Len(results)
      /\ DOMAIN results = 1..Len(results)
  BY LenProperties DEF ClientBase, ClientTypeOK
<1>2. Counted \subseteq 1..Len(results) /\ Authoritative \subseteq Counted
  BY <1>1 DEF Counted, Authoritative
<1>3. \A n \in Counted : results[n].payload \in Payload
  BY <1>1, <1>2 DEF Counted, ClientBase
<1>4. QED
  BY <1>1, <1>2, <1>3, PayloadAssumption DEF CountOf

(***************************************************************************)
(* One more answer, counted or not.                                        *)
(***************************************************************************)
LEMMA AnswerAdded ==
  ASSUME ClientBase, NEW r \in PollResult, Finish(r), UNCHANGED bornAt
  PROVE  LET N == Len(results) + 1 IN
         /\ N \in Nat /\ results'[N] = r
         /\ \A k \in Counted : k < N /\ results'[k] = results[k]
         /\ Counted' = IF r.verdict \in {"authoritative", "frozen"}
                         THEN Counted \union {N} ELSE Counted
         /\ Authoritative' = IF r.verdict = "authoritative"
                               THEN Authoritative \union {N} ELSE Authoritative
<1> DEFINE N == Len(results) + 1
<1>1. results \in Seq(PollResult) /\ results' = Append(results, r) /\ Len(results) \in Nat
  BY DEF ClientBase, ClientTypeOK, Finish
<1>2. /\ N \in Nat /\ Len(results') = N /\ results'[N] = r
      /\ \A k \in 1..Len(results) : results'[k] = results[k]
  BY <1>1
<1>3. bornAt \in Nat /\ bornAt <= Len(results) /\ Counted \subseteq 1..Len(results)
  BY CountedFacts
<1>4. \A k \in Counted : k < N /\ results'[k] = results[k]
  BY <1>1, <1>2, <1>3
<1>5. \A k : k \in (bornAt' + 1)..Len(results') <=>
               k \in (bornAt + 1)..Len(results) \/ k = N
  BY <1>1, <1>2, <1>3
<1>6. \A k \in (bornAt + 1)..Len(results) : results'[k] = results[k] /\ k # N
  BY <1>1, <1>2, <1>3
<1>7. \A k : k \in Counted' <=>
               k \in Counted \/ (k = N /\ r.verdict \in {"authoritative", "frozen"})
  <2>1. \A k : k \in Counted' <=>
                 /\ k \in (bornAt + 1)..Len(results) \/ k = N
                 /\ results'[k].verdict \in {"authoritative", "frozen"}
    BY <1>5 DEF Counted
  <2>2. \A k \in (bornAt + 1)..Len(results) : k \in Counted' <=> k \in Counted
    BY <1>6, <2>1 DEF Counted
  <2>3. N \in Counted' <=> r.verdict \in {"authoritative", "frozen"}
    BY <1>2, <2>1
  <2>4. \A k \in Counted : k \in (bornAt + 1)..Len(results)
    BY DEF Counted
  <2>5. QED
    BY <2>1, <2>2, <2>3, <2>4
<1>8. \A k : k \in Authoritative' <=>
               k \in Authoritative \/ (k = N /\ r.verdict = "authoritative")
  <2>1. \A k : k \in Authoritative' <=>
                 k \in Counted' /\ results'[k].verdict = "authoritative"
    BY DEF Authoritative
  <2>2. QED
    BY <1>2, <1>4, <1>7, <2>1 DEF Authoritative
<1>9. Counted' = IF r.verdict \in {"authoritative", "frozen"}
                   THEN Counted \union {N} ELSE Counted
  BY <1>7
<1>10. Authoritative' = IF r.verdict = "authoritative"
                          THEN Authoritative \union {N} ELSE Authoritative
  BY <1>8
<1>11. QED
  BY <1>2, <1>4, <1>9, <1>10

(***************************************************************************)
(* An answer changes nothing that was said of the earlier counted polls.   *)
(***************************************************************************)
LEMMA RunsStand ==
  ASSUME ClientBase, NEW r \in PollResult, Finish(r), UNCHANGED bornAt,
         NEW n \in Counted
  PROVE  /\ RunUpTo(n)' = RunUpTo(n) /\ CountOf(n)' = CountOf(n)
         /\ {m \in Authoritative' : m < n} = {m \in Authoritative : m < n}
<1> DEFINE N == Len(results) + 1
<1>1. /\ N \in Nat /\ results'[N] = r
      /\ \A k \in Counted : k < N /\ results'[k] = results[k]
      /\ Counted' = Counted \/ Counted' = Counted \union {N}
      /\ Authoritative' = Authoritative \/ Authoritative' = Authoritative \union {N}
  BY AnswerAdded
<1>2. \A k \in Counted : k \in Nat
  BY CountedFacts
<1> HIDE DEF N
<1>3. \A k \in Counted' : k <= n => k \in Counted
  BY <1>1, <1>2
<1>4. \A k \in Counted : k \in Counted'
  BY <1>1
<1>5. \A k \in Authoritative : k \in Authoritative'
  BY <1>1
<1>6. \A k \in Authoritative' : k < n => k \in Authoritative
  BY <1>1, <1>2
<1>7. ASSUME NEW k, k \in RunUpTo(n)' PROVE k \in RunUpTo(n)
  <2>1. /\ k \in Counted' /\ k <= n
        /\ \A j \in Counted' : j \in k..n => results'[j].payload = results'[n].payload
    BY <1>7 DEF RunUpTo
  <2>2. k \in Counted
    BY <2>1, <1>3
  <2>3. ASSUME NEW j \in Counted, j \in k..n
        PROVE  results[j].payload = results[n].payload
    BY <2>1, <2>3, <1>1, <1>4
  <2>4. QED
    BY <2>1, <2>2, <2>3 DEF RunUpTo
<1>8. ASSUME NEW k, k \in RunUpTo(n) PROVE k \in RunUpTo(n)'
  <2>1. /\ k \in Counted /\ k <= n
        /\ \A j \in Counted : j \in k..n => results[j].payload = results[n].payload
    BY <1>8 DEF RunUpTo
  <2>2. k \in Counted'
    BY <2>1, <1>4
  <2>3. ASSUME NEW j \in Counted', j \in k..n
        PROVE  results'[j].payload = results'[n].payload
    <3>1. k \in Int /\ n \in Int /\ j \in Int /\ j <= n
      BY <2>1, <2>3, <1>2
    <3>2. j \in Counted
      BY <3>1, <1>3
    <3>3. QED
      BY <2>1, <2>3, <3>2, <1>1
  <2>4. QED
    BY <2>1, <2>2, <2>3 DEF RunUpTo
<1>9. RunUpTo(n)' = RunUpTo(n)
  BY <1>7, <1>8, Zenon
<1>10. CountOf(n)' = CountOf(n)
  BY <1>1 DEF CountOf
<1>11. {m \in Authoritative' : m < n} = {m \in Authoritative : m < n}
  BY <1>5, <1>6
<1>12. QED
  BY <1>9, <1>10, <1>11

(***************************************************************************)
(* What the verdicts say of each counted poll, one poll at a time.         *)
(***************************************************************************)
FrozenAt(n) ==
  /\ results[n].verdict = "frozen"
       <=> CountOf(n) > 0 /\ Cardinality(RunUpTo(n)) >= FrozenRepeatCount
  /\ results[n].verdict = "frozen" => results[n].since = Earliest(RunUpTo(n))

\* The collapse property at one poll, with the CHOOSE opened.
ConfirmedAt(n) ==
  \/ results[n].probed
  \/ /\ CountOf(n) > 0
     /\ LET before == {m \in Authoritative : m < n} IN
        \/ before = {}
        \/ \E a \in before :
             /\ IsLast(a, before)
             /\ CountOf(a) > 0 => ~DropIsSudden(CountOf(a), CountOf(n))

VerdictsInv ==
  /\ \A n \in Counted : FrozenAt(n)
  /\ \A n \in Authoritative : ConfirmedAt(n)

ClientInv == ClientBase /\ RunMemory /\ VerdictsInv

LEMMA VerdictsStand ==
  ASSUME ClientBase, NEW r \in PollResult, Finish(r), UNCHANGED bornAt,
         NEW n \in Counted
  PROVE  /\ FrozenAt(n) => FrozenAt(n)'
         /\ ConfirmedAt(n) => ConfirmedAt(n)'
<1> DEFINE before == {m \in Authoritative : m < n}
<1>1. /\ RunUpTo(n)' = RunUpTo(n) /\ CountOf(n)' = CountOf(n)
      /\ {m \in Authoritative' : m < n} = before
      /\ results'[n] = results[n]
  BY RunsStand, AnswerAdded
<1>2. FrozenAt(n) => FrozenAt(n)'
  BY <1>1, Zenon DEF FrozenAt
<1>3. \A a \in before : CountOf(a)' = CountOf(a)
  BY RunsStand, CountedFacts
<1>4. before' = before
  BY <1>1
<1>5. ConfirmedAt(n) <=>
        \/ results[n].probed
        \/ /\ CountOf(n) > 0
           /\ \/ before = {}
              \/ \E a \in before :
                   /\ IsLast(a, before)
                   /\ CountOf(a) > 0 => ~DropIsSudden(CountOf(a), CountOf(n))
  BY DEF ConfirmedAt
<1>6. ConfirmedAt(n)' <=>
        \/ results'[n].probed
        \/ /\ CountOf(n)' > 0
           /\ \/ before' = {}
              \/ \E a \in before' :
                   /\ IsLast(a, before')
                   /\ CountOf(a)' > 0 => ~DropIsSudden(CountOf(a)', CountOf(n)')
  BY DEF ConfirmedAt, IsLast, DropIsSudden
<1> HIDE DEF before
<1>7. ConfirmedAt(n) => ConfirmedAt(n)'
  BY <1>1, <1>3, <1>4, <1>5, <1>6, Zenon
<1>8. QED
  BY <1>2, <1>7

(***************************************************************************)
(* An answer that is not counted leaves the memory and the verdicts true.  *)
(***************************************************************************)
LEMMA UncountedKeeps ==
  ASSUME ClientInv, NEW r \in PollResult, Finish(r), UNCHANGED <<history, bornAt>>,
         r.verdict \notin {"authoritative", "frozen"}
  PROVE  RunMemory' /\ VerdictsInv'
<1>1. ClientBase /\ UNCHANGED bornAt
  BY DEF ClientInv
<1>2. Counted' = Counted /\ Authoritative' = Authoritative
  BY <1>1, AnswerAdded
<1>3. \A k \in Counted : results'[k] = results[k]
  BY <1>1, AnswerAdded
<1>4. \A k \in Counted : RunUpTo(k)' = RunUpTo(k) /\ CountOf(k)' = CountOf(k)
  BY <1>1, RunsStand
<1>5. Authoritative \subseteq Counted
  BY DEF Authoritative
<1>6. VerdictsInv'
  BY <1>1, <1>2, <1>5, VerdictsStand DEF ClientInv, VerdictsInv
<1>7. CASE RemembersNothing
  BY <1>2, <1>6, <1>7 DEF RunMemory, RemembersNothing, Forgotten, history
<1>8. ASSUME NEW n \in Counted, IsLast(n, Counted), RemembersEmpty(n)
      PROVE  RunMemory'
  <2>1. RemembersEmpty(n)'
    BY <1>3, <1>4, <1>8 DEF RemembersEmpty, Forgotten, history
  <2>2. IsLast(n, Counted)'
    BY <1>2, <1>8 DEF IsLast
  <2>3. QED
    BY <1>2, <2>1, <2>2 DEF RunMemory
<1>9. ASSUME NEW n \in Counted, IsLast(n, Counted), RemembersRun(n)
      PROVE  RunMemory'
  <2>1. IsLast(n, Counted)'
    BY <1>2, <1>9 DEF IsLast
  <2>2. PICK a \in Authoritative :
          IsLast(a, Authoritative) /\ lastAuthoritativeCount = CountOf(a)
    BY <1>9 DEF RemembersRun
  <2>3. IsLast(a, Authoritative)' /\ lastAuthoritativeCount' = CountOf(a)'
    BY <1>2, <1>4, <1>5, <2>2 DEF IsLast, history
  <2>4. /\ CountOf(n)' > 0 /\ lastPayloadSHA' = results'[n].payload
        /\ IsFiniteSet(RunUpTo(n)') /\ repeatedPayloads' = Cardinality(RunUpTo(n)')
    BY <1>3, <1>4, <1>9 DEF RemembersRun, history
  <2>5. IsFirst(unchangedSince, RunUpTo(n))'
    BY <1>4, <1>9 DEF RemembersRun, IsFirst, history
  <2>6. RemembersRun(n)'
    BY <1>2, <2>3, <2>4, <2>5 DEF RemembersRun
  <2>7. QED
    BY <1>2, <2>1, <2>6 DEF RunMemory
<1>10. QED
  BY <1>6, <1>7, <1>8, <1>9 DEF ClientInv, RunMemory

(***************************************************************************)
(* The run of the newest counted poll: alone, or one longer than the run   *)
(* of the poll before it.                                                  *)
(***************************************************************************)
LEMMA RunAlone ==
  ASSUME ClientBase, NEW r \in PollResult, Finish(r), UNCHANGED bornAt,
         NEW N, N = Len(results) + 1,
         r.verdict \in {"authoritative", "frozen"},
         \/ Counted = {}
         \/ \E n \in Counted : IsLast(n, Counted) /\ results[n].payload # r.payload
  PROVE  RunUpTo(N)' = {N}
<1>1. /\ N \in Nat /\ results'[N] = r /\ Counted' = Counted \union {N}
      /\ \A k \in Counted : k < N /\ k \in Nat /\ results'[k] = results[k]
  BY AnswerAdded, CountedFacts
<1> SUFFICES {k \in Counted' :
                /\ k <= N
                /\ \A j \in Counted' : j \in k..N => results'[j].payload = results'[N].payload}
             = {N}
  BY DEF RunUpTo
<1>3. ASSUME NEW j \in Counted', j \in N..N
      PROVE  results'[j].payload = results'[N].payload
  <2>1. j = N
    BY <1>1, <1>3
  <2>2. QED
    BY <2>1
<1>4. ASSUME NEW k \in Counted, \A j \in Counted' : j \in k..N =>
                                  results'[j].payload = results'[N].payload
      PROVE  FALSE
  <2>1. PICK n \in Counted : IsLast(n, Counted) /\ results[n].payload # r.payload
    BY <1>4
  <2>2. n \in k..N /\ n \in Counted'
    BY <2>1, <1>1 DEF IsLast
  <2>3. QED
    BY <2>1, <2>2, <1>1, <1>4
<1>5. N \in Counted' /\ N <= N /\ \A k \in Counted' : k = N \/ k \in Counted
  BY <1>1
<1>6. QED
  BY <1>3, <1>4, <1>5, Zenon

LEMMA RunGrows ==
  ASSUME ClientBase, NEW r \in PollResult, Finish(r), UNCHANGED bornAt,
         NEW N, N = Len(results) + 1,
         r.verdict \in {"authoritative", "frozen"},
         NEW n \in Counted, IsLast(n, Counted), results[n].payload = r.payload
  PROVE  RunUpTo(N)' = RunUpTo(n) \union {N}
<1>1. /\ N \in Nat /\ results'[N] = r /\ Counted' = Counted \union {N}
      /\ \A k \in Counted : k < N /\ k \in Nat /\ results'[k] = results[k]
  BY AnswerAdded, CountedFacts
<1> SUFFICES {k \in Counted' :
                /\ k <= N
                /\ \A j \in Counted' : j \in k..N => results'[j].payload = results'[N].payload}
             = RunUpTo(n) \union {N}
  BY DEF RunUpTo
<1> DEFINE New(k) == /\ k <= N
                     /\ \A j \in Counted' : j \in k..N =>
                          results'[j].payload = results'[N].payload
<1>2. New(N)
  <2>1. ASSUME NEW j \in Counted', j \in N..N
        PROVE  results'[j].payload = results'[N].payload
    <3>1. j = N
      BY <1>1, <2>1
    <3>2. QED
      BY <3>1
  <2>2. QED
    BY <2>1, <1>1
<1>3. ASSUME NEW k \in Counted, New(k) PROVE k \in RunUpTo(n)
  <2>1. k <= n
    BY DEF IsLast
  <2>2. ASSUME NEW j \in Counted, j \in k..n PROVE results[j].payload = results[n].payload
    <3>1. j \in k..N /\ j \in Counted'
      BY <1>1, <2>2
    <3>2. QED
      BY <3>1, <1>1, <1>3
  <2>3. QED
    BY <2>1, <2>2 DEF RunUpTo
<1>4. ASSUME NEW k \in RunUpTo(n) PROVE k \in Counted /\ New(k)
  <2>1. k \in Counted /\ \A j \in Counted : j \in k..n => results[j].payload = results[n].payload
    BY DEF RunUpTo
  <2>2. ASSUME NEW j \in Counted', j \in k..N
        PROVE  results'[j].payload = results'[N].payload
    <3>1. CASE j = N
      BY <3>1
    <3>2. CASE j # N
      <4>1. j \in Counted
        BY <3>2, <1>1
      <4>2. j \in k..n
        BY <4>1, <2>1, <2>2, <1>1 DEF IsLast
      <4>3. QED
        BY <4>1, <4>2, <2>1, <1>1
    <3>3. QED
      BY <3>1, <3>2
  <2>3. k <= N
    BY <2>1, <1>1
  <2>4. QED
    BY <2>1, <2>2, <2>3
<1> HIDE DEF New
<1>5. {k \in Counted' : New(k)} = RunUpTo(n) \union {N}
  <2>1. \A k \in Counted' : k = N \/ k \in Counted
    BY <1>1
  <2>2. N \in Counted' /\ \A k \in Counted : k \in Counted'
    BY <1>1
  <2>3. QED
    BY <2>1, <2>2, <1>2, <1>3, <1>4
<1>6. QED
  BY <1>5 DEF New

(***************************************************************************)
(* The arithmetic of a collapse: RequiresCountConfirmation (324-335) asks  *)
(* about what is left, the property about what was lost.                   *)
(***************************************************************************)
LEMMA NoSuddenDrop ==
  ASSUME NEW last \in Nat, NEW count \in Nat, last > 0,
         ~(count * 100 <= last * (100 - SuddenCollapsePercent))
  PROVE  ~DropIsSudden(last, count)
<1>1. SuddenCollapsePercent \in Int
  BY PolicyAssumption
<1> DEFINE S == SuddenCollapsePercent
<1> HIDE DEF S
<1>2. S \in Int /\ ~(count * 100 <= last * (100 - S))
  BY <1>1 DEF S
<1>3. last * (100 - S) = last * 100 - last * S
  BY <1>2, SMT
<1>4. (last - count) * 100 = last * 100 - count * 100
  BY SMT
<1> DEFINE product == last * S
<1>5. product \in Int
  BY <1>2, SMT
<1>6. ~(count * 100 <= last * 100 - product)
  BY <1>2, <1>3
<1> HIDE DEF product
<1>7. ~(last * 100 - count * 100 >= product)
  BY <1>5, <1>6, SMT
<1>8. ~((last - count) * 100 >= last * S)
  BY <1>4, <1>7 DEF product
<1>9. QED
  BY <1>8 DEF DropIsSudden, S

(***************************************************************************)
(* What a client that counts a poll remembers: the run before it, if the   *)
(* payload is the remembered one, and the last authoritative count.        *)
(***************************************************************************)
LEMMA MemoryBefore ==
  ASSUME ClientInv, NEW p \in Payload, FeatureCount[p] # 0
  PROVE  /\ p = lastPayloadSHA =>
              \E n \in Counted : /\ IsLast(n, Counted) /\ results[n].payload = p
                                 /\ RemembersRun(n)
         /\ p # lastPayloadSHA =>
              \/ Counted = {}
              \/ \E n \in Counted : IsLast(n, Counted) /\ results[n].payload # p
<1>1. ClientBase /\ RunMemory
  BY DEF ClientInv
<1>2. CASE RemembersNothing
  BY <1>2, PayloadAssumption DEF RemembersNothing, Forgotten
<1>3. ASSUME NEW n \in Counted, IsLast(n, Counted), RemembersEmpty(n)
      PROVE  p # lastPayloadSHA /\ results[n].payload # p
  <2>1. CountOf(n) = 0 /\ lastPayloadSHA = NoPayload
    BY <1>3 DEF RemembersEmpty, Forgotten
  <2>2. QED
    BY <2>1, PayloadAssumption DEF CountOf
<1>4. ASSUME NEW n \in Counted, IsLast(n, Counted), RemembersRun(n)
      PROVE  lastPayloadSHA = results[n].payload
  BY <1>4 DEF RemembersRun
<1>5. QED
  BY <1>1, <1>2, <1>3, <1>4 DEF RunMemory

LEMMA LastCount ==
  ASSUME ClientInv
  PROVE  \/ Authoritative = {}
         \/ \E a \in Authoritative :
              /\ IsLast(a, Authoritative)
              /\ CountOf(a) = 0 \/ lastAuthoritativeCount = CountOf(a)
<1>1. RunMemory /\ Authoritative \subseteq Counted
  BY DEF ClientInv, Authoritative
<1>2. CASE RemembersNothing
  BY <1>1, <1>2 DEF RemembersNothing
<1>3. ASSUME NEW n \in Counted, IsLast(n, Counted), RemembersEmpty(n)
      PROVE  n \in Authoritative /\ IsLast(n, Authoritative) /\ CountOf(n) = 0
  BY <1>1, <1>3 DEF RemembersEmpty, IsLast, Authoritative
<1>4. ASSUME NEW n \in Counted, IsLast(n, Counted), RemembersRun(n)
      PROVE  \E a \in Authoritative :
               IsLast(a, Authoritative) /\ lastAuthoritativeCount = CountOf(a)
  BY <1>4 DEF RemembersRun
<1>5. QED
  BY <1>1, <1>2, <1>3, <1>4 DEF RunMemory

(***************************************************************************)
(* An authoritative answer that was not confirmed is no sudden collapse.   *)
(***************************************************************************)
LEMMA AnswerIsConfirmed ==
  ASSUME ClientInv, NEW p \in Payload, NEW r \in PollResult, Finish(r),
         UNCHANGED bornAt, NEW N, N = Len(results) + 1,
         r.payload = p, r.verdict = "authoritative",
         r.probed \/ ~RequiresCountConfirmation(FeatureCount[p])
  PROVE  ConfirmedAt(N)'
<1>1. ClientBase
  BY DEF ClientInv
<1>2. /\ N \in Nat /\ results'[N] = r
      /\ Authoritative' = Authoritative \union {N}
      /\ \A k \in Counted : k < N /\ k \in Nat
  BY <1>1, AnswerAdded, CountedFacts
<1>3. CountOf(N)' = FeatureCount[p] /\ FeatureCount[p] \in Nat
  BY <1>2, PayloadAssumption DEF CountOf
<1>4. \A k \in Authoritative : k \in Counted
  BY DEF Authoritative
<1>5. {m \in Authoritative' : m < N} = Authoritative
  BY <1>2, <1>4
<1>6. CASE r.probed
  BY <1>2, <1>6 DEF ConfirmedAt
<1>7. CASE ~r.probed
  <2>1. FeatureCount[p] > 0
    BY <1>3, <1>7 DEF RequiresCountConfirmation
  <2>2. CASE Authoritative = {}
    BY <1>3, <1>5, <2>1, <2>2 DEF ConfirmedAt
  <2>3. CASE Authoritative # {}
    <3>1. PICK a \in Authoritative :
            /\ IsLast(a, Authoritative)
            /\ CountOf(a) = 0 \/ lastAuthoritativeCount = CountOf(a)
      BY <2>3, LastCount
    <3>2. CountOf(a)' = CountOf(a) /\ CountOf(a) \in Nat
      BY <1>1, <1>4, RunsStand, CountedFacts
    <3>3. ASSUME CountOf(a) > 0
          PROVE  ~DropIsSudden(CountOf(a), FeatureCount[p])
      <4>1. lastAuthoritativeCount = CountOf(a)
        BY <3>1, <3>2, <3>3
      <4>2. ~(FeatureCount[p] * 100 <= CountOf(a) * (100 - SuddenCollapsePercent))
        BY <1>7, <3>3, <4>1 DEF RequiresCountConfirmation
      <4>3. QED
        BY <1>3, <3>2, <3>3, <4>2, NoSuddenDrop
    <3>4. IsLast(a, {m \in Authoritative' : m < N})
      BY <1>5, <3>1
    <3>5. ConfirmedAt(N)' <=>
            \/ results'[N].probed
            \/ /\ CountOf(N)' > 0
               /\ LET before == {m \in Authoritative' : m < N} IN
                  \/ before = {}
                  \/ \E b \in before :
                       /\ IsLast(b, before)
                       /\ CountOf(b)' > 0 => ~DropIsSudden(CountOf(b)', CountOf(N)')
      BY DEF ConfirmedAt, IsLast, DropIsSudden
    <3>6. QED
      BY <1>3, <1>5, <2>1, <3>1, <3>2, <3>3, <3>4, <3>5
  <2>4. QED
    BY <2>2, <2>3
<1>8. QED
  BY <1>6, <1>7

(***************************************************************************)
(* Counting an empty snapshot: the memory is wiped, and it was confirmed.  *)
(***************************************************************************)
LEMMA EmptyKeeps ==
  ASSUME ClientInv, NEW p \in Payload, NEW probed \in BOOLEAN,
         probed \/ ~RequiresCountConfirmation(FeatureCount[p]),
         FeatureCount[p] = 0,
         ClassifyPayloadHistory(p, probed), UNCHANGED <<bornAt, restarts>>
  PROVE  RunMemory' /\ VerdictsInv'
<1>0. PICK N : N = Len(results) + 1
  OBVIOUS
<1> DEFINE r == Result(p, "authoritative", probed, 0)
<1>1. r \in PollResult /\ r.payload = p /\ r.verdict = "authoritative" /\ r.probed = probed
  BY DEF PollResult, Result, Verdict
<1>2. Finish(r) /\ Forget
  BY DEF ClassifyPayloadHistory
<1> HIDE DEF r
<1>4. ClientBase /\ UNCHANGED bornAt
  BY DEF ClientInv
<1>5. /\ results'[N] = r /\ N \in Nat
      /\ Counted' = Counted \union {N} /\ Authoritative' = Authoritative \union {N}
      /\ \A k \in Counted : k < N /\ k \in Nat
  BY <1>1, <1>2, <1>0, <1>4, AnswerAdded, CountedFacts
<1>6. CountOf(N)' = 0
  BY <1>1, <1>5 DEF CountOf
<1>7. RunMemory'
  <2>1. RemembersEmpty(N)'
    BY <1>1, <1>2, <1>5, <1>6 DEF RemembersEmpty, Forgotten, Forget
  <2>2. IsLast(N, Counted)' /\ N \in Counted'
    BY <1>5 DEF IsLast
  <2>3. QED
    BY <2>1, <2>2 DEF RunMemory
<1>8. FrozenAt(N)'
  BY <1>1, <1>5, <1>6 DEF FrozenAt
<1>9. ConfirmedAt(N)'
  BY <1>1, <1>2, <1>0, <1>4, AnswerIsConfirmed
<1>10. \A k \in Counted : (FrozenAt(k) => FrozenAt(k)') /\ (ConfirmedAt(k) => ConfirmedAt(k)')
  BY <1>1, <1>2, <1>4, VerdictsStand
<1>11. \A k \in Authoritative : k \in Counted
  BY DEF Authoritative
<1>12. VerdictsInv'
  BY <1>5, <1>8, <1>9, <1>10, <1>11 DEF VerdictsInv, ClientInv
<1>13. QED
  BY <1>7, <1>12

(***************************************************************************)
(* Counting a snapshot with features: the run grows or starts again.       *)
(***************************************************************************)
LEMMA RunKeeps ==
  ASSUME ClientInv, NEW p \in Payload, NEW probed \in BOOLEAN,
         probed \/ ~RequiresCountConfirmation(FeatureCount[p]),
         FeatureCount[p] # 0,
         ClassifyPayloadHistory(p, probed), UNCHANGED <<bornAt, restarts>>
  PROVE  RunMemory' /\ VerdictsInv'
<1>0. PICK N : N = Len(results) + 1
  OBVIOUS
<1> DEFINE same == p = lastPayloadSHA
           repeats == IF same THEN repeatedPayloads + 1 ELSE 1
           since == IF same THEN unchangedSince ELSE Len(results) + 1
           frozen == repeats >= FrozenRepeatCount
           r == Result(p, IF frozen THEN "frozen" ELSE "authoritative", probed, since)
<1>1. ClientBase /\ UNCHANGED bornAt /\ Len(results) \in Nat /\ FeatureCount[p] \in Nat
  BY PayloadAssumption DEF ClientInv, ClientBase, ClientTypeOK
<1>2. /\ repeatedPayloads \in Nat /\ unchangedSince \in Nat
      /\ since \in Nat /\ repeats \in Nat
  BY <1>1 DEF ClientBase, ClientTypeOK
<1>3. /\ r \in PollResult /\ r.payload = p /\ r.probed = probed /\ r.since = since
      /\ r.verdict = IF frozen THEN "frozen" ELSE "authoritative"
  BY <1>2 DEF PollResult, Result, Verdict
<1>4. /\ Finish(r)
      /\ lastPayloadSHA' = p /\ repeatedPayloads' = repeats /\ unchangedSince' = since
      /\ lastAuthoritativeCount' =
           IF frozen THEN lastAuthoritativeCount ELSE FeatureCount[p]
  BY DEF ClassifyPayloadHistory
<1>5. N = Len(results) + 1 /\ r.verdict \in {"authoritative", "frozen"}
  BY <1>0, <1>3
<1> HIDE DEF r
<1>6. /\ results'[N] = r /\ N \in Nat
      /\ Counted' = Counted \union {N}
      /\ Authoritative' = IF frozen THEN Authoritative ELSE Authoritative \union {N}
      /\ \A k \in Counted : k < N /\ k \in Nat
  <2>1. /\ results'[N] = r /\ N \in Nat
        /\ Counted' = Counted \union {N}
        /\ Authoritative' = IF r.verdict = "authoritative"
                              THEN Authoritative \union {N} ELSE Authoritative
        /\ \A k \in Counted : k < N /\ k \in Nat
    BY <1>1, <1>3, <1>4, <1>5, AnswerAdded, CountedFacts
  <2>2. r.verdict = "authoritative" <=> ~frozen
    BY <1>3
  <2>3. QED
    BY <2>1, <2>2
<1>7. CountOf(N)' = FeatureCount[p]
  BY <1>3, <1>6 DEF CountOf
<1>8. /\ IsFiniteSet(RunUpTo(N)') /\ Cardinality(RunUpTo(N)') = repeats
      /\ since \in RunUpTo(N)' /\ \A k \in RunUpTo(N)' : since <= k
  <2>1. CASE same
    <3>1. PICK n \in Counted : /\ IsLast(n, Counted) /\ results[n].payload = p
                               /\ RemembersRun(n)
      BY <2>1, MemoryBefore
    <3>2. RunUpTo(N)' = RunUpTo(n) \union {N}
      BY <1>1, <1>3, <1>4, <1>5, <3>1, RunGrows
    <3>3. /\ IsFiniteSet(RunUpTo(n)) /\ repeatedPayloads = Cardinality(RunUpTo(n))
          /\ unchangedSince \in RunUpTo(n) /\ \A k \in RunUpTo(n) : unchangedSince <= k
      BY <3>1 DEF RemembersRun, IsFirst
    <3>4. \A k \in RunUpTo(n) : k \in Counted
      BY DEF RunUpTo
    <3>5. N \notin RunUpTo(n)
      BY <3>4, <1>6
    <3>6. /\ IsFiniteSet(RunUpTo(n) \union {N})
          /\ Cardinality(RunUpTo(n) \union {N}) = Cardinality(RunUpTo(n)) + 1
      BY <3>3, <3>5, FS_AddElement
    <3>7. repeats = repeatedPayloads + 1 /\ since = unchangedSince
      BY <2>1
    <3>8. unchangedSince <= N
      BY <3>3, <3>4, <1>6
    <3>9. QED
      BY <3>2, <3>3, <3>6, <3>7, <3>8
  <2>2. CASE ~same
    <3>1. \/ Counted = {}
          \/ \E n \in Counted : IsLast(n, Counted) /\ results[n].payload # p
      BY <2>2, MemoryBefore
    <3>2. RunUpTo(N)' = {N}
      BY <1>1, <1>3, <1>4, <1>5, <3>1, RunAlone
    <3>3. IsFiniteSet({N}) /\ Cardinality({N}) = 1
      BY FS_Singleton
    <3>4. repeats = 1 /\ since = N
      BY <2>2, <1>5
    <3>5. QED
      BY <3>2, <3>3, <3>4, <1>6
  <2>3. QED
    BY <2>1, <2>2
<1>9. IsFirst(unchangedSince, RunUpTo(N))' /\ repeatedPayloads' = Cardinality(RunUpTo(N)')
  BY <1>4, <1>8 DEF IsFirst
<1>10. \E a \in Authoritative' :
         IsLast(a, Authoritative)' /\ lastAuthoritativeCount' = CountOf(a)'
  <2>1. CASE frozen
    <3>1. same
      <4>1. FrozenRepeatCount \in Nat /\ FrozenRepeatCount # 0 /\ FrozenRepeatCount # 1
        BY PolicyAssumption
      <4>2. QED
        BY <2>1, <4>1
    <3>2. PICK n \in Counted : RemembersRun(n)
      BY <3>1, MemoryBefore
    <3>3. PICK a \in Authoritative :
            IsLast(a, Authoritative) /\ lastAuthoritativeCount = CountOf(a)
      BY <3>2 DEF RemembersRun
    <3>4. CountOf(a)' = CountOf(a)
      BY <1>1, <1>3, <1>4, RunsStand DEF Authoritative
    <3>5. Authoritative' = Authoritative /\ lastAuthoritativeCount' = lastAuthoritativeCount
      BY <2>1, <1>4, <1>6
    <3>6. QED
      BY <3>3, <3>4, <3>5 DEF IsLast
  <2>2. CASE ~frozen
    <3>1. Authoritative' = Authoritative \union {N} /\ lastAuthoritativeCount' = FeatureCount[p]
      BY <2>2, <1>4, <1>6
    <3>2. \A k \in Authoritative : k < N /\ k \in Nat
      BY <1>6 DEF Authoritative
    <3>3. N \in Authoritative' /\ \A k \in Authoritative' : k <= N
      BY <3>1, <3>2, <1>6
    <3>4. QED
      BY <3>1, <3>3, <1>7 DEF IsLast
  <2>3. QED
    BY <2>1, <2>2
<1> HIDE DEF repeats, since, frozen
<1>11. RunMemory'
  <2>1. RemembersRun(N)'
    BY <1>1, <1>3, <1>4, <1>6, <1>7, <1>8, <1>9, <1>10 DEF RemembersRun
  <2>2. IsLast(N, Counted)' /\ N \in Counted'
    BY <1>6 DEF IsLast
  <2>3. QED
    BY <2>1, <2>2 DEF RunMemory
<1>12. FrozenAt(N)'
  <2>1. frozen <=> Cardinality(RunUpTo(N)') >= FrozenRepeatCount
    BY <1>8 DEF frozen
  <2>2. RunUpTo(N)' \subseteq Nat
    BY <1>6 DEF RunUpTo
  <2>3. Earliest(RunUpTo(N)') = since
    BY <1>8, <2>2, EarliestIs
  <2>4. /\ results'[N].verdict = "frozen"
             <=> CountOf(N)' > 0 /\ Cardinality(RunUpTo(N)') >= FrozenRepeatCount
        /\ results'[N].verdict = "frozen" => results'[N].since = Earliest(RunUpTo(N)')
    BY <1>1, <1>3, <1>6, <1>7, <2>1, <2>3
  <2>5. QED
    BY <2>4, Zenon DEF FrozenAt, Earliest
<1>13. ~frozen => ConfirmedAt(N)'
  BY <1>1, <1>3, <1>4, <1>5, AnswerIsConfirmed
<1>14. \A k \in Counted : (FrozenAt(k) => FrozenAt(k)') /\ (ConfirmedAt(k) => ConfirmedAt(k)')
  BY <1>1, <1>3, <1>4, VerdictsStand
<1>15. \A k \in Authoritative : k \in Counted
  BY DEF Authoritative
<1>16. VerdictsInv'
  BY <1>6, <1>12, <1>13, <1>14, <1>15 DEF VerdictsInv, ClientInv
<1>17. QED
  BY <1>11, <1>16

LEMMA ClassifyKeeps ==
  ASSUME ClientInv, NEW p \in Payload, NEW probed \in BOOLEAN,
         probed \/ ~RequiresCountConfirmation(FeatureCount[p]),
         ClassifyPayloadHistory(p, probed), UNCHANGED <<bornAt, restarts>>
  PROVE  RunMemory' /\ VerdictsInv'
<1>1. CASE FeatureCount[p] = 0
  BY <1>1, EmptyKeeps
<1>2. CASE FeatureCount[p] # 0
  BY <1>2, RunKeeps
<1>3. QED
  BY <1>1, <1>2

(***************************************************************************)
(* Nothing answered, nothing forgotten: the invariant stands.              *)
(***************************************************************************)
LEMMA NothingAnswered ==
  ASSUME ClientInv, UNCHANGED <<history, results, bornAt>>
  PROVE  RunMemory' /\ VerdictsInv'
<1>1. Counted' = Counted /\ Authoritative' = Authoritative
  BY DEF Counted, Authoritative
<1>2. \A n : RunUpTo(n)' = RunUpTo(n) /\ CountOf(n)' = CountOf(n)
  BY <1>1 DEF RunUpTo, CountOf
<1>3. \A n, S : IsLast(n, S)' = IsLast(n, S) /\ IsFirst(n, S)' = IsFirst(n, S)
  BY DEF IsLast, IsFirst
<1>4. Forgotten' = Forgotten /\ UNCHANGED <<lastPayloadSHA, repeatedPayloads,
                                           unchangedSince, lastAuthoritativeCount, results>>
  BY DEF Forgotten, history
<1>5. RemembersNothing' = RemembersNothing
  BY <1>1, <1>4 DEF RemembersNothing
<1>6. \A n \in Counted : RemembersEmpty(n)' = RemembersEmpty(n)
  BY <1>2, <1>4 DEF RemembersEmpty
<1>7. ASSUME NEW n \in Counted, RemembersRun(n) PROVE RemembersRun(n)'
  <2>1. IsFirst(unchangedSince, RunUpTo(n))'
    BY <1>2, <1>4, <1>7 DEF RemembersRun, IsFirst
  <2>2. \E a \in Authoritative' :
          IsLast(a, Authoritative)' /\ lastAuthoritativeCount' = CountOf(a)'
    BY <1>1, <1>2, <1>4, <1>7 DEF RemembersRun, IsLast
  <2>3. QED
    BY <1>2, <1>4, <1>7, <2>1, <2>2 DEF RemembersRun
<1>8. \A n \in Counted : IsLast(n, Counted)' = IsLast(n, Counted)
  BY <1>1 DEF IsLast
<1>9. RunMemory'
  BY <1>1, <1>5, <1>6, <1>7, <1>8 DEF ClientInv, RunMemory
<1>10. \A n \in Counted : FrozenAt(n)' = FrozenAt(n)
  BY <1>2, <1>4, Zenon DEF FrozenAt, Earliest
<1>11. \A n \in Authoritative : ConfirmedAt(n)' = ConfirmedAt(n)
  <2> SUFFICES ASSUME NEW n \in Authoritative PROVE ConfirmedAt(n)' = ConfirmedAt(n)
    OBVIOUS
  <2> DEFINE before == {m \in Authoritative : m < n}
  <2>1. before' = before
    BY <1>1
  <2>2. ConfirmedAt(n)' =
          \/ results'[n].probed
          \/ /\ CountOf(n)' > 0
             /\ \/ before' = {}
                \/ \E a \in before' :
                     /\ IsLast(a, before')
                     /\ CountOf(a)' > 0 => ~DropIsSudden(CountOf(a)', CountOf(n)')
    BY DEF ConfirmedAt, IsLast, DropIsSudden
  <2>3. ConfirmedAt(n) =
          \/ results[n].probed
          \/ /\ CountOf(n) > 0
             /\ \/ before = {}
                \/ \E a \in before :
                     /\ IsLast(a, before)
                     /\ CountOf(a) > 0 => ~DropIsSudden(CountOf(a), CountOf(n))
    BY DEF ConfirmedAt
  <2> HIDE DEF before
  <2>4. QED
    BY <1>2, <1>4, <2>1, <2>2, <2>3
<1>12. VerdictsInv'
  BY <1>1, <1>10, <1>11 DEF ClientInv, VerdictsInv
<1>13. QED
  BY <1>9, <1>12

LEMMA ClientInvInductive == ClientInv /\ [ClientNext]_clientVars => ClientInv'
<1> SUFFICES ASSUME ClientInv, [ClientNext]_clientVars PROVE ClientInv'
  OBVIOUS
<1>1. ClientBase'
  BY ClientBaseInductive DEF ClientInv
<1>2. ASSUME NEW verdict \in {"failure", "degraded"}, PollRejected(verdict)
      PROVE  RunMemory' /\ VerdictsInv'
  <2> DEFINE r == Result(NoPayload, verdict, FALSE, 0)
  <2>1. r \in PollResult /\ r.verdict = verdict
    BY DEF PollResult, Result, Verdict
  <2>2. Finish(r) /\ UNCHANGED <<history, bornAt>>
    BY <1>2 DEF PollRejected
  <2> HIDE DEF r
  <2>3. QED
    BY <2>1, <2>2, UncountedKeeps
<1>3. ASSUME NEW p \in Payload, PollFetched(p)
      PROVE  RunMemory' /\ VerdictsInv'
  <2>1. CASE RequiresCountConfirmation(FeatureCount[p])
    BY <1>3, <2>1, NothingAnswered DEF PollFetched
  <2>2. CASE ~RequiresCountConfirmation(FeatureCount[p])
    BY <1>3, <2>2, ClassifyKeeps DEF PollFetched
  <2>3. QED
    BY <2>1, <2>2
<1>4. ASSUME NEW agrees \in BOOLEAN, FetchCount(agrees)
      PROVE  RunMemory' /\ VerdictsInv'
  <2>1. probing \in Payload
    BY <1>4 DEF FetchCount, ClientInv, ClientBase, ClientTypeOK
  <2>2. CASE agrees
    BY <1>4, <2>1, <2>2, ClassifyKeeps DEF FetchCount
  <2>3. CASE ~agrees
    <3> DEFINE r == Result(probing, "incomplete", TRUE, 0)
    <3>1. r \in PollResult /\ r.verdict = "incomplete"
      BY <2>1 DEF PollResult, Result, Verdict
    <3>2. Finish(r) /\ UNCHANGED <<history, bornAt>>
      BY <1>4, <2>3 DEF FetchCount
    <3> HIDE DEF r
    <3>3. QED
      BY <3>1, <3>2, UncountedKeeps
  <2>4. QED
    BY <2>2, <2>3
<1>5. ASSUME Restart PROVE RunMemory' /\ VerdictsInv'
  <2>1. Len(results) \in Nat
    BY CountedFacts DEF ClientInv
  <2>2. bornAt' = Len(results') /\ Len(results') \in Nat
    BY <1>5, <2>1 DEF Restart
  <2>3. Counted' = {} /\ Authoritative' = {}
    BY <2>2 DEF Counted, Authoritative
  <2>4. Forgotten'
    BY <1>5 DEF Restart, Forget, Forgotten
  <2>5. QED
    BY <2>3, <2>4 DEF RunMemory, RemembersNothing, VerdictsInv
<1>6. ASSUME UNCHANGED clientVars PROVE RunMemory' /\ VerdictsInv'
  BY <1>6, NothingAnswered DEF clientVars
<1>7. RunMemory' /\ VerdictsInv'
  BY <1>2, <1>3, <1>4, <1>5, <1>6 DEF ClientNext, ClientStep
<1>8. QED
  BY <1>1, <1>7 DEF ClientInv

LEMMA ClientInvInit == ClientInit => ClientInv
<1> SUFFICES ASSUME ClientInit PROVE ClientInv
  OBVIOUS
<1>1. ClientBase
  BY ClientBaseInit
<1>2. Counted = {} /\ Authoritative = {} /\ Forgotten
  BY DEF ClientInit, Counted, Authoritative
<1>3. QED
  BY <1>1, <1>2 DEF ClientInv, RunMemory, RemembersNothing, VerdictsInv

LEMMA ClientInvCorrect == ClientSpec => []ClientInv
BY ClientInvInit, ClientInvInductive, PTL DEF ClientSpec

-----------------------------------------------------------------------------
(***************************************************************************)
(* What the client remembers is the run of equal payloads that its counted *)
(* polls end in (classifyPayloadHistory 291-322), for every policy, every  *)
(* set of payloads and any number of restarts.                             *)
(***************************************************************************)
LEMMA MemoryOfInv == ClientInv => MemoryIsTheRun
<1> SUFFICES ASSUME ClientInv PROVE MemoryIsTheRun
  OBVIOUS
<1>1. /\ ClientBase /\ RunMemory
      /\ \A k \in Counted : k \in Nat /\ CountOf(k) \in Nat
      /\ Authoritative \subseteq Nat /\ Counted \subseteq Nat
  BY CountedFacts DEF ClientInv
<1>2. CASE RemembersNothing
  BY <1>2 DEF RemembersNothing, MemoryIsTheRun
<1>3. ASSUME NEW n \in Counted, IsLast(n, Counted), RemembersEmpty(n)
      PROVE  MemoryIsTheRun
  <2>1. Latest(Counted) = n
    BY <1>1, <1>3, LatestIs DEF IsLast
  <2>2. QED
    BY <1>3, <2>1 DEF RemembersEmpty, MemoryIsTheRun, CountOf
<1>4. ASSUME NEW n \in Counted, IsLast(n, Counted), RemembersRun(n)
      PROVE  MemoryIsTheRun
  <2>1. Latest(Counted) = n
    BY <1>1, <1>4, LatestIs DEF IsLast
  <2>2. PICK a \in Authoritative :
          IsLast(a, Authoritative) /\ lastAuthoritativeCount = CountOf(a)
    BY <1>4 DEF RemembersRun
  <2>3. Latest(Authoritative) = a
    BY <1>1, <2>2, LatestIs DEF IsLast
  <2>4. RunUpTo(n) \subseteq Nat
    BY <1>1 DEF RunUpTo
  <2>5. Earliest(RunUpTo(n)) = unchangedSince
    BY <1>4, <2>4, EarliestIs DEF RemembersRun, IsFirst
  <2>6. CountOf(n) # 0 /\ lastPayloadSHA = results[n].payload
        /\ repeatedPayloads = Cardinality(RunUpTo(n))
    BY <1>1, <1>4 DEF RemembersRun
  <2>7. FeatureCount[results[Latest(Counted)].payload] # 0 /\ Counted # {}
    BY <2>1, <2>6 DEF CountOf
  <2>8. lastAuthoritativeCount = FeatureCount[results[Latest(Authoritative)].payload]
    BY <2>2, <2>3 DEF CountOf
  <2>9. QED
    BY <2>1, <2>5, <2>6, <2>7, <2>8, Zenon DEF MemoryIsTheRun
<1>5. QED
  BY <1>1, <1>2, <1>3, <1>4 DEF RunMemory

\* What the client remembers of the source is what the results of the
\* running process say (classifyPayloadHistory).
THEOREM MemoryIsTheRunCorrect == ClientSpec => []MemoryIsTheRun
BY MemoryOfInv, ClientInvCorrect, PTL

(***************************************************************************)
(* A poll is degraded as frozen exactly from the configured repetition of  *)
(* a non-empty payload on, and dates the run from its first poll.          *)
(***************************************************************************)
THEOREM FrozenFromThresholdOnCorrect == ClientSpec => []FrozenFromThresholdOn
<1>1. ClientInv => FrozenFromThresholdOn
  BY Zenon DEF ClientInv, VerdictsInv, FrozenFromThresholdOn, FrozenAt, CountOf
<1>2. QED
  BY <1>1, ClientInvCorrect, PTL

(***************************************************************************)
(* No authoritative snapshot is empty, or smaller by the collapse          *)
(* percentage than the authoritative one before it, unless a second        *)
(* request confirmed its count (Poll 219-230).                             *)
(***************************************************************************)
LEMMA ConfirmedOfInv == ClientInv => CollapseIsConfirmed
<1> SUFFICES ASSUME ClientInv, NEW n \in Authoritative
             PROVE  LET before == {m \in Authoritative : m < n}
                        count == FeatureCount[results[n].payload]
                    IN \/ results[n].probed
                       \/ /\ count > 0
                          /\ before # {} =>
                               LET last == FeatureCount[results[Latest(before)].payload]
                               IN last > 0 => ~DropIsSudden(last, count)
  BY DEF CollapseIsConfirmed
<1> DEFINE before == {m \in Authoritative : m < n}
<1>1. ConfirmedAt(n) /\ before \subseteq Nat
  BY CountedFacts DEF ClientInv, VerdictsInv
<1>2. CASE before # {} /\ ~results[n].probed
  <2>1. PICK a \in before :
          /\ IsLast(a, before)
          /\ CountOf(a) > 0 => ~DropIsSudden(CountOf(a), CountOf(n))
    BY <1>1, <1>2 DEF ConfirmedAt
  <2>2. Latest(before) = a
    BY <1>1, <2>1, LatestIs DEF IsLast
  <2>3. CountOf(n) > 0
    BY <1>1, <1>2 DEF ConfirmedAt
  <2>4. QED
    BY <2>1, <2>2, <2>3 DEF CountOf
<1>3. CASE before = {} \/ results[n].probed
  BY <1>1, <1>3 DEF ConfirmedAt, CountOf
<1>4. QED
  BY <1>2, <1>3

\* An empty or suddenly smaller snapshot is authoritative only when a second
\* request has confirmed its count (Poll 219-230).
THEOREM CollapseIsConfirmedCorrect == ClientSpec => []CollapseIsConfirmed
BY ConfirmedOfInv, ClientInvCorrect, PTL

-----------------------------------------------------------------------------
(***************************************************************************)
(* How much of a run was authoritative: all of it up to the threshold, and *)
(* as many polls as come before the first frozen one from there on.        *)
(***************************************************************************)
AuthoritativeOf(n) == RunUpTo(n) \cap Authoritative

RunsBegin ==
  \A n \in Counted :
    /\ IsFiniteSet(RunUpTo(n))
    /\ IF results[n].verdict = "frozen"
         THEN Cardinality(AuthoritativeOf(n)) >= FrozenRepeatCount - 1
         ELSE RunUpTo(n) \subseteq Authoritative

LEMMA RunsBeginAnswer ==
  ASSUME ClientInv, ClientInv', RunsBegin, NEW r \in PollResult, Finish(r),
         UNCHANGED bornAt
  PROVE  RunsBegin'
<1>0. PICK N : N = Len(results) + 1
  OBVIOUS
<1>1. ClientBase /\ ClientBase' /\ VerdictsInv /\ VerdictsInv' /\ RunMemory
  BY DEF ClientInv
<1>2. /\ N \in Nat /\ results'[N] = r
      /\ \A k \in Counted : k < N /\ k \in Nat /\ results'[k] = results[k]
      /\ Counted' = IF r.verdict \in {"authoritative", "frozen"}
                      THEN Counted \union {N} ELSE Counted
      /\ Authoritative' = IF r.verdict = "authoritative"
                            THEN Authoritative \union {N} ELSE Authoritative
  BY <1>0, <1>1, AnswerAdded, CountedFacts
<1>3. \A n \in Counted : RunUpTo(n)' = RunUpTo(n) /\ CountOf(n)' = CountOf(n)
  BY <1>1, RunsStand
<1>4. \A n \in Counted : N \notin RunUpTo(n)
  BY <1>2 DEF RunUpTo
<1>5. ASSUME NEW n \in Counted
      PROVE  /\ AuthoritativeOf(n)' = AuthoritativeOf(n)
             /\ IsFiniteSet(RunUpTo(n)')
             /\ IF results'[n].verdict = "frozen"
                  THEN Cardinality(AuthoritativeOf(n)') >= FrozenRepeatCount - 1
                  ELSE RunUpTo(n)' \subseteq Authoritative'
  <2>1. AuthoritativeOf(n)' = AuthoritativeOf(n)
    <3>1. RunUpTo(n) \cap Authoritative' = RunUpTo(n) \cap Authoritative
      BY <1>2, <1>4
    <3>2. QED
      BY <1>3, <3>1 DEF AuthoritativeOf
  <2>2. Authoritative \subseteq Authoritative'
    BY <1>2
  <2>3. QED
    BY <1>2, <1>3, <2>1, <2>2 DEF RunsBegin
<1>6. CASE r.verdict \notin {"authoritative", "frozen"}
  BY <1>2, <1>5, <1>6 DEF RunsBegin
<1>7. CASE r.verdict \in {"authoritative", "frozen"}
  <2>0. N \in Counted' /\ Counted' = Counted \union {N}
    BY <1>2, <1>7
  <2>1. FrozenAt(N)'
    BY <1>1, <2>0 DEF VerdictsInv
  <2>2. /\ r.verdict = "frozen"
             <=> CountOf(N)' > 0 /\ Cardinality(RunUpTo(N)') >= FrozenRepeatCount
    BY <1>2, <2>1 DEF FrozenAt
  <2>3. /\ FrozenRepeatCount \in Nat /\ FrozenRepeatCount >= 2
    BY PolicyAssumption
  <2>4. CASE \/ Counted = {}
             \/ \E n \in Counted : IsLast(n, Counted) /\ results[n].payload # r.payload
    <3>1. RunUpTo(N)' = {N}
      BY <1>0, <1>1, <1>7, <2>4, RunAlone
    <3>2. IsFiniteSet({N}) /\ Cardinality({N}) = 1
      BY FS_Singleton
    <3>3. r.verdict = "authoritative"
      BY <1>7, <2>2, <2>3, <3>1, <3>2
    <3>4. N \in Authoritative' /\ results'[N].verdict # "frozen"
      BY <1>2, <3>3
    <3>5. QED
      BY <1>5, <2>0, <3>1, <3>2, <3>4 DEF RunsBegin
  <2>5. ASSUME NEW n \in Counted, IsLast(n, Counted), results[n].payload = r.payload
        PROVE  RunsBegin'
    <3>1. RunUpTo(N)' = RunUpTo(n) \union {N}
      BY <1>0, <1>1, <1>7, <2>5, RunGrows
    <3>2. N \notin RunUpTo(n) /\ IsFiniteSet(RunUpTo(n))
      BY <1>4 DEF RunsBegin
    <3>3. /\ IsFiniteSet(RunUpTo(N)')
          /\ Cardinality(RunUpTo(N)') = Cardinality(RunUpTo(n)) + 1
          /\ Cardinality(RunUpTo(n)) \in Nat
      BY <3>1, <3>2, FS_AddElement, FS_CardinalityType
    <3>4. CountOf(N)' = CountOf(n)
      BY <1>2, <2>5 DEF CountOf
    <3>5. results[n].verdict = "frozen"
            <=> CountOf(n) > 0 /\ Cardinality(RunUpTo(n)) >= FrozenRepeatCount
      BY <1>1 DEF VerdictsInv, FrozenAt
    <3>6. CASE r.verdict = "authoritative"
      <4>1. results[n].verdict # "frozen"
        BY <2>2, <2>3, <3>3, <3>4, <3>5, <3>6
      <4>2. RunUpTo(n) \subseteq Authoritative
        BY <4>1 DEF RunsBegin
      <4>3. RunUpTo(N)' \subseteq Authoritative' /\ results'[N].verdict # "frozen"
        BY <1>2, <3>1, <3>6, <4>2
      <4>4. QED
        BY <1>5, <2>0, <3>3, <4>3 DEF RunsBegin
    <3>7. CASE r.verdict = "frozen"
      <4>1. AuthoritativeOf(N)' = AuthoritativeOf(n)
        <5>1. Authoritative' = Authoritative /\ N \notin Authoritative
          BY <1>2, <3>7 DEF Authoritative
        <5>2. (RunUpTo(n) \union {N}) \cap Authoritative = RunUpTo(n) \cap Authoritative
          BY <5>1
        <5>3. QED
          BY <3>1, <5>1, <5>2 DEF AuthoritativeOf
      <4>2. Cardinality(AuthoritativeOf(n)) >= FrozenRepeatCount - 1
        <5>1. CASE results[n].verdict = "frozen"
          BY <5>1 DEF RunsBegin
        <5>2. CASE results[n].verdict # "frozen"
          <6>1. RunUpTo(n) \subseteq Authoritative
            BY <5>2 DEF RunsBegin
          <6>2. AuthoritativeOf(n) = RunUpTo(n)
            BY <6>1 DEF AuthoritativeOf
          <6>3. QED
            BY <2>2, <2>3, <3>3, <3>7, <6>2
        <5>3. QED
          BY <5>1, <5>2
      <4>3. QED
        BY <1>2, <1>5, <2>0, <3>3, <3>7, <4>1, <4>2 DEF RunsBegin
    <3>8. QED
      BY <1>7, <3>6, <3>7
  <2>6. \/ Counted = {}
        \/ \E n \in Counted : IsLast(n, Counted)
    BY <1>1 DEF RunMemory, RemembersNothing
  <2>7. QED
    BY <2>4, <2>5, <2>6
<1>8. QED
  BY <1>6, <1>7

(***************************************************************************)
(* A step of the client answers one poll, or none, or is a restart.        *)
(***************************************************************************)
LEMMA StepAnswers ==
  ASSUME ClientBase, [ClientNext]_clientVars
  PROVE  \/ Restart
         \/ UNCHANGED <<results, bornAt>>
         \/ UNCHANGED bornAt /\ \E r \in PollResult : Finish(r)
<1>1. Len(results) \in Nat
  BY DEF ClientBase, ClientTypeOK
<1>2. ASSUME NEW p \in Payload, NEW probed \in BOOLEAN, ClassifyPayloadHistory(p, probed)
      PROVE  \E r \in PollResult : Finish(r)
  <2> DEFINE since == IF p = lastPayloadSHA THEN unchangedSince ELSE Len(results) + 1
  <2>1. since \in Nat
    BY <1>1 DEF ClientBase, ClientTypeOK
  <2>2. \A verdict \in Verdict :
          /\ Result(p, verdict, probed, 0) \in PollResult
          /\ Result(p, verdict, probed, since) \in PollResult
    BY <2>1 DEF Result, PollResult
  <2>3. "authoritative" \in Verdict /\ "frozen" \in Verdict
    BY DEF Verdict
  <2>4. \/ Finish(Result(p, "authoritative", probed, 0))
        \/ Finish(Result(p, "frozen", probed, since))
        \/ Finish(Result(p, "authoritative", probed, since))
    BY <1>2 DEF ClassifyPayloadHistory
  <2> HIDE DEF since
  <2>5. QED
    BY <2>2, <2>3, <2>4
<1>3. ASSUME NEW verdict \in {"failure", "degraded"}, PollRejected(verdict)
      PROVE  UNCHANGED bornAt /\ \E r \in PollResult : Finish(r)
  <2>1. Result(NoPayload, verdict, FALSE, 0) \in PollResult
    BY DEF Result, PollResult, Verdict
  <2>2. QED
    BY <1>3, <2>1 DEF PollRejected
<1>4. ASSUME NEW p \in Payload, PollFetched(p)
      PROVE  /\ UNCHANGED bornAt
             /\ UNCHANGED results \/ \E r \in PollResult : Finish(r)
  BY <1>2, <1>4 DEF PollFetched
<1>5. ASSUME NEW agrees \in BOOLEAN, FetchCount(agrees)
      PROVE  UNCHANGED bornAt /\ \E r \in PollResult : Finish(r)
  <2>1. probing \in Payload
    BY <1>5 DEF FetchCount, ClientBase, ClientTypeOK
  <2>2. Result(probing, "incomplete", TRUE, 0) \in PollResult
    BY <2>1 DEF Result, PollResult, Verdict
  <2>3. QED
    BY <1>2, <1>5, <2>1, <2>2 DEF FetchCount
<1>6. QED
  BY <1>3, <1>4, <1>5 DEF ClientNext, ClientStep, clientVars

LEMMA RunsBeginInductive ==
  ClientInv /\ ClientInv' /\ RunsBegin /\ [ClientNext]_clientVars => RunsBegin'
<1> SUFFICES ASSUME ClientInv, ClientInv', RunsBegin, [ClientNext]_clientVars
             PROVE  RunsBegin'
  OBVIOUS
<1>1. CASE Restart
  <2>1. bornAt' = Len(results') /\ Len(results') \in Nat
    BY <1>1, CountedFacts DEF Restart, ClientInv
  <2>2. Counted' = {}
    BY <2>1 DEF Counted
  <2>3. QED
    BY <2>2 DEF RunsBegin
<1>2. CASE UNCHANGED <<results, bornAt>>
  <2>1. Counted' = Counted /\ Authoritative' = Authoritative
    BY <1>2 DEF Counted, Authoritative
  <2>2. \A n : RunUpTo(n)' = RunUpTo(n)
    BY <1>2, <2>1 DEF RunUpTo
  <2>3. \A n : AuthoritativeOf(n)' = AuthoritativeOf(n)
    BY <2>1, <2>2 DEF AuthoritativeOf
  <2>4. QED
    BY <1>2, <2>1, <2>2, <2>3 DEF RunsBegin
<1>3. CASE UNCHANGED bornAt /\ \E r \in PollResult : Finish(r)
  BY <1>3, RunsBeginAnswer
<1>4. QED
  BY <1>1, <1>2, <1>3, StepAnswers DEF ClientInv

LEMMA RunsBeginCorrect == ClientSpec => []RunsBegin
<1>1. ClientInit => RunsBegin
  <2> SUFFICES ASSUME ClientInit PROVE RunsBegin
    OBVIOUS
  <2>1. Counted = {}
    BY DEF ClientInit, Counted
  <2>2. QED
    BY <2>1 DEF RunsBegin
<1>2. QED
  BY <1>1, RunsBeginInductive, ClientInvCorrect, PTL DEF ClientSpec
=============================================================================
