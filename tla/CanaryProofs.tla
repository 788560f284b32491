---------------------------- MODULE CanaryProofs ----------------------------
(***************************************************************************)
(* Proofs about Canary for every threshold and a log of any length.        *)
(***************************************************************************)
EXTENDS Canary, SequenceTheorems, FiniteSetTheorems, TLAPS

-----------------------------------------------------------------------------
Zero(n) == contract_canary[n].count = 0

\* The checks before the next one leave it the last of a run of zeros.
RunOfZeros ==
  LET L == Len(contract_canary) IN
  /\ L + 1 >= Threshold
  /\ \A k \in (L + 2 - Threshold)..L : Zero(k)

\* What the row being made says of the rows before it.
ResultRight ==
  /\ "feature_count_zero" \in result.drift => result.count = 0 /\ ~RunOfZeros
  /\ "feature_count" \in result.drift /\ result.count = 0 => RunOfZeros

ResultSoFar ==
  /\ step \in {"wait", "baseline", "history"} => result.drift \subseteq {"contract"}
  /\ step = "history" => result.count = 0
  /\ ResultRight

StreakInv == CanaryTypeOK /\ ResultSoFar /\ ZeroStreakFails

-----------------------------------------------------------------------------
(***************************************************************************)
(* The count that RecentCanaryFeatureCounts and the loop over it give      *)
(* reaches the threshold exactly when the last Threshold - 1 rows are all  *)
(* there and all zero (canary.go 213-231).                                 *)
(***************************************************************************)
LEMMA CountIsRun ==
  ASSUME contract_canary \in Seq(Row)
  PROVE  PriorZeroFeatureChecks(Threshold - 1) + 1 >= Threshold <=> RunOfZeros
<1> DEFINE L == Len(contract_canary)
           T == Threshold
           I == (L + 2 - T)..L
           S == {n \in 1..L : n + (T - 1) > L /\ \A k \in n..L : Zero(k)}
<1>0. /\ L \in Nat /\ DOMAIN contract_canary = 1..L
      /\ T \in Nat /\ T >= 1
  BY LenProperties, ThresholdAssumption
<1>1. PriorZeroFeatureChecks(T - 1) = Cardinality(S)
  BY <1>0, Zenon DEF PriorZeroFeatureChecks, Zero
<1>2. RunOfZeros <=> L + 1 >= T /\ \A k \in I : Zero(k)
  BY DEF RunOfZeros
<1> HIDE DEF L, T
<1>3. /\ IsFiniteSet(I) /\ Cardinality(I) = T - 1
  <2>1. L + 2 - T \in Int /\ L \in Int
    BY <1>0
  <2>2. /\ IsFiniteSet((L + 2 - T)..L)
        /\ Cardinality((L + 2 - T)..L) =
             IF L + 2 - T > L THEN 0 ELSE L - (L + 2 - T) + 1
    BY <2>1, FS_Interval
  <2>3. (IF L + 2 - T > L THEN 0 ELSE L - (L + 2 - T) + 1) = T - 1
    BY <1>0
  <2>4. QED
    BY <2>2, <2>3
<1>4. S \subseteq I
  BY <1>0
<1>5. /\ Cardinality(S) \in Nat /\ Cardinality(S) <= Cardinality(I)
      /\ Cardinality(S) = Cardinality(I) => S = I
  BY <1>3, <1>4, FS_Subset, FS_CardinalityType
<1>6. ASSUME Cardinality(S) + 1 >= T
      PROVE  L + 1 >= T /\ \A k \in I : Zero(k)
  <2>1. S = I
    <3>1. Cardinality(S) = T - 1
      BY <1>0, <1>3, <1>5, <1>6
    <3>2. QED
      BY <1>3, <1>5, <3>1
  <2>2. CASE T = 1
    BY <1>0, <2>2
  <2>3. CASE T > 1
    <3>1. L + 2 - T \in I
      BY <1>0, <2>3
    <3>2. L + 2 - T \in 1..L /\ \A k \in (L + 2 - T)..L : Zero(k)
      BY <2>1, <3>1
    <3>3. QED
      BY <1>0, <3>2
  <2>4. QED
    BY <1>0, <2>2, <2>3
<1>7. ASSUME L + 1 >= T, \A k \in I : Zero(k)
      PROVE  Cardinality(S) + 1 >= T
  <2>1. \A n \in I : n \in 1..L /\ n + (T - 1) > L /\ \A k \in n..L : k \in I
    BY <1>0, <1>7
  <2>2. \A n \in I : n \in S
    BY <1>7, <2>1, Zenon
  <2>3. S = I
    BY <1>4, <2>2
  <2>4. Cardinality(S) = T - 1
    BY <1>3, <2>3
  <2> HIDE DEF S
  <2>5. QED
    BY <1>0, <2>4
<1> HIDE DEF I, S
<1>8. QED
  BY <1>1, <1>2, <1>6, <1>7 DEF T

(***************************************************************************)
(* Appending the row of a check keeps every row right, itself included.    *)
(***************************************************************************)
LEMMA AppendRight ==
  ASSUME contract_canary \in Seq(Row), result \in Row, ResultRight, ZeroStreakFails,
         contract_canary' = Append(contract_canary, result)
  PROVE  contract_canary' \in Seq(Row) /\ ZeroStreakFails'
<1> DEFINE L == Len(contract_canary)
           new == contract_canary'
<1>1. /\ L \in Nat /\ new \in Seq(Row) /\ DOMAIN contract_canary = 1..L
      /\ Len(new) = L + 1 /\ DOMAIN new = 1..(L + 1)
      /\ \A k \in 1..L : new[k] = contract_canary[k]
      /\ new[L + 1] = result
  <2>1. new \in Seq(Row) /\ L \in Nat /\ Len(new) = L + 1
    OBVIOUS
  <2>2. DOMAIN new = 1..(L + 1) /\ DOMAIN contract_canary = 1..L
    BY <2>1, LenProperties
  <2>3. QED
    BY <2>1, <2>2
<1>2. \A n \in 1..L : \A k \in (n - Threshold + 1)..n : n >= Threshold => k \in 1..L
  BY <1>1, ThresholdAssumption
<1>3. ASSUME NEW n \in 1..L
      PROVE  /\ "feature_count_zero" \in new[n].drift =>
                  ~(n >= Threshold
                    /\ \A k \in (n - Threshold + 1)..n : new[k].count = 0)
             /\ "feature_count" \in new[n].drift /\ new[n].count = 0 =>
                  /\ n >= Threshold
                  /\ \A k \in (n - Threshold + 1)..n : new[k].count = 0
  <2>1. new[n] = contract_canary[n] /\ n \in DOMAIN contract_canary
    BY <1>1
  <2>2. n >= Threshold =>
          \A k \in (n - Threshold + 1)..n : new[k] = contract_canary[k]
    BY <1>1, <1>2
  <2>3. QED
    BY <2>1, <2>2 DEF ZeroStreakFails
<1>4. (L + 1) - Threshold + 1 = L + 2 - Threshold /\ Threshold \in Nat
  BY <1>1, ThresholdAssumption
<1>5. ASSUME L + 1 >= Threshold
      PROVE  \A k \in (L + 2 - Threshold)..L : k \in 1..L /\ new[k] = contract_canary[k]
  BY <1>1, <1>4, <1>5
<1>6. RunOfZeros /\ result.count = 0 =>
        /\ L + 1 >= Threshold
        /\ \A k \in ((L + 1) - Threshold + 1)..(L + 1) : new[k].count = 0
  <2>1. SUFFICES ASSUME RunOfZeros, result.count = 0,
                        NEW k \in ((L + 1) - Threshold + 1)..(L + 1)
                 PROVE  L + 1 >= Threshold /\ new[k].count = 0
    BY DEF RunOfZeros
  <2>2. k = L + 1 \/ k \in (L + 2 - Threshold)..L
    BY <1>1, <1>4
  <2>3. L + 1 >= Threshold
    BY <2>1 DEF RunOfZeros
  <2>4. k \in (L + 2 - Threshold)..L => new[k].count = 0
    BY <1>5, <2>1, <2>3 DEF RunOfZeros, Zero
  <2>5. QED
    BY <1>1, <2>1, <2>2, <2>3, <2>4
<1>7. /\ L + 1 >= Threshold
      /\ \A k \in ((L + 1) - Threshold + 1)..(L + 1) : new[k].count = 0
      => RunOfZeros
  <2>1. SUFFICES ASSUME L + 1 >= Threshold,
                        \A k \in ((L + 1) - Threshold + 1)..(L + 1) : new[k].count = 0,
                        NEW k \in (L + 2 - Threshold)..L
                 PROVE  Zero(k)
    BY DEF RunOfZeros
  <2>2. k \in ((L + 1) - Threshold + 1)..(L + 1)
    BY <1>1, <1>4
  <2>3. QED
    BY <1>5, <2>1, <2>2 DEF Zero
<1>8. /\ "feature_count_zero" \in new[L + 1].drift =>
           ~(L + 1 >= Threshold
             /\ \A k \in ((L + 1) - Threshold + 1)..(L + 1) : new[k].count = 0)
      /\ "feature_count" \in new[L + 1].drift /\ new[L + 1].count = 0 =>
           /\ L + 1 >= Threshold
           /\ \A k \in ((L + 1) - Threshold + 1)..(L + 1) : new[k].count = 0
  BY <1>1, <1>6, <1>7, Zenon DEF ResultRight
<1>9. \A n \in DOMAIN new : n \in 1..L \/ n = L + 1
  BY <1>1
<1>10. ZeroStreakFails'
  BY <1>3, <1>8, <1>9, Zenon DEF ZeroStreakFails
<1>11. QED
  BY <1>1, <1>10

-----------------------------------------------------------------------------
LEMMA StreakInit == CanaryInit => StreakInv
<1> SUFFICES ASSUME CanaryInit PROVE StreakInv
  OBVIOUS
<1>1. contract_canary = <<>> /\ DOMAIN contract_canary = {}
  BY DEF CanaryInit
<1>2. CanaryTypeOK
  BY <1>1 DEF CanaryInit, CanaryTypeOK, NoResult, Row
<1>3. ResultSoFar
  BY DEF CanaryInit, ResultSoFar, ResultRight, NoResult
<1>4. ZeroStreakFails
  BY <1>1 DEF ZeroStreakFails
<1>5. QED
  BY <1>2, <1>3, <1>4 DEF StreakInv

\* One key more in the drift of the row being made.
LEMMA WithFacts ==
  ASSUME result \in Row, NEW key \in Failure \union Note, With(key)
  PROVE  /\ result' \in Row /\ result'.count = result.count
         /\ result'.drift = result.drift \union {key}
<1>1. result' = [count |-> result.count, drift |-> result.drift \union {key}]
  BY DEF With, Row
<1>2. QED
  BY <1>1 DEF Row

\* A statement that adds no row leaves the rows right.
LEMMA LogKept ==
  ASSUME StreakInv, UNCHANGED <<contract_canary, baseline>>,
         result' \in Row, step' \in {"baseline", "history", "record"}, ResultSoFar'
  PROVE  StreakInv'
BY DEF StreakInv, CanaryTypeOK, ZeroStreakFails

(***************************************************************************)
(* Every statement of a check, failed or not, keeps the invariant.         *)
(***************************************************************************)
LEMMA StreakInductive == StreakInv /\ [CanaryNext]_canaryVars => StreakInv'
<1> SUFFICES ASSUME StreakInv, [CanaryNext]_canaryVars PROVE StreakInv'
  OBVIOUS
<1>0. /\ contract_canary \in Seq(Row) /\ result \in Row
      /\ result.count \in Nat /\ Len(contract_canary) \in Nat
      /\ baseline \in Baselines \union {None}
  BY LenProperties DEF StreakInv, CanaryTypeOK, Row
<1>1. CASE PollsMove
  BY <1>1 DEF PollsMove, StreakInv, CanaryTypeOK, ResultSoFar, ResultRight,
     RunOfZeros, Zero, ZeroStreakFails
<1>2. ASSUME NEW r \in Response, Fetch(r), UNCHANGED baseline PROVE StreakInv'
  <2>1. /\ result' = [count |-> r.count, drift |-> r.broken]
        /\ step' = "baseline" /\ UNCHANGED contract_canary
    BY <1>2 DEF Fetch
  <2>2. r.count \in Nat /\ r.broken \subseteq {"contract"}
    BY ResponseAssumption
  <2>3. result' \in Row
    BY <2>1, <2>2 DEF Row, Failure
  <2>4. ResultSoFar'
    BY <2>1, <2>2 DEF ResultSoFar, ResultRight
  <2>5. QED
    BY <1>2, <2>1, <2>3, <2>4, LogKept
<1>3. ASSUME NEW key \in FetchFailure, FetchFails(key), UNCHANGED baseline PROVE StreakInv'
  <2>1. /\ result' = [count |-> 0, drift |-> {key}]
        /\ step' = "record" /\ UNCHANGED contract_canary
    BY <1>3 DEF FetchFails
  <2>2. result' \in Row
    BY <2>1 DEF Row, Failure
  <2>3. key # "feature_count_zero" /\ key # "feature_count"
    BY DEF FetchFailure
  <2>4. ResultSoFar'
    BY <2>1, <2>3 DEF ResultSoFar, ResultRight
  <2>5. QED
    BY <1>3, <2>1, <2>2, <2>4, LogKept
<1>4. CASE CheckBaseline /\ UNCHANGED baseline
  <2> DEFINE zero == baseline # None /\ baseline > 0 /\ result.count = 0
             high == baseline # None /\ baseline > 0 /\ result.count > baseline * 10
  <2>1. /\ step = "baseline" /\ UNCHANGED contract_canary
        /\ step' = IF zero THEN "history" ELSE "record"
        /\ \/ baseline = None /\ With("baseline_unavailable")
           \/ high /\ With("feature_count")
           \/ baseline # None /\ ~high /\ UNCHANGED result
    BY <1>4 DEF CheckBaseline
  <2>2. result.drift \subseteq {"contract"}
    BY <2>1 DEF StreakInv, ResultSoFar
  <2>3. high => ~zero /\ result.count # 0
    BY <1>0, BaselinesAssumption
  <2>4. /\ result' \in Row /\ result'.count = result.count
        /\ result'.drift \subseteq
             IF high THEN {"contract", "feature_count"}
                     ELSE {"contract", "baseline_unavailable"}
        /\ zero => result'.drift \subseteq {"contract"}
    <3>1. CASE baseline = None /\ With("baseline_unavailable")
      <4>1. "baseline_unavailable" \in Failure \union Note /\ ~high /\ ~zero
        BY <3>1 DEF Note
      <4>2. QED
        BY <1>0, <2>2, <3>1, <4>1, WithFacts
    <3>2. CASE high /\ With("feature_count")
      <4>1. "feature_count" \in Failure \union Note
        BY DEF Failure
      <4>2. QED
        BY <1>0, <2>2, <2>3, <3>2, <4>1, WithFacts
    <3>3. CASE baseline # None /\ ~high /\ UNCHANGED result
      BY <1>0, <2>2, <3>3
    <3>4. QED
      BY <2>1, <3>1, <3>2, <3>3
  <2> HIDE DEF zero, high
  <2>5. step' \in {"history", "record"} /\ (step' = "history" => zero)
    BY <2>1
  <2>6. zero => result.count = 0
    BY DEF zero
  <2>7. /\ "feature_count_zero" \notin result'.drift
        /\ "feature_count" \in result'.drift => result'.count # 0
    BY <2>3, <2>4
  <2>8. ResultSoFar'
    BY <2>4, <2>5, <2>6, <2>7 DEF ResultSoFar, ResultRight
  <2>9. QED
    BY <1>4, <2>1, <2>4, <2>5, <2>8, LogKept
<1>5. ASSUME NEW key \in {"baseline_error", "feature_count_history_error"},
             With(key), step \in {"baseline", "history"}, step' = "record",
             UNCHANGED <<contract_canary, baseline>>
      PROVE  StreakInv'
  <2>1. key \in Failure \union Note
    BY DEF Failure
  <2>2. /\ result' \in Row /\ result'.count = result.count
        /\ result'.drift = result.drift \union {key}
    BY <1>0, <1>5, <2>1, WithFacts
  <2>3. result.drift \subseteq {"contract"}
    BY <1>5 DEF StreakInv, ResultSoFar
  <2>4. "feature_count_zero" \notin result'.drift /\ "feature_count" \notin result'.drift
    BY <2>2, <2>3
  <2>5. ResultSoFar'
    BY <1>5, <2>4 DEF ResultSoFar, ResultRight
  <2>6. QED
    BY <1>5, <2>2, <2>5, LogKept
<1>6. CASE CheckHistory /\ UNCHANGED baseline
  <2> DEFINE key == IF PriorZeroFeatureChecks(Threshold - 1) + 1 >= Threshold
                      THEN "feature_count" ELSE "feature_count_zero"
  <2>1. step = "history" /\ step' = "record" /\ With(key) /\ UNCHANGED contract_canary
    BY <1>6 DEF CheckHistory
  <2>2. key \in Failure \union Note
    BY DEF Failure, Note
  <2>3. /\ key = "feature_count" => RunOfZeros
        /\ key = "feature_count_zero" => ~RunOfZeros
    BY <1>0, CountIsRun
  <2> HIDE DEF key
  <2>4. /\ result' \in Row /\ result'.count = result.count
        /\ result'.drift = result.drift \union {key}
    BY <1>0, <2>1, <2>2, WithFacts
  <2>5. result.drift \subseteq {"contract"} /\ result.count = 0
    BY <2>1 DEF StreakInv, ResultSoFar
  <2>6. RunOfZeros' = RunOfZeros
    BY <2>1 DEF RunOfZeros, Zero
  <2>7. ResultSoFar'
    BY <2>1, <2>3, <2>4, <2>5, <2>6 DEF ResultSoFar, ResultRight
  <2>8. QED
    BY <1>6, <2>1, <2>4, <2>7, LogKept
<1>7. CASE step' = "wait" /\ result' = NoResult /\ UNCHANGED <<contract_canary, baseline>>
  <2>1. ResultSoFar'
    BY <1>7 DEF ResultSoFar, ResultRight, NoResult
  <2>2. NoResult \in Row
    BY DEF NoResult, Row
  <2>3. QED
    BY <1>7, <2>1, <2>2 DEF StreakInv, CanaryTypeOK, ZeroStreakFails
<1>8. CASE /\ step' = "wait" /\ result' = NoResult /\ UNCHANGED baseline
           /\ contract_canary' = Append(contract_canary, result)
  <2>1. ResultSoFar'
    BY <1>8 DEF ResultSoFar, ResultRight, NoResult
  <2>2. NoResult \in Row
    BY DEF NoResult, Row
  <2>3. contract_canary' \in Seq(Row) /\ ZeroStreakFails'
    BY <1>0, <1>8, AppendRight DEF StreakInv, ResultSoFar
  <2>4. QED
    BY <1>8, <2>1, <2>2, <2>3 DEF StreakInv, CanaryTypeOK
<1>9. CASE UNCHANGED canaryVars
  BY <1>9 DEF canaryVars, StreakInv, CanaryTypeOK, ResultSoFar, ResultRight,
     RunOfZeros, Zero, ZeroStreakFails
<1>10. CASE CheckerStep
  <2>1. UNCHANGED baseline
    BY <1>10 DEF CheckerStep
  <2>2. CASE BaselineFails \/ HistoryFails
    BY <1>5, <2>1, <2>2 DEF BaselineFails, HistoryFails
  <2>3. CASE Die \/ \E committed \in BOOLEAN : RecordCanary(committed)
    BY <1>7, <1>8, <2>1, <2>3 DEF Die, RecordCanary
  <2>4. QED
    BY <1>2, <1>3, <1>4, <1>6, <1>10, <2>1, <2>2, <2>3 DEF CheckerStep
<1>11. QED
  BY <1>1, <1>9, <1>10 DEF CanaryNext

LEMMA StreakCorrect == CanarySpec => []StreakInv
BY StreakInit, StreakInductive, PTL DEF CanarySpec

(***************************************************************************)
(* The row of a check keeps its shape through every failure between its    *)
(* statements, and a check starts with an empty one.                       *)
(***************************************************************************)
THEOREM CanaryTypeCorrect == CanarySpec => []CanaryTypeOK
<1>1. StreakInv => CanaryTypeOK
  BY DEF StreakInv
<1>2. QED
  BY <1>1, StreakCorrect, PTL

(***************************************************************************)
(* A check without features fails for it exactly when it is the last of    *)
(* Threshold such checks in a row (canary.go 193-211).                     *)
(***************************************************************************)
THEOREM ZeroStreakFailsCorrect == CanarySpec => []ZeroStreakFails
<1>1. StreakInv => ZeroStreakFails
  BY DEF StreakInv
<1>2. QED
  BY <1>1, StreakCorrect, PTL
=============================================================================
