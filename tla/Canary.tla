------------------------------- MODULE Canary -------------------------------
(***************************************************************************)
(* The contract canary (cmd/canary, internal/canary).  A check fetches the *)
(* feed, compares it with the contract and with the baseline taken from    *)
(* source_polls, looks into the log of earlier checks when it found no     *)
(* features, and adds its row to that log; every access to the database is *)
(* a statement of its own and may fail.  One process runs one check after  *)
(* the other, so the order of the rows is the order of checked_at.         *)
(*                                                                         *)
(* The ingester moves the baseline as it likes.                            *)
(***************************************************************************)
EXTENDS Naturals, Sequences, FiniteSets

CONSTANTS
  Response,   \* answers of the feed: count of features, assertions broken
  Baselines,  \* averages of feature_count over a week of successful polls
  Threshold,  \* zeroFeatureFailureThreshold
  None,       \* no successful poll within the week
  MaxChecks   \* bound: rows of contract_canary

ASSUME ResponseAssumption ==
  \A r \in Response : r.count \in Nat /\ r.broken \subseteq {"contract"}
ASSUME BaselinesAssumption == Baselines \subseteq Nat
ASSUME NoneAssumption == None \notin Nat
ASSUME ThresholdAssumption == Threshold \in Nat \ {0}
ASSUME MaxChecksAssumption == MaxChecks \in Nat

VARIABLES
  contract_canary,  \* the log: feature_count and the keys of drift
  step,             \* the statement the check runs next
  result,           \* the row it is making
  baseline          \* what FeatureCountBaseline would answer

canaryVars == <<contract_canary, step, result, baseline>>

\* drift has two kinds of keys: failures and notes.  A check that could not
\* fetch or decode the answer has counted no features.
FetchFailure == {"http_error", "http_status", "json_parse"}
Failure ==
  FetchFailure \union {"contract", "baseline_error", "feature_count_history_error",
                       "feature_count"}
Note == {"baseline_unavailable", "feature_count_zero"}
NoResult == [count |-> 0, drift |-> {}]

With(key) == result' = [result EXCEPT !.drift = @ \union {key}]

-----------------------------------------------------------------------------
CanaryInit ==
  /\ contract_canary = <<>>
  /\ step = "wait"
  /\ result = NoResult
  /\ baseline \in Baselines \union {None}

\* The ingester has applied a poll, or time has passed.
PollsMove ==
  /\ baseline' \in Baselines \union {None}
  /\ UNCHANGED <<contract_canary, step, result>>

\* Check up to checkBaseline: nothing but the answer matters.
Fetch(r) ==
  /\ step = "wait"
  /\ Len(contract_canary) < MaxChecks
  /\ step' = "baseline"
  /\ result' = [count |-> r.count, drift |-> r.broken]
  /\ UNCHANGED contract_canary

FetchFails(key) ==
  /\ step = "wait"
  /\ Len(contract_canary) < MaxChecks
  /\ step' = "record"
  /\ result' = [count |-> 0, drift |-> {key}]
  /\ UNCHANGED contract_canary

\* checkBaseline, its first statement.
CheckBaseline ==
  /\ step = "baseline"
  /\ LET zero == baseline # None /\ baseline > 0 /\ result.count = 0
         high == baseline # None /\ baseline > 0 /\ result.count > baseline * 10
     IN /\ step' = IF zero THEN "history" ELSE "record"
        /\ \/ baseline = None /\ With("baseline_unavailable")
           \/ high /\ With("feature_count")
           \/ baseline # None /\ ~high /\ UNCHANGED result
  /\ UNCHANGED contract_canary

BaselineFails ==
  /\ step = "baseline"
  /\ step' = "record"
  /\ With("baseline_error")
  /\ UNCHANGED contract_canary

\* Mutated: one row more is read, and a row with features ends nothing.
PriorZeroFeatureChecksAnywhere(limit) ==
  Cardinality({n \in DOMAIN contract_canary :
    n + limit >= Len(contract_canary) /\ contract_canary[n].count = 0})

\* priorZeroFeatureChecks: the run of zeros at the end of the log, as far as
\* RecentCanaryFeatureCounts(limit) reads it.
PriorZeroFeatureChecks(limit) ==
  Cardinality({n \in DOMAIN contract_canary :
    /\ n + limit > Len(contract_canary)
    /\ \A k \in n..Len(contract_canary) : contract_canary[k].count = 0})

CheckHistory ==
  /\ step = "history"
  /\ step' = "record"
  /\ With(IF PriorZeroFeatureChecks(Threshold - 1) + 1 >= Threshold
            THEN "feature_count" ELSE "feature_count_zero")
  /\ UNCHANGED contract_canary

HistoryFails ==
  /\ step = "history"
  /\ step' = "record"
  /\ With("feature_count_history_error")
  /\ UNCHANGED contract_canary

\* Mutated: the result is kept for the next check.
RecordCanaryKeepsResult(committed) ==
  /\ step = "record"
  /\ step' = "wait"
  /\ contract_canary' =
       IF committed THEN Append(contract_canary, result) ELSE contract_canary
  /\ UNCHANGED result

\* The insert is carried out or not; runChecks logs what it is told.
RecordCanary(committed) ==
  /\ step = "record"
  /\ step' = "wait"
  /\ result' = NoResult
  /\ contract_canary' =
       IF committed THEN Append(contract_canary, result) ELSE contract_canary

\* The process dies in a check; a new one checks at once.
Die ==
  /\ step # "wait"
  /\ step' = "wait"
  /\ result' = NoResult
  /\ UNCHANGED contract_canary

CheckerStep ==
  /\ \/ \E r \in Response : Fetch(r)
     \/ \E key \in FetchFailure : FetchFails(key)
     \/ CheckBaseline
     \/ BaselineFails
     \/ CheckHistory
     \/ HistoryFails
     \/ \E committed \in BOOLEAN : RecordCanary(committed)
     \/ Die
  /\ UNCHANGED baseline

CanaryNext == PollsMove \/ CheckerStep

CanarySpec == CanaryInit /\ [][CanaryNext]_canaryVars

-----------------------------------------------------------------------------
Row == [count : Nat, drift : SUBSET (Failure \union Note)]

CanaryTypeOK ==
  /\ contract_canary \in Seq(Row)
  /\ step \in {"wait", "baseline", "history", "record"}
  /\ result \in Row
  /\ step = "wait" => result = NoResult
  /\ baseline \in Baselines \union {None}

(***************************************************************************)
(* docs/architecture.md section 7: "not 0 for 3 consecutive checks when    *)
(* baseline is non zero".  A check that finds no feature against such a    *)
(* baseline fails for it exactly when the rows of the Threshold - 1 checks *)
(* before it count none either, whatever was lost, died or could not be    *)
(* read in between: the third never passes, and none fails earlier.        *)
(* (canary.go 193-211; rows of checks that could not fetch count too.)     *)
(***************************************************************************)
ZeroStreakFails ==
  \A n \in DOMAIN contract_canary :
    LET row == contract_canary[n]
        third == /\ n >= Threshold
                 /\ \A k \in (n - Threshold + 1)..n : contract_canary[k].count = 0
    IN /\ "feature_count_zero" \in row.drift => ~third
       /\ "feature_count" \in row.drift /\ row.count = 0 => third
=============================================================================
