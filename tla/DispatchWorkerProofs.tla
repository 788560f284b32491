------------------------ MODULE DispatchWorkerProofs ------------------------
(***************************************************************************)
(* Proofs about DispatchWorker for every set of transcripts, addresses and *)
(* workers, any windows and any number of faults.                          *)
(***************************************************************************)
EXTENDS DispatchWorkerProperties, TLAPS

-----------------------------------------------------------------------------
(***************************************************************************)
(* The tables keep their types, a worker in a transaction holds a row that *)
(* is not consumed yet, and such a row has attempts left.                  *)
(***************************************************************************)
LEMMA HeldInit == DispatchInit => Held
BY WindowsAssumption, DispatchBoundsAssumption
   DEF DispatchInit, Held, DispatchTypeOK, RowHeld, AttemptsLeft, Unparsed,
       NoEntry, Null

\* Counting one more for one element, and below a bound.
LEMMA CountOneMore ==
  ASSUME NEW S, NEW f \in [S -> Nat], NEW x \in S
  PROVE  /\ [f EXCEPT ![x] = f[x] + 1] \in [S -> Nat]
         /\ [f EXCEPT ![x] = f[x] + 1][x] = f[x] + 1
OBVIOUS

\* The same below a bound.
LEMMA CountWithin ==
  ASSUME NEW S, NEW max \in Nat, NEW f \in [S -> 0..max], NEW x \in S, f[x] < max
  PROVE  /\ [f EXCEPT ![x] = f[x] + 1] \in [S -> 0..max]
         /\ [f EXCEPT ![x] = f[x] + 1][x] = f[x] + 1
         /\ f[x] \in Nat
OBVIOUS

\* Ending a transaction frees its row and no other.
Unlocked(w) ==
  /\ wpc' \in [Worker -> {"idle", "lookup", "provider", "store",
                          "store_failure", "consume", "retry", "insert"}]
  /\ job' \in [Worker -> Transcript \union {Null}]
  /\ asked_at' \in [Worker -> Nat]
  /\ wpc'[w] = "idle" /\ asked_at'[w] = Null
  /\ \A v \in Worker : v # w =>
       wpc'[v] = wpc[v] /\ job'[v] = job[v] /\ asked_at'[v] = asked_at[v]

\* What Unlock leaves behind, for the rows of the other workers.
LEMMA UnlockFacts ==
  ASSUME DispatchTypeOK, NEW w \in Worker, Unlock(w)
  PROVE  Unlocked(w)
BY DEF DispatchTypeOK, Unlock, Unlocked, Goto, Null

\* Consuming a row writes its two columns and no other row.
Parsed(t, b) ==
  /\ parsed_at' \in [Transcript -> Nat]
  /\ promoted' \in [Transcript -> BOOLEAN]
  /\ parsed_at'[t] = clock /\ parsed_at'[t] # Null /\ promoted'[t] = b
  /\ \A u \in Transcript : u # t =>
       parsed_at'[u] = parsed_at[u] /\ promoted'[u] = promoted[u]

\* What MarkTranscriptParsed leaves behind.
LEMMA ParsedFacts ==
  ASSUME DispatchTypeOK, NEW t \in Transcript, NEW b \in BOOLEAN,
         MarkTranscriptParsed(t, b)
  PROVE  Parsed(t, b)
BY DEF DispatchTypeOK, MarkTranscriptParsed, Parsed, Null

\* An entry of the cache is replaced and no other.
LEMMA CacheStoreFacts ==
  ASSUME DispatchTypeOK, NEW w \in Worker, NEW b \in BOOLEAN, CacheStore(w, b)
  PROVE  /\ geocode_cache' \in [Address -> [success : BOOLEAN, at : Nat]]
         /\ \A a \in Address :
              \/ geocode_cache'[a] = geocode_cache[a]
              \/ /\ a = AddressOf[job[w]]
                 /\ geocode_cache'[a].success = b
                 /\ geocode_cache'[a].at = asked_at[w]
<1> DEFINE r == [success |-> b, at |-> asked_at[w]]
<1>1. r \in [success : BOOLEAN, at : Nat] /\ r.success = b /\ r.at = asked_at[w]
  BY DEF DispatchTypeOK
<1>2. geocode_cache' = [geocode_cache EXCEPT ![AddressOf[job[w]]] = r]
  BY DEF CacheStore
<1> HIDE DEF r
<1>3. QED
  BY <1>1, <1>2 DEF DispatchTypeOK

\* A worker that ends its transaction with its own row leaves the others
\* holding rows that are not consumed.
LEMMA OthersKeepTheirRows ==
  ASSUME DispatchTypeOK, RowHeld, HeldAlone,
         NEW w \in Worker, wpc[w] # "idle", Unlocked(w), received' = received,
         \A u \in Transcript : u # job[w] => parsed_at'[u] = parsed_at[u]
  PROVE  RowHeld'
<1> SUFFICES ASSUME NEW v \in Worker, wpc'[v] # "idle"
             PROVE  job'[v] \in received' /\ parsed_at'[job'[v]] = Null
  BY DEF RowHeld, Unparsed
<1>1. v # w /\ wpc'[v] = wpc[v] /\ job'[v] = job[v]
  BY DEF Unlocked
<1>2. job[v] \in received /\ parsed_at[job[v]] = Null
  BY <1>1 DEF RowHeld, Unparsed
<1>3. job[v] \in Transcript
  BY <1>2 DEF DispatchTypeOK
<1>4. job[v] # job[w]
  BY <1>1 DEF HeldAlone
<1>5. QED
  BY <1>1, <1>2, <1>3, <1>4

\* Held is kept by every step, with RowHeld read together with HeldAlone: a
\* row consumed by one worker must not be the row of another.
LEMMA HeldInductive == Held /\ HeldAlone /\ [DispatchNext]_dispatchVars => Held'
<1> SUFFICES ASSUME DispatchTypeOK, RowHeld, AttemptsLeft, HeldAlone,
                    [DispatchNext]_dispatchVars
             PROVE  DispatchTypeOK' /\ RowHeld' /\ AttemptsLeft'
  BY DEF Held
<1> DEFINE P == DispatchTypeOK /\ RowHeld /\ AttemptsLeft
<1> USE DEF Null
<1>1. CASE Tick
  BY <1>1 DEF Tick, DispatchTypeOK, RowHeld, AttemptsLeft, Unparsed, table,
              incidentRows, geocoding, workers
<1>2. ASSUME NEW t \in Transcript, NEW captured \in 0..clock,
             InsertDispatchTranscript(t, captured)
      PROVE  P'
  BY <1>2 DEF InsertDispatchTranscript, DispatchTypeOK, RowHeld, AttemptsLeft,
              Unparsed, incidentRows, geocoding, workers
<1>3. ASSUME NEW w \in Worker, LockNextTranscript(w)
      PROVE  P'
  BY <1>3 DEF LockNextTranscript, NextTranscript, Goto, DispatchTypeOK, RowHeld,
              AttemptsLeft, Unparsed, table, incidentRows, geocoding
<1>4. ASSUME NEW w \in Worker, NEW ok \in BOOLEAN, Lookup(w, ok)
      PROVE  P'
  BY <1>4, DispatchBoundsAssumption
     DEF Lookup, Outcome, Goto, DispatchTypeOK, RowHeld, AttemptsLeft,
         Unparsed, table, incidentRows, geocoding
<1>5. ASSUME NEW w \in Worker, NEW answer \in {"found", "no_result", "error"},
             Geocode(w, answer)
      PROVE  P'
  BY <1>5 DEF Geocode, Goto, DispatchTypeOK, RowHeld, AttemptsLeft, Unparsed,
              table, incidentRows
<1>6. ASSUME NEW w \in Worker, NEW ok \in BOOLEAN, NEW committed \in BOOLEAN,
             Store(w, ok, committed)
      PROVE  P'
  <2>1. geocode_cache' \in [Address -> [success : BOOLEAN, at : Nat]]
    BY <1>6, CacheStoreFacts DEF Store, DispatchTypeOK
  <2>2. QED
    BY <1>6, <2>1, DispatchBoundsAssumption
       DEF Store, Outcome, Goto, DispatchTypeOK, RowHeld,
           AttemptsLeft, Unparsed, table, incidentRows
<1>7. ASSUME NEW w \in Worker, NEW ok \in BOOLEAN, NEW committed \in BOOLEAN,
             StoreFailure(w, ok, committed)
      PROVE  P'
  <2>1. geocode_cache' \in [Address -> [success : BOOLEAN, at : Nat]]
    BY <1>7, CacheStoreFacts DEF StoreFailure, DispatchTypeOK
  <2>2. QED
    BY <1>7, <2>1, DispatchBoundsAssumption
       DEF StoreFailure, Outcome, Goto, DispatchTypeOK, RowHeld,
           AttemptsLeft, Unparsed, table, incidentRows
<1>8. ASSUME NEW w \in Worker, Consume(w)
      PROVE  P'
  <2>1. job[w] \in Transcript /\ Unparsed(job[w])
    BY <1>8 DEF Consume, RowHeld, Unparsed, DispatchTypeOK
  <2>2. Unlocked(w)
    BY <1>8, UnlockFacts DEF Consume
  <2>3. Parsed(job[w], FALSE)
    BY <1>8, <2>1, ParsedFacts DEF Consume
  <2>4. DispatchTypeOK'
    BY <1>8, <2>1, <2>2, <2>3
       DEF Consume, incidentRows, geocoding, Unlocked, Parsed, DispatchTypeOK
  <2>5. RowHeld'
    BY <1>8, <2>2, <2>3, OthersKeepTheirRows DEF Consume, Parsed
  <2>6. AttemptsLeft'
    BY <1>8, <2>1, <2>3 DEF Consume, Parsed, DispatchTypeOK, AttemptsLeft
  <2>7. QED
    BY <2>4, <2>5, <2>6
<1>9. ASSUME NEW w \in Worker, Retry(w)
      PROVE  P'
  <2>1. job[w] \in Transcript /\ Unparsed(job[w])
    BY <1>9 DEF Retry, RowHeld, Unparsed, DispatchTypeOK
  <2>2. Unlocked(w)
    BY <1>9, UnlockFacts DEF Retry
  <2>3. geocode_attempts[job[w]] < MaxAttempts
    BY <2>1 DEF AttemptsLeft, Unparsed
  <2>4. geocode_attempts' \in [Transcript -> 0..MaxAttempts]
    <3>1. geocode_attempts' =
            [geocode_attempts EXCEPT ![job[w]] = geocode_attempts[job[w]] + 1]
      BY <1>9 DEF Retry
    <3>2. geocode_attempts \in [Transcript -> 0..MaxAttempts] /\ MaxAttempts \in Nat
      BY WindowsAssumption DEF DispatchTypeOK
    <3>3. QED
      BY <2>1, <2>3, <3>1, <3>2, CountWithin
  <2>5. /\ parsed_at' \in [Transcript -> Nat]
        /\ promoted' \in [Transcript -> BOOLEAN]
        /\ \A u \in Transcript : u # job[w] => parsed_at'[u] = parsed_at[u]
        /\ parsed_at'[job[w]] # Null <=> geocode_attempts'[job[w]] = MaxAttempts
    <3>1. /\ geocode_attempts'[job[w]] = geocode_attempts[job[w]] + 1
          /\ geocode_attempts[job[w]] \in Nat /\ parsed_at[job[w]] = Null
      <4>1. geocode_attempts' =
              [geocode_attempts EXCEPT ![job[w]] = geocode_attempts[job[w]] + 1]
        BY <1>9 DEF Retry
      <4>2. geocode_attempts \in [Transcript -> 0..MaxAttempts] /\ MaxAttempts \in Nat
        BY WindowsAssumption DEF DispatchTypeOK
      <4>3. QED
        BY <2>1, <2>3, <4>1, <4>2, CountWithin DEF Unparsed
    <3>2. CASE geocode_attempts[job[w]] + 1 >= MaxAttempts
      <4>1. Parsed(job[w], FALSE)
        BY <1>9, <2>1, <3>2, ParsedFacts DEF Retry
      <4>2. QED
        BY <2>3, <3>1, <3>2, <4>1, WindowsAssumption DEF Parsed
    <3>3. CASE ~(geocode_attempts[job[w]] + 1 >= MaxAttempts)
      <4>1. parsed_at' = parsed_at /\ promoted' = promoted
        BY <1>9, <3>3 DEF Retry
      <4>2. QED
        BY <2>3, <3>1, <3>3, <4>1, WindowsAssumption DEF DispatchTypeOK
    <3>4. QED
      BY <3>2, <3>3
  <2>6. DispatchTypeOK'
    BY <1>9, <2>2, <2>4, <2>5
       DEF Retry, Unlocked, DispatchTypeOK, incidentRows, geocoding
  <2>7. RowHeld'
    BY <1>9, <2>2, <2>5, OthersKeepTheirRows DEF Retry
  <2>8. AttemptsLeft'
    <3>1. \A u \in Transcript : u # job[w] =>
            geocode_attempts'[u] = geocode_attempts[u]
      BY <1>9 DEF Retry, DispatchTypeOK
    <3>2. \A u \in Transcript : geocode_attempts'[u] \in 0..MaxAttempts
      BY <2>4
    <3>3. QED
      BY <2>1, <2>5, <3>1, <3>2, WindowsAssumption DEF AttemptsLeft
  <2>9. QED
    BY <2>6, <2>7, <2>8
<1>10. ASSUME NEW w \in Worker, Promote(w)
       PROVE  P'
  <2>1. job[w] \in Transcript /\ Unparsed(job[w])
    BY <1>10 DEF Promote, RowHeld, Unparsed, DispatchTypeOK
  <2>2. Unlocked(w)
    BY <1>10, UnlockFacts DEF Promote
  <2>3. Parsed(job[w], TRUE)
    BY <1>10, <2>1, ParsedFacts DEF Promote
  <2>4. DispatchTypeOK'
    <3>1. /\ sdr_polls' = [sdr_polls EXCEPT ![job[w]] = sdr_polls[job[w]] + 1]
          /\ incident_seen_at' = [incident_seen_at EXCEPT ![job[w]] = clock]
          /\ cleared_at' = [cleared_at EXCEPT ![job[w]] = Null]
      BY <1>10 DEF Promote, InsertIncident
    <3>2. /\ sdr_polls' \in [Transcript -> Nat]
          /\ incident_seen_at' \in [Transcript -> Nat]
          /\ cleared_at' \in [Transcript -> Nat]
      BY <2>1, <3>1, CountOneMore DEF DispatchTypeOK
    <3>3. QED
      BY <1>10, <2>2, <2>3, <3>2
         DEF Promote, geocoding, Unlocked, Parsed, DispatchTypeOK
  <2>5. RowHeld'
    BY <1>10, <2>2, <2>3, OthersKeepTheirRows DEF Promote, Parsed
  <2>6. AttemptsLeft'
    BY <1>10, <2>1, <2>3 DEF Promote, Parsed, DispatchTypeOK, AttemptsLeft
  <2>7. QED
    BY <2>4, <2>5, <2>6
<1>11. ASSUME NEW w \in Worker, Rollback(w)
       PROVE  P'
  <2>1. Unlocked(w)
    BY <1>11, UnlockFacts DEF Rollback
  <2>2. QED
    BY <1>11, <2>1, DispatchBoundsAssumption
       DEF Rollback, Outcome, Unlocked, DispatchTypeOK, RowHeld, AttemptsLeft,
           Unparsed, table, incidentRows, geocoding
<1>12. CASE ClearStaleSDRAudioIncidents
  BY <1>12 DEF ClearStaleSDRAudioIncidents, DispatchTypeOK, RowHeld, AttemptsLeft,
               Unparsed, table, geocoding, workers
<1>13. CASE UNCHANGED dispatchVars
  BY <1>13 DEF dispatchVars, DispatchTypeOK, RowHeld, AttemptsLeft, Unparsed,
               table, incidentRows, geocoding, workers
<1>14. QED
  BY <1>1, <1>2, <1>3, <1>4, <1>5, <1>6, <1>7, <1>8, <1>9, <1>10, <1>11, <1>12,
     <1>13 DEF DispatchNext, WorkerStep

-----------------------------------------------------------------------------
(***************************************************************************)
(* No two transactions hold the same row, and what a row says of its       *)
(* promotion is what the incident and the poll log say.                    *)
(***************************************************************************)
LEMMA PromotionsInit == DispatchInit => Promotions
BY DEF DispatchInit, Promotions, HeldAlone, PromotedOnce, ClearedHasRow,
       HasIncident, Null

\* A transaction that ends leaves the rows of the others held alone.
LEMMA OthersHeldAlone ==
  ASSUME HeldAlone, NEW w \in Worker, Unlocked(w)
  PROVE  HeldAlone'
BY DEF HeldAlone, Unlocked

\* A step that only moves one worker within its transaction.
LEMMA SameRowsHeld ==
  ASSUME HeldAlone, DispatchTypeOK, NEW w \in Worker, wpc[w] # "idle",
         job' = job, \A v \in Worker : v # w => wpc'[v] = wpc[v]
  PROVE  HeldAlone'
BY DEF HeldAlone

\* A step that writes neither the rows' promotion nor the incidents.
LEMMA PromotionsUntouched ==
  ASSUME PromotedOnce, ClearedHasRow, UNCHANGED <<promoted, parsed_at>>,
         UNCHANGED incidentRows
  PROVE  PromotedOnce' /\ ClearedHasRow'
BY DEF PromotedOnce, ClearedHasRow, HasIncident, incidentRows

\* A row consumed without an incident had none before.
LEMMA GivenUp ==
  ASSUME PromotedOnce, ClearedHasRow, NEW t \in Transcript, Unparsed(t),
         Parsed(t, FALSE), UNCHANGED incidentRows
  PROVE  PromotedOnce' /\ ClearedHasRow'
<1>1. promoted[t] = FALSE \/ ~promoted[t]
  BY DEF PromotedOnce, Unparsed
<1>2. \A u \in Transcript :
        /\ promoted'[u] <=> promoted[u]
        /\ promoted[u] => parsed_at'[u] # Null
  BY DEF PromotedOnce, Unparsed, Parsed
<1>3. QED
  BY <1>2 DEF PromotedOnce, ClearedHasRow, HasIncident, incidentRows

\* The promotions agree with the incidents after every step.
LEMMA PromotionsInductive ==
  Held /\ Promotions /\ [DispatchNext]_dispatchVars => Promotions'
<1> SUFFICES ASSUME DispatchTypeOK, RowHeld, HeldAlone, PromotedOnce, ClearedHasRow,
                    [DispatchNext]_dispatchVars
             PROVE  HeldAlone' /\ PromotedOnce' /\ ClearedHasRow'
  BY DEF Held, Promotions
<1> DEFINE P == HeldAlone /\ PromotedOnce /\ ClearedHasRow
<1>1. CASE Tick
  BY <1>1, PromotionsUntouched DEF Tick, table, workers, HeldAlone
<1>2. ASSUME NEW t \in Transcript, NEW captured \in 0..clock,
             InsertDispatchTranscript(t, captured)
      PROVE  P'
  BY <1>2, PromotionsUntouched DEF InsertDispatchTranscript, workers, HeldAlone
<1>3. ASSUME NEW w \in Worker, LockNextTranscript(w)
      PROVE  P'
  <2>1. PICK t \in NextTranscript :
          job' = [job EXCEPT ![w] = t] /\ \E s : wpc' = [wpc EXCEPT ![w] = s]
    BY <1>3 DEF LockNextTranscript, Goto
  <2>2. \A v \in Worker : v # w /\ wpc[v] # "idle" => job[v] # t
    BY <2>1 DEF NextTranscript, Locked
  <2>3. HeldAlone'
    BY <2>1, <2>2 DEF HeldAlone, DispatchTypeOK
  <2>4. QED
    BY <1>3, <2>3, PromotionsUntouched DEF LockNextTranscript, table
<1>4. ASSUME NEW w \in Worker, NEW ok \in BOOLEAN, Lookup(w, ok)
      PROVE  P'
  <2>1. HeldAlone'
    BY <1>4, SameRowsHeld DEF Lookup, Goto, DispatchTypeOK
  <2>2. QED
    BY <1>4, <2>1, PromotionsUntouched DEF Lookup, table
<1>5. ASSUME NEW w \in Worker, NEW answer \in {"found", "no_result", "error"},
             Geocode(w, answer)
      PROVE  P'
  <2>1. HeldAlone'
    BY <1>5, SameRowsHeld DEF Geocode, Goto, DispatchTypeOK
  <2>2. QED
    BY <1>5, <2>1, PromotionsUntouched DEF Geocode, table
<1>6. ASSUME NEW w \in Worker, NEW ok \in BOOLEAN, NEW committed \in BOOLEAN,
             Store(w, ok, committed)
      PROVE  P'
  <2>1. HeldAlone'
    BY <1>6, SameRowsHeld DEF Store, Goto, DispatchTypeOK
  <2>2. QED
    BY <1>6, <2>1, PromotionsUntouched DEF Store, table
<1>7. ASSUME NEW w \in Worker, NEW ok \in BOOLEAN, NEW committed \in BOOLEAN,
             StoreFailure(w, ok, committed)
      PROVE  P'
  <2>1. HeldAlone'
    BY <1>7, SameRowsHeld DEF StoreFailure, Goto, DispatchTypeOK
  <2>2. QED
    BY <1>7, <2>1, PromotionsUntouched DEF StoreFailure, table
<1>8. ASSUME NEW w \in Worker, Consume(w)
      PROVE  P'
  <2>1. job[w] \in Transcript /\ Unparsed(job[w])
    BY <1>8 DEF Consume, RowHeld, Unparsed, DispatchTypeOK
  <2>2. Parsed(job[w], FALSE) /\ Unlocked(w)
    BY <1>8, <2>1, ParsedFacts, UnlockFacts DEF Consume
  <2>3. QED
    BY <1>8, <2>1, <2>2, OthersHeldAlone, GivenUp DEF Consume
<1>9. ASSUME NEW w \in Worker, Retry(w)
      PROVE  P'
  <2>1. job[w] \in Transcript /\ Unparsed(job[w])
    BY <1>9 DEF Retry, RowHeld, Unparsed, DispatchTypeOK
  <2>2. Unlocked(w)
    BY <1>9, UnlockFacts DEF Retry
  <2>3. CASE geocode_attempts[job[w]] + 1 >= MaxAttempts
    <3>1. Parsed(job[w], FALSE)
      BY <1>9, <2>1, <2>3, ParsedFacts DEF Retry
    <3>2. QED
      BY <1>9, <2>1, <2>2, <3>1, OthersHeldAlone, GivenUp DEF Retry
  <2>4. CASE ~(geocode_attempts[job[w]] + 1 >= MaxAttempts)
    BY <1>9, <2>2, <2>4, OthersHeldAlone, PromotionsUntouched DEF Retry
  <2>5. QED
    BY <2>3, <2>4
<1>10. ASSUME NEW w \in Worker, Promote(w)
       PROVE  P'
  <2>1. job[w] \in Transcript /\ Unparsed(job[w])
    BY <1>10 DEF Promote, RowHeld, Unparsed, DispatchTypeOK
  <2>2. Parsed(job[w], TRUE) /\ Unlocked(w)
    BY <1>10, <2>1, ParsedFacts, UnlockFacts DEF Promote
  <2>3. ~promoted[job[w]] /\ sdr_polls[job[w]] = 0
    BY <2>1 DEF PromotedOnce, Unparsed
  <2>4. /\ sdr_polls' = [sdr_polls EXCEPT ![job[w]] = sdr_polls[job[w]] + 1]
        /\ incident_seen_at' = [incident_seen_at EXCEPT ![job[w]] = clock]
        /\ cleared_at' = [cleared_at EXCEPT ![job[w]] = Null]
    BY <1>10 DEF Promote, InsertIncident
  <2>5. clock # Null
    BY DEF DispatchTypeOK, Null
  <2>6. ASSUME NEW t \in Transcript
        PROVE  /\ promoted'[t] => parsed_at'[t] # Null
               /\ HasIncident(t)' <=> promoted'[t]
               /\ sdr_polls'[t] = IF promoted'[t] THEN 1 ELSE 0
               /\ cleared_at'[t] # Null => HasIncident(t)'
    <3>1. CASE t = job[w]
      BY <2>1, <2>2, <2>3, <2>4, <2>5, <3>1
         DEF Parsed, HasIncident, DispatchTypeOK
    <3>2. CASE t # job[w]
      BY <2>1, <2>2, <2>4, <3>2
         DEF Parsed, HasIncident, DispatchTypeOK, PromotedOnce, ClearedHasRow
    <3>3. QED
      BY <3>1, <3>2
  <2>7. QED
    BY <2>2, <2>6, OthersHeldAlone DEF PromotedOnce, ClearedHasRow
<1>11. ASSUME NEW w \in Worker, Rollback(w)
       PROVE  P'
  BY <1>11, UnlockFacts, OthersHeldAlone, PromotionsUntouched DEF Rollback, table
<1>12. CASE ClearStaleSDRAudioIncidents
  BY <1>12 DEF ClearStaleSDRAudioIncidents, SweepDue, table, workers, HeldAlone,
               PromotedOnce, ClearedHasRow, HasIncident
<1>13. CASE UNCHANGED dispatchVars
  BY <1>13, PromotionsUntouched DEF dispatchVars, table, workers, HeldAlone
<1>14. QED
  BY <1>1, <1>2, <1>3, <1>4, <1>5, <1>6, <1>7, <1>8, <1>9, <1>10, <1>11, <1>12,
     <1>13 DEF DispatchNext, WorkerStep

-----------------------------------------------------------------------------
(***************************************************************************)
(* Why a row is given up is known from the moment it is decided to the     *)
(* commit, and stays on record.                                            *)
(***************************************************************************)
LEMMA CausesInit == DispatchInit => Causes
BY TranscriptAssumption
   DEF DispatchInit, Causes, CacheHonest, Asked, CauseKnown, RefusalIsFresh,
       OnRecord, LostForCause, Hit, NoEntry, Null

\* A row's cause stays on record as long as its own columns do.
LEMMA LostUntouched ==
  ASSUME LostForCause, UNCHANGED <<parsed_at, promoted, geocode_attempts>>,
         \A t \in Transcript : parsed_at[t] # Null => captured_at'[t] = captured_at[t],
         \A a \in Address : refusals[a] \subseteq refusals'[a]
  PROVE  LostForCause'
<1> SUFFICES ASSUME NEW t \in GatePasses, parsed_at[t] # Null, ~promoted[t]
             PROVE  \/ parsed_at[t] - captured_at'[t] > MaxAge
                    \/ geocode_attempts[t] = MaxAttempts
                    \/ \E at \in refusals'[AddressOf[t]] : at <= parsed_at[t]
  BY DEF LostForCause
<1>1. t \in Transcript /\ AddressOf[t] \in Address
  BY TranscriptAssumption
<1>2. captured_at'[t] = captured_at[t] /\ refusals[AddressOf[t]] \subseteq refusals'[AddressOf[t]]
  BY <1>1
<1>3. QED
  BY <1>2 DEF LostForCause

\* A step in which no worker moves and no answer comes in.
LEMMA WorkersUntouched ==
  ASSUME CacheHonest, Asked, CauseKnown, RefusalIsFresh, DispatchTypeOK, RowHeld,
         UNCHANGED <<workers, geocoding>>, clock' \in Nat, clock <= clock',
         \A t \in received : captured_at'[t] = captured_at[t]
  PROVE  CacheHonest' /\ Asked' /\ CauseKnown' /\ RefusalIsFresh'
<1>1. CacheHonest' /\ Asked' /\ RefusalIsFresh'
  BY DEF CacheHonest, Asked, RefusalIsFresh, workers, geocoding, DispatchTypeOK, Hit
<1>2. ASSUME NEW w \in Worker, wpc[w] = "consume", job[w] \in GatePasses
      PROVE  StaleCapture(job[w])' \/ refusals'[AddressOf[job'[w]]] # {}
  <2>1. job[w] \in received /\ job[w] \in Transcript
    BY <1>2 DEF RowHeld, Unparsed, DispatchTypeOK
  <2>2. captured_at[job[w]] \in Nat /\ captured_at'[job[w]] = captured_at[job[w]]
    BY <2>1 DEF DispatchTypeOK
  <2>3. CASE StaleCapture(job[w])
    BY <2>2, <2>3, WindowsAssumption
       DEF StaleCapture, workers, DispatchTypeOK
  <2>4. CASE refusals[AddressOf[job[w]]] # {}
    BY <2>4 DEF workers, geocoding
  <2>5. QED
    BY <1>2, <2>3, <2>4 DEF CauseKnown
<1>3. QED
  BY <1>1, <1>2 DEF CauseKnown, workers

\* A worker that ends its transaction is asking nothing any more.
LEMMA OthersKeepTheirCauses ==
  ASSUME CacheHonest, Asked, CauseKnown, RefusalIsFresh, DispatchTypeOK,
         NEW w \in Worker, Unlocked(w), UNCHANGED <<clock, captured_at, geocoding>>
  PROVE  CacheHonest' /\ Asked' /\ CauseKnown' /\ RefusalIsFresh'
<1>1. CacheHonest'
  BY DEF CacheHonest, geocoding, Hit
<1>2. Asked'
  BY DEF Asked, Unlocked, geocoding, DispatchTypeOK, Null
<1>3. CauseKnown'
  BY DEF CauseKnown, Unlocked, geocoding, StaleCapture
<1>4. RefusalIsFresh'
  BY DEF RefusalIsFresh, Unlocked, geocoding
<1>5. QED
  BY <1>1, <1>2, <1>3, <1>4

\* Giving up a row for a known cause puts that cause on record.
LEMMA LostWithCause ==
  ASSUME LostForCause, CacheHonest, DispatchTypeOK,
         NEW t \in Transcript, Parsed(t, FALSE),
         UNCHANGED <<captured_at, refusals, geocode_attempts>>,
         t \in GatePasses => StaleCapture(t) \/ refusals[AddressOf[t]] # {}
  PROVE  LostForCause'
<1> SUFFICES ASSUME NEW u \in GatePasses, parsed_at'[u] # Null, ~promoted'[u]
             PROVE  \/ parsed_at'[u] - captured_at[u] > MaxAge
                    \/ geocode_attempts[u] = MaxAttempts
                    \/ \E at \in refusals[AddressOf[u]] : at <= parsed_at'[u]
  BY DEF LostForCause
<1>1. u \in Transcript /\ AddressOf[u] \in Address
  BY TranscriptAssumption
<1>2. CASE u # t
  BY <1>1, <1>2 DEF Parsed, LostForCause
<1>3. CASE u = t
  BY <1>1, <1>3 DEF Parsed, CacheHonest, StaleCapture
<1>4. QED
  BY <1>2, <1>3

\* Consuming a row that arrived.
LEMMA ParsedOnRecord ==
  ASSUME OnRecord, NEW t \in Transcript, t \in received, NEW b, Parsed(t, b),
         received' = received
  PROVE  OnRecord'
BY DEF OnRecord, Parsed

\* The causes are kept by every step.
LEMMA CausesInductive ==
  Held /\ HeldAlone /\ Causes /\ [DispatchNext]_dispatchVars => Causes'
<1> SUFFICES ASSUME DispatchTypeOK, RowHeld, AttemptsLeft, HeldAlone, CacheHonest,
                    Asked, CauseKnown, RefusalIsFresh, OnRecord, LostForCause,
                    [DispatchNext]_dispatchVars
             PROVE  /\ CacheHonest' /\ Asked' /\ CauseKnown' /\ RefusalIsFresh'
                    /\ OnRecord' /\ LostForCause'
  BY DEF Held, Causes
<1> DEFINE P == CacheHonest /\ Asked /\ CauseKnown /\ RefusalIsFresh
           Q == P /\ OnRecord /\ LostForCause
<1>1. CASE Tick
  <2>1. clock' \in Nat /\ clock <= clock'
    BY <1>1 DEF Tick, DispatchTypeOK
  <2>2. P'
    BY <1>1, <2>1, WorkersUntouched DEF Tick, table
  <2>3. QED
    BY <1>1, <2>2, LostUntouched DEF Tick, table, geocoding, OnRecord
<1>2. ASSUME NEW t \in Transcript, NEW captured \in 0..clock,
             InsertDispatchTranscript(t, captured)
      PROVE  Q'
  <2>1. \A u \in Transcript : u # t => captured_at'[u] = captured_at[u]
    BY <1>2 DEF InsertDispatchTranscript, DispatchTypeOK
  <2>2. \A u \in received : u \in Transcript /\ u # t
    BY <1>2 DEF InsertDispatchTranscript, DispatchTypeOK
  <2>3. P'
    BY <1>2, <2>1, <2>2, WorkersUntouched DEF InsertDispatchTranscript, DispatchTypeOK
  <2>4. QED
    BY <1>2, <2>1, <2>2, <2>3, LostUntouched
       DEF InsertDispatchTranscript, geocoding, OnRecord
<1>3. ASSUME NEW w \in Worker, LockNextTranscript(w)
      PROVE  Q'
  <2>1. PICK t \in NextTranscript :
          /\ job' = [job EXCEPT ![w] = t]
          /\ wpc' = [wpc EXCEPT ![w] = IF StaleCapture(t) \/ t \notin GatePasses
                                         THEN "consume" ELSE "lookup"]
    BY <1>3 DEF LockNextTranscript, Goto
  <2>2. UNCHANGED <<clock, table, geocoding, asked_at>> /\ asked_at[w] = Null
    BY <1>3 DEF LockNextTranscript, Asked
  <2>3. \A v \in Worker : v # w => wpc'[v] = wpc[v] /\ job'[v] = job[v]
    BY <2>1 DEF DispatchTypeOK
  <2>4. /\ job'[w] = t
        /\ wpc'[w] \in {"consume", "lookup"}
        /\ wpc'[w] = "consume" => StaleCapture(t) \/ t \notin GatePasses
    BY <2>1 DEF DispatchTypeOK
  <2>5. CacheHonest' /\ Asked' /\ RefusalIsFresh'
    BY <2>2, <2>3, <2>4 DEF CacheHonest, Asked, RefusalIsFresh, geocoding, Hit
  <2>6. CauseKnown'
    BY <2>2, <2>3, <2>4 DEF CauseKnown, StaleCapture, table, geocoding
  <2>7. QED
    BY <2>2, <2>5, <2>6, LostUntouched DEF table, geocoding, OnRecord
<1>4. ASSUME NEW w \in Worker, NEW ok \in BOOLEAN, Lookup(w, ok)
      PROVE  Q'
  <2> DEFINE a == AddressOf[job[w]]
  <2>1. /\ UNCHANGED <<clock, table, geocoding, job>>
        /\ wpc[w] = "lookup"
        /\ asked_at'[w] = clock
        /\ \A v \in Worker : v # w => wpc'[v] = wpc[v] /\ asked_at'[v] = asked_at[v]
    BY <1>4 DEF Lookup, Goto, DispatchTypeOK
  <2>2. /\ wpc'[w] \in {"retry", "insert", "consume", "provider"}
        /\ wpc'[w] = "consume" => FreshFailure(a)
    BY <1>4 DEF Lookup, Goto, DispatchTypeOK
  <2>3. a \in Address
    BY <2>1, TranscriptAssumption DEF RowHeld, Unparsed, DispatchTypeOK
  <2>4. wpc'[w] = "consume" =>
          \E at \in refusals[a] : at <= clock /\ clock - at < FailedTTL
    BY <2>2, <2>3 DEF FreshFailure, CacheHonest
  <2>5. CacheHonest' /\ Asked'
    BY <2>1, <2>2 DEF CacheHonest, Asked, geocoding, Hit, DispatchTypeOK
  <2>6. CauseKnown'
    BY <2>1, <2>4 DEF CauseKnown, StaleCapture, table, geocoding
  <2>7. RefusalIsFresh'
    BY <2>1, <2>4 DEF RefusalIsFresh, geocoding
  <2>8. QED
    BY <2>1, <2>5, <2>6, <2>7, LostUntouched DEF table, geocoding, OnRecord
<1>5. ASSUME NEW w \in Worker, NEW answer \in {"found", "no_result", "error"},
             Geocode(w, answer)
      PROVE  Q'
  <2> DEFINE a == AddressOf[job[w]]
  <2>1. /\ UNCHANGED <<clock, table, geocode_cache, job, asked_at>>
        /\ wpc[w] = "provider"
        /\ \A v \in Worker : v # w => wpc'[v] = wpc[v]
        /\ wpc'[w] \in {"store", "store_failure", "retry"}
        /\ wpc'[w] = "store_failure" => answer = "no_result"
    BY <1>5 DEF Geocode, Goto, DispatchTypeOK
  <2>2. a \in Address
    BY <2>1, TranscriptAssumption DEF RowHeld, Unparsed, DispatchTypeOK
  <2>3. /\ answer = "no_result" => asked_at[w] \in refusals'[a]
        /\ \A b \in Address : /\ refusals[b] \subseteq refusals'[b]
                              /\ refusals'[b] \subseteq refusals[b] \union {asked_at[w]}
    BY <1>5, <2>2 DEF Geocode, DispatchTypeOK
  <2>4. \A v \in Worker : wpc[v] # "idle" => AddressOf[job[v]] \in Address
    BY TranscriptAssumption DEF RowHeld, Unparsed, DispatchTypeOK
  <2>5. CacheHonest'
    BY <2>1, <2>3 DEF CacheHonest, Asked, Hit
  <2>6. Asked'
    BY <2>1, <2>3, <2>4 DEF Asked
  <2>7. CauseKnown'
    BY <2>1, <2>3, <2>4 DEF CauseKnown, StaleCapture, table
  <2>8. RefusalIsFresh'
    BY <2>1, <2>3, <2>4 DEF RefusalIsFresh
  <2>9. QED
    BY <2>1, <2>3, <2>5, <2>6, <2>7, <2>8, LostUntouched DEF table, OnRecord
<1>6. ASSUME NEW w \in Worker, NEW ok \in BOOLEAN, NEW committed \in BOOLEAN,
             Store(w, ok, committed)
      PROVE  Q'
  <2>1. /\ UNCHANGED <<clock, table, refusals, job, asked_at>>
        /\ \A v \in Worker : v # w => wpc'[v] = wpc[v]
        /\ wpc'[w] \in {"insert", "retry"}
    BY <1>6 DEF Store, Goto, DispatchTypeOK
  <2>2. \A a \in Address :
          geocode_cache'[a] = geocode_cache[a] \/ geocode_cache'[a].success
    <3>1. CASE committed
      <4>1. CacheStore(w, TRUE)
        BY <1>6, <3>1 DEF Store
      <4>2. QED
        BY <4>1, CacheStoreFacts
    <3>2. CASE ~committed
      BY <1>6, <3>2 DEF Store
    <3>3. QED
      BY <3>1, <3>2
  <2>3. CacheHonest'
    BY <2>1, <2>2 DEF CacheHonest, Hit
  <2>4. Asked' /\ CauseKnown' /\ RefusalIsFresh'
    BY <2>1 DEF Asked, CauseKnown, RefusalIsFresh, StaleCapture, table
  <2>5. QED
    BY <2>1, <2>3, <2>4, LostUntouched DEF table, OnRecord
<1>7. ASSUME NEW w \in Worker, NEW ok \in BOOLEAN, NEW committed \in BOOLEAN,
             StoreFailure(w, ok, committed)
      PROVE  Q'
  <2> DEFINE a == AddressOf[job[w]]
  <2>1. /\ UNCHANGED <<clock, table, refusals, job, asked_at>>
        /\ \A v \in Worker : v # w => wpc'[v] = wpc[v]
        /\ wpc'[w] = "consume"
        /\ wpc[w] = "store_failure"
    BY <1>7 DEF StoreFailure, Goto, DispatchTypeOK
  <2>2. asked_at[w] \in refusals[a] /\ asked_at[w] \in Nat
    BY <2>1 DEF Asked, DispatchTypeOK
  <2>3. \A b \in Address :
          \/ geocode_cache'[b] = geocode_cache[b]
          \/ b = a /\ geocode_cache'[b].at = asked_at[w]
    <3>1. CASE committed
      <4>1. CacheStore(w, FALSE)
        BY <1>7, <3>1 DEF StoreFailure
      <4>2. QED
        BY <4>1, CacheStoreFacts
    <3>2. CASE ~committed
      BY <1>7, <3>2 DEF StoreFailure
    <3>3. QED
      BY <3>1, <3>2
  <2>4. CacheHonest'
    BY <2>1, <2>2, <2>3 DEF CacheHonest, Hit
  <2>5. Asked' /\ CauseKnown'
    BY <2>1, <2>2 DEF Asked, CauseKnown, StaleCapture, table
  <2>6. RefusalIsFresh'
    BY <2>1, <2>2, WindowsAssumption DEF RefusalIsFresh
  <2>7. QED
    BY <2>1, <2>4, <2>5, <2>6, LostUntouched DEF table, OnRecord
<1>8. ASSUME NEW w \in Worker, Consume(w)
      PROVE  Q'
  <2>1. job[w] \in Transcript /\ job[w] \in received /\ wpc[w] = "consume"
    BY <1>8 DEF Consume, RowHeld, Unparsed, DispatchTypeOK
  <2>2. Parsed(job[w], FALSE) /\ Unlocked(w)
    BY <1>8, <2>1, ParsedFacts, UnlockFacts DEF Consume
  <2>3. P'
    BY <1>8, <2>2, OthersKeepTheirCauses DEF Consume
  <2>4. job[w] \in GatePasses => StaleCapture(job[w]) \/ refusals[AddressOf[job[w]]] # {}
    BY <2>1 DEF CauseKnown
  <2>5. LostForCause'
    BY <1>8, <2>1, <2>2, <2>4, LostWithCause DEF Consume, geocoding
  <2>6. QED
    BY <1>8, <2>1, <2>2, <2>3, <2>5, ParsedOnRecord DEF Consume
<1>9. ASSUME NEW w \in Worker, Retry(w)
      PROVE  Q'
  <2>1. job[w] \in Transcript /\ Unparsed(job[w])
    BY <1>9 DEF Retry, RowHeld, Unparsed, DispatchTypeOK
  <2>2. Unlocked(w)
    BY <1>9, UnlockFacts DEF Retry
  <2>3. P'
    BY <1>9, <2>2, OthersKeepTheirCauses DEF Retry
  <2>4. /\ geocode_attempts'[job[w]] = geocode_attempts[job[w]] + 1
        /\ geocode_attempts[job[w]] \in 0..MaxAttempts
        /\ geocode_attempts[job[w]] < MaxAttempts
        /\ \A u \in Transcript : u # job[w] =>
             geocode_attempts'[u] = geocode_attempts[u]
    BY <1>9, <2>1 DEF Retry, DispatchTypeOK, AttemptsLeft, Unparsed
  <2>5. \A u \in GatePasses : u \in Transcript
    BY TranscriptAssumption
  <2>6. CASE geocode_attempts[job[w]] + 1 >= MaxAttempts
    <3>1. Parsed(job[w], FALSE)
      BY <1>9, <2>1, <2>6, ParsedFacts DEF Retry
    <3>2. geocode_attempts'[job[w]] = MaxAttempts
      BY <2>4, <2>6, WindowsAssumption
    <3>3. LostForCause'
      BY <1>9, <2>4, <2>5, <3>1, <3>2 DEF Retry, LostForCause, Parsed, geocoding
    <3>4. QED
      BY <1>9, <2>1, <2>3, <3>1, <3>3, ParsedOnRecord DEF Retry, Unparsed
  <2>7. CASE ~(geocode_attempts[job[w]] + 1 >= MaxAttempts)
    <3>1. UNCHANGED <<parsed_at, promoted, captured_at, received, refusals>>
      BY <1>9, <2>7 DEF Retry, geocoding
    <3>2. LostForCause'
      BY <2>1, <2>4, <2>5, <3>1 DEF LostForCause, Unparsed
    <3>3. QED
      BY <2>3, <3>1, <3>2 DEF OnRecord
  <2>8. QED
    BY <2>6, <2>7
<1>10. ASSUME NEW w \in Worker, Promote(w)
       PROVE  Q'
  <2>1. job[w] \in Transcript /\ Unparsed(job[w])
    BY <1>10 DEF Promote, RowHeld, Unparsed, DispatchTypeOK
  <2>2. Parsed(job[w], TRUE) /\ Unlocked(w)
    BY <1>10, <2>1, ParsedFacts, UnlockFacts DEF Promote
  <2>3. P'
    BY <1>10, <2>2, OthersKeepTheirCauses DEF Promote
  <2>4. LostForCause'
    BY <1>10, <2>2, TranscriptAssumption DEF Promote, Parsed, LostForCause, geocoding
  <2>5. QED
    BY <1>10, <2>1, <2>2, <2>3, <2>4, ParsedOnRecord DEF Promote, Unparsed
<1>11. ASSUME NEW w \in Worker, Rollback(w)
       PROVE  Q'
  <2>1. P'
    BY <1>11, UnlockFacts, OthersKeepTheirCauses DEF Rollback, table
  <2>2. QED
    BY <1>11, <2>1, LostUntouched DEF Rollback, table, geocoding, OnRecord
<1>12. CASE ClearStaleSDRAudioIncidents
  BY <1>12, WorkersUntouched, LostUntouched
     DEF ClearStaleSDRAudioIncidents, table, geocoding, DispatchTypeOK, OnRecord
<1>13. CASE UNCHANGED dispatchVars
  BY <1>13, WorkersUntouched, LostUntouched
     DEF dispatchVars, table, geocoding, DispatchTypeOK, OnRecord
<1>14. QED
  BY <1>1, <1>2, <1>3, <1>4, <1>5, <1>6, <1>7, <1>8, <1>9, <1>10, <1>11, <1>12,
     <1>13 DEF DispatchNext, WorkerStep

-----------------------------------------------------------------------------
(***************************************************************************)
(* The inductive invariant of the SDR pipeline.                            *)
(***************************************************************************)
THEOREM DispatchInvariant == DispatchSpec => []DispatchInv
<1>1. DispatchInit => DispatchInv
  BY HeldInit, PromotionsInit, CausesInit DEF DispatchInv
<1>2. DispatchInv /\ [DispatchNext]_dispatchVars => DispatchInv'
  BY HeldInductive, PromotionsInductive, CausesInductive DEF DispatchInv, Promotions
<1>3. QED
  BY <1>1, <1>2, PTL DEF DispatchSpec

\* The columns of the pipeline keep their types; geocode_attempts never
\* exceeds the cap (processNext 227-246).
THEOREM DispatchTypeCorrect == DispatchSpec => []DispatchTypeOK
<1>1. DispatchInv => DispatchTypeOK
  BY DEF DispatchInv, Held
<1>2. QED
  BY <1>1, DispatchInvariant, PTL

\* However many workers compete and fail, a transcript is promoted at most
\* once, with its poll row and its incident (processNext 183-267).
THEOREM PromotedOnceCorrect == DispatchSpec => []PromotedOnce
<1>1. DispatchInv => PromotedOnce
  BY DEF DispatchInv, Promotions
<1>2. QED
  BY <1>1, DispatchInvariant, PTL

\* A transcript past the gate is lost only to its age, to its own attempts
\* or to a refusal of the provider (processNext 224-254).
THEOREM LostForCauseCorrect == DispatchSpec => []LostForCause
<1>1. DispatchInv => LostForCause
  BY DEF DispatchInv, Causes
<1>2. QED
  BY <1>1, DispatchInvariant, PTL

\* A remembered refusal is never used beyond failedCacheTTL (cache.go 36-66).
THEOREM RefusalIsFreshCorrect == DispatchSpec => []RefusalIsFresh
<1>1. DispatchInv => RefusalIsFresh
  BY DEF DispatchInv, Causes
<1>2. QED
  BY <1>1, DispatchInvariant, PTL

\* An incident the janitor cleared never returns to the active feed: only
\* Promote clears cleared_at, and the row it writes did not exist before.
THEOREM ClearedStaysClearedCorrect == DispatchSpec => ClearedStaysCleared
<1> DEFINE Kept ==
      \A t \in Transcript : cleared_at[t] # Null => cleared_at'[t] = cleared_at[t]
<1>1. DispatchInv /\ [DispatchNext]_dispatchVars => [Kept]_dispatchVars
  <2> SUFFICES ASSUME DispatchInv, DispatchNext
               PROVE  Kept
    OBVIOUS
  <2>1. CASE cleared_at' = cleared_at
    BY <2>1
  <2>2. ASSUME NEW w \in Worker, Promote(w)
        PROVE  Kept
    <3>1. job[w] \in Transcript /\ Unparsed(job[w])
      BY <2>2 DEF DispatchInv, Held, Promote, RowHeld, Unparsed, DispatchTypeOK
    <3>2. cleared_at[job[w]] = Null
      BY <3>1 DEF DispatchInv, Promotions, PromotedOnce, ClearedHasRow, Unparsed
    <3>3. cleared_at' = [cleared_at EXCEPT ![job[w]] = Null]
      BY <2>2 DEF Promote, InsertIncident
    <3>4. QED
      BY <3>1, <3>2, <3>3 DEF DispatchInv, Held, DispatchTypeOK
  <2>3. CASE ClearStaleSDRAudioIncidents
    BY <2>3 DEF ClearStaleSDRAudioIncidents, SweepDue, DispatchInv, Held,
                DispatchTypeOK
  <2>4. DispatchNext => \/ cleared_at' = cleared_at
                        \/ \E w \in Worker : Promote(w)
                        \/ ClearStaleSDRAudioIncidents
    BY DEF DispatchNext, WorkerStep, Tick, InsertDispatchTranscript,
           LockNextTranscript, Lookup, Geocode, Store, StoreFailure, Consume, Retry,
           Rollback, incidentRows
  <2>5. QED
    BY <2>1, <2>2, <2>3, <2>4
<1>2. QED
  BY <1>1, DispatchInvariant, PTL DEF DispatchSpec, ClearedStaysCleared
=============================================================================
