--------------------------- MODULE DispatchWorker ---------------------------
(***************************************************************************)
(* The SDR pipeline behind dispatch_transcripts: transcripts arrive, the   *)
(* workers of dispatch-parser consume them one transaction each, geocoding *)
(* through a cache they share, and the janitor clears what they promoted.  *)
(*                                                                         *)
(* A worker's transaction holds the row lock from the SELECT ... FOR       *)
(* UPDATE SKIP LOCKED to the commit; what it writes is seen at the commit  *)
(* only.  The geocode cache is written outside of it, on the pool, so it   *)
(* survives a rollback.  ParseTranscript is a function of the row and is   *)
(* abstracted to whether the gate passes and the address it finds; the     *)
(* batch limit and the waits of Run only pace the loop.                    *)
(***************************************************************************)
EXTENDS Integers, FiniteSets

CONSTANTS
  Transcript,    \* dispatch_transcripts.id, in order of received_at
  Address,
  GatePasses,    \* transcripts ParseTranscript passes
  AddressOf,     \* their LocationText
  Worker,        \* running dispatch-parser workers
  MaxAge,        \* DISPATCH_MAX_AGE
  MaxAttempts,   \* maxGeocodeAttempts
  FailedTTL,     \* failedCacheTTL
  ActiveWindow,  \* SDR_ACTIVE_WINDOW
  MaxClock,      \* bound: time
  MaxFaults      \* bound: crashes and failed database calls

ASSUME TranscriptAssumption ==
  /\ Transcript \subseteq Nat \ {0}
  /\ GatePasses \subseteq Transcript
  /\ AddressOf \in [Transcript -> Address]
ASSUME WindowsAssumption ==
  /\ MaxAge \in Nat /\ FailedTTL \in Nat \ {0} /\ ActiveWindow \in Nat \ {0}
  /\ MaxAttempts \in Nat \ {0}
ASSUME DispatchBoundsAssumption == MaxClock \in Nat \ {0} /\ MaxFaults \in Nat

VARIABLES
  clock,
  received,          \* the rows of dispatch_transcripts
  captured_at,
  parsed_at,         \* Null until a worker has consumed the row
  promoted,          \* parsed_incident_id IS NOT NULL
  geocode_attempts,
  incident_seen_at,  \* last_seen_at of incident sdr-<id>, Null without a row
  cleared_at,        \* its cleared_at
  sdr_polls,         \* rows of source_polls written for the transcript
  geocode_cache,     \* success and geocoded_at of each address
  refusals,          \* when the provider had no result, kept to state properties
  wpc,               \* where each worker is
  job,               \* the transcript whose row it holds locked
  asked_at,          \* now of the Geocode call it is making
  faults

table == <<received, captured_at, parsed_at, promoted, geocode_attempts>>
incidentRows == <<incident_seen_at, cleared_at, sdr_polls>>
geocoding == <<geocode_cache, refusals>>
workers == <<wpc, job, asked_at>>
dispatchVars == <<clock, table, incidentRows, geocoding, workers, faults>>

Null == 0
NoEntry == [success |-> FALSE, at |-> Null]

Unparsed(t) == t \in received /\ parsed_at[t] = Null
Locked == {job[w] : w \in {v \in Worker : wpc[v] # "idle"}}
HasIncident(t) == incident_seen_at[t] # Null

\* A database call succeeds, or fails and costs one of the faults.
Outcome(ok) ==
  IF ok THEN UNCHANGED faults ELSE faults < MaxFaults /\ faults' = faults + 1

Goto(w, step) == wpc' = [wpc EXCEPT ![w] = step]

-----------------------------------------------------------------------------
DispatchInit ==
  /\ clock = 1
  /\ received = {}
  /\ captured_at = [t \in Transcript |-> 0]
  /\ parsed_at = [t \in Transcript |-> Null]
  /\ promoted = [t \in Transcript |-> FALSE]
  /\ geocode_attempts = [t \in Transcript |-> 0]
  /\ incident_seen_at = [t \in Transcript |-> Null]
  /\ cleared_at = [t \in Transcript |-> Null]
  /\ sdr_polls = [t \in Transcript |-> 0]
  /\ geocode_cache = [a \in Address |-> NoEntry]
  /\ refusals = [a \in Address |-> {}]
  /\ wpc = [w \in Worker |-> "idle"]
  /\ job = [w \in Worker |-> Null]
  /\ asked_at = [w \in Worker |-> Null]
  /\ faults = 0

Tick ==
  /\ clock < MaxClock
  /\ clock' = clock + 1
  /\ UNCHANGED <<table, incidentRows, geocoding, workers, faults>>

\* A new recording; a backlog may be old when it is uploaded.
InsertDispatchTranscript(t, captured) ==
  /\ t \notin received
  /\ \A u \in Transcript \ received : t <= u
  /\ received' = received \union {t}
  /\ captured_at' = [captured_at EXCEPT ![t] = captured]
  /\ UNCHANGED <<clock, parsed_at, promoted, geocode_attempts, incidentRows,
                 geocoding, workers, faults>>

StaleCapture(t) == clock - captured_at[t] > MaxAge

\* Mutated: without FOR UPDATE a worker takes rows others are working on.
NextTranscriptUnlocked ==
  {t \in Transcript :
     /\ Unparsed(t)
     /\ \A u \in Transcript : Unparsed(u) =>
          \/ geocode_attempts[t] < geocode_attempts[u]
          \/ geocode_attempts[t] = geocode_attempts[u] /\ t <= u}

\* ORDER BY COALESCE(geocode_attempts, 0), received_at, skipping locked rows.
NextTranscript ==
  {t \in Transcript :
     /\ Unparsed(t) /\ t \notin Locked
     /\ \A u \in Transcript : Unparsed(u) /\ u \notin Locked =>
          \/ geocode_attempts[t] < geocode_attempts[u]
          \/ geocode_attempts[t] = geocode_attempts[u] /\ t <= u}

\* lockNextTranscript, then the age of the capture and the gate.
LockNextTranscript(w) ==
  /\ wpc[w] = "idle"
  /\ \E t \in NextTranscript :
       /\ job' = [job EXCEPT ![w] = t]
       /\ Goto(w, IF StaleCapture(t) \/ t \notin GatePasses
                    THEN "consume" ELSE "lookup")
  /\ UNCHANGED <<clock, table, incidentRows, geocoding, asked_at, faults>>

\* An entry that answers without the provider: a success, or a fresh failure.
Hit(a) == geocode_cache[a] # NoEntry

\* Mutated: a failure is remembered for ever.
FreshFailureForever(a) == Hit(a) /\ ~geocode_cache[a].success

FreshFailure(a) ==
  /\ Hit(a) /\ ~geocode_cache[a].success
  /\ clock - geocode_cache[a].at < FailedTTL

\* CachedGeocoder.Geocode up to the provider call; an error of the lookup is
\* an error of the geocoder, and not a permanent one.  Its now is taken just
\* before the row is read (cache.go 37, 38); here both are one step.
Lookup(w, ok) ==
  /\ wpc[w] = "lookup"
  /\ Outcome(ok)
  /\ asked_at' = [asked_at EXCEPT ![w] = clock]
  /\ LET a == AddressOf[job[w]] IN
     Goto(w, CASE ~ok -> "retry"
               [] ok /\ Hit(a) /\ geocode_cache[a].success -> "insert"
               [] ok /\ FreshFailure(a) -> "consume"
               [] OTHER -> "provider")
  /\ UNCHANGED <<clock, table, incidentRows, geocoding, job>>

\* Mutated: every failure of the provider counts as permanent.
GeocodeAllPermanent(w, answer) ==
  /\ wpc[w] = "provider"
  /\ Goto(w, IF answer = "found" THEN "store" ELSE "store_failure")
  /\ refusals' =
       IF answer = "no_result"
         THEN [refusals EXCEPT ![AddressOf[job[w]]] = @ \union {asked_at[w]}]
         ELSE refusals
  /\ UNCHANGED <<clock, table, incidentRows, geocode_cache, job, asked_at, faults>>

\* The provider finds the address, has no result for it or calls it a bad
\* request (both permanent), or fails in any other way.
Geocode(w, answer) ==
  /\ wpc[w] = "provider"
  /\ Goto(w, CASE answer = "found" -> "store"
               [] answer = "no_result" -> "store_failure"
               [] answer = "error" -> "retry")
  /\ refusals' =
       IF answer = "no_result"
         THEN [refusals EXCEPT ![AddressOf[job[w]]] = @ \union {asked_at[w]}]
         ELSE refusals
  /\ UNCHANGED <<clock, table, incidentRows, geocode_cache, job, asked_at, faults>>

CacheStore(w, success) ==
  geocode_cache' =
    [geocode_cache EXCEPT
       ![AddressOf[job[w]]] = [success |-> success, at |-> asked_at[w]]]

\* A result that cannot be cached is thrown away and counts as a failure;
\* committed tells a refused call from one whose reply is lost.
Store(w, ok, committed) ==
  /\ wpc[w] = "store"
  /\ Outcome(ok)
  /\ ok => committed
  /\ IF committed THEN CacheStore(w, TRUE) ELSE UNCHANGED geocode_cache
  /\ Goto(w, IF ok THEN "insert" ELSE "retry")
  /\ UNCHANGED <<clock, table, incidentRows, refusals, job, asked_at>>

\* The error of this call is ignored.
StoreFailure(w, ok, committed) ==
  /\ wpc[w] = "store_failure"
  /\ Outcome(ok)
  /\ ok => committed
  /\ IF committed THEN CacheStore(w, FALSE) ELSE UNCHANGED geocode_cache
  /\ Goto(w, "consume")
  /\ UNCHANGED <<clock, table, incidentRows, refusals, job, asked_at>>

\* The transaction ends and with it the row lock.
Unlock(w) ==
  /\ Goto(w, "idle")
  /\ job' = [job EXCEPT ![w] = Null]
  /\ asked_at' = [asked_at EXCEPT ![w] = Null]

\* The column gets NOW(), the start of the transaction; here it is the time of
\* the commit, the moment at which a property asks for the cause.
MarkTranscriptParsed(t, withIncident) ==
  /\ parsed_at' = [parsed_at EXCEPT ![t] = clock]
  /\ promoted' = [promoted EXCEPT ![t] = withIncident]

\* A statement of the transaction or its commit fails, or the worker dies
\* with the transaction open.  (A commit whose reply is lost is a commit:
\* the worker only ends its batch.)
Rollback(w) ==
  /\ wpc[w] # "idle"
  /\ Outcome(FALSE)
  /\ Unlock(w)
  /\ UNCHANGED <<clock, table, incidentRows, geocoding>>

\* Stale, gated out, or no such address: consumed without an incident.
Consume(w) ==
  /\ wpc[w] = "consume"
  /\ MarkTranscriptParsed(job[w], FALSE)
  /\ Unlock(w)
  /\ UNCHANGED <<clock, received, captured_at, geocode_attempts, incidentRows,
                 geocoding, faults>>

\* Mutated: the row is given up one attempt too late.
RetryOneMore(w) ==
  LET t == job[w]
      attempts == geocode_attempts[t] + 1
  IN /\ wpc[w] = "retry"
     /\ geocode_attempts' = [geocode_attempts EXCEPT ![t] = attempts]
     /\ IF attempts > MaxAttempts
          THEN MarkTranscriptParsed(t, FALSE)
          ELSE UNCHANGED <<parsed_at, promoted>>
     /\ Unlock(w)
     /\ UNCHANGED <<clock, received, captured_at, incidentRows, geocoding, faults>>

\* Mutated: the attempts are only written when the cap is reached.
RetryForgetsAttempt(w) ==
  LET t == job[w]
      attempts == geocode_attempts[t] + 1
  IN /\ wpc[w] = "retry"
     /\ IF attempts >= MaxAttempts
          THEN /\ MarkTranscriptParsed(t, FALSE)
               /\ geocode_attempts' = [geocode_attempts EXCEPT ![t] = attempts]
          ELSE UNCHANGED <<parsed_at, promoted, geocode_attempts>>
     /\ Unlock(w)
     /\ UNCHANGED <<clock, received, captured_at, incidentRows, geocoding, faults>>

\* A failure that may pass: one more attempt, until the cap consumes the row.
Retry(w) ==
  LET t == job[w]
      attempts == geocode_attempts[t] + 1
  IN /\ wpc[w] = "retry"
     /\ geocode_attempts' = [geocode_attempts EXCEPT ![t] = attempts]
     /\ IF attempts >= MaxAttempts
          THEN MarkTranscriptParsed(t, FALSE)
          ELSE UNCHANGED <<parsed_at, promoted>>
     /\ Unlock(w)
     /\ UNCHANGED <<clock, received, captured_at, incidentRows, geocoding, faults>>

\* insertIncident: a poll row and the incident, which ON CONFLICT brings back.
InsertIncident(t) ==
  /\ sdr_polls' = [sdr_polls EXCEPT ![t] = @ + 1]
  /\ incident_seen_at' = [incident_seen_at EXCEPT ![t] = clock]
  /\ cleared_at' = [cleared_at EXCEPT ![t] = Null]

\* Mutated: the incident is committed before the transcript is marked.
PromoteInTwoTransactions(w) ==
  /\ wpc[w] = "insert"
  /\ InsertIncident(job[w])
  /\ Goto(w, "consume")
  /\ UNCHANGED <<clock, table, geocoding, job, asked_at, faults>>

Promote(w) ==
  /\ wpc[w] = "insert"
  /\ InsertIncident(job[w])
  /\ MarkTranscriptParsed(job[w], TRUE)
  /\ Unlock(w)
  /\ UNCHANGED <<clock, received, captured_at, geocode_attempts, geocoding, faults>>

\* The janitor's sweep, every minute: cleared once its capture is too old.
SweepDue ==
  {t \in Transcript :
     /\ HasIncident(t) /\ cleared_at[t] = Null
     /\ captured_at[t] < clock - ActiveWindow}

ClearStaleSDRAudioIncidents ==
  /\ SweepDue # {}
  /\ cleared_at' =
       [t \in Transcript |-> IF t \in SweepDue THEN clock ELSE cleared_at[t]]
  /\ UNCHANGED <<clock, table, incident_seen_at, sdr_polls, geocoding, workers,
                 faults>>

WorkerStep(w) ==
  \/ LockNextTranscript(w)
  \/ \E ok \in BOOLEAN : Lookup(w, ok)
  \/ \E answer \in {"found", "no_result", "error"} : Geocode(w, answer)
  \/ \E ok, committed \in BOOLEAN :
       Store(w, ok, committed) \/ StoreFailure(w, ok, committed)
  \/ Consume(w)
  \/ Retry(w)
  \/ Promote(w)

DispatchNext ==
  \/ Tick
  \/ \E t \in Transcript, captured \in 0..clock :
       InsertDispatchTranscript(t, captured)
  \/ \E w \in Worker : WorkerStep(w) \/ Rollback(w)
  \/ ClearStaleSDRAudioIncidents

DispatchSpec == DispatchInit /\ [][DispatchNext]_dispatchVars

\* Run never stops: whatever a call answers, each worker goes on.  The
\* provider client and the database answer or time out.
FairDispatchSpec ==
  DispatchSpec /\ \A w \in Worker : WF_dispatchVars(WorkerStep(w))

-----------------------------------------------------------------------------
DispatchTypeOK ==
  /\ clock \in Nat \ {0}
  /\ received \in SUBSET Transcript
  /\ captured_at \in [Transcript -> Nat]
  /\ parsed_at \in [Transcript -> Nat]
  /\ promoted \in [Transcript -> BOOLEAN]
  /\ geocode_attempts \in [Transcript -> 0..MaxAttempts]
  /\ incident_seen_at \in [Transcript -> Nat]
  /\ cleared_at \in [Transcript -> Nat]
  /\ sdr_polls \in [Transcript -> Nat]
  /\ geocode_cache \in [Address -> [success : BOOLEAN, at : Nat]]
  /\ refusals \in [Address -> SUBSET Nat]
  /\ wpc \in [Worker -> {"idle", "lookup", "provider", "store", "store_failure",
                         "consume", "retry", "insert"}]
  /\ job \in [Worker -> Transcript \union {Null}]
  /\ asked_at \in [Worker -> Nat]
  /\ faults \in 0..MaxFaults
=============================================================================
