---------------------- MODULE DispatchWorkerProperties ----------------------
(***************************************************************************)
(* What becomes of a transcript, whichever worker gets hold of it and      *)
(* whatever fails on the way.                                              *)
(***************************************************************************)
EXTENDS DispatchWorker

(***************************************************************************)
(* A transcript is promoted at most once and all of it or nothing: one     *)
(* poll row, one incident and the parsed mark that names it, although its  *)
(* transaction may be rolled back or its worker die at any point and a     *)
(* second worker competes for the row (processNext 183-267).               *)
(***************************************************************************)
PromotedOnce ==
  \A t \in Transcript :
    /\ promoted[t] => parsed_at[t] # Null
    /\ HasIncident(t) <=> promoted[t]
    /\ sdr_polls[t] = IF promoted[t] THEN 1 ELSE 0

(***************************************************************************)
(* What the janitor has cleared stays cleared: insertIncident's ON         *)
(* CONFLICT would bring the row back to the active feed, with no reopened  *)
(* event, but no transcript reaches it twice (worker.go 320-332 with       *)
(* ClearStaleSDRAudioIncidents).                                           *)
(***************************************************************************)
ClearedStaysCleared ==
  [][\A t \in Transcript :
       cleared_at[t] # Null => cleared_at'[t] = cleared_at[t]]_dispatchVars

(***************************************************************************)
(* A dispatch that passes the gate is lost only for a reason of its own:   *)
(* its capture is too old by then, its own attempts are used up, or the    *)
(* provider had no result for its address.  No outage of the provider or   *)
(* the cache, met by this transcript or any other, loses it earlier        *)
(* (processNext 224-254 with CachedGeocoder).                              *)
(***************************************************************************)
LostForCause ==
  \A t \in GatePasses :
    parsed_at[t] # Null /\ ~promoted[t] =>
      \/ parsed_at[t] - captured_at[t] > MaxAge
      \/ geocode_attempts[t] = MaxAttempts
      \/ \E at \in refusals[AddressOf[t]] : at <= parsed_at[t]

(***************************************************************************)
(* A row about to be given up for its address rests on a refusal of the    *)
(* provider less than failedCacheTTL older than its own lookup, whichever  *)
(* worker met it and however the workers' cache writes were ordered        *)
(* (cache.go 36-66).                                                       *)
(***************************************************************************)
RefusalIsFresh ==
  \A w \in Worker :
    wpc[w] = "consume" /\ asked_at[w] # Null =>
      \E at \in refusals[AddressOf[job[w]]] :
        at <= asked_at[w] /\ asked_at[w] - at < FailedTTL

(***************************************************************************)
(* Every transcript is consumed in the end, however the provider answers:  *)
(* one that keeps failing steps back behind the others and is given up at  *)
(* the cap (lockNextTranscript's order, processNext 227-246).              *)
(***************************************************************************)
EventuallyParsed ==
  \A t \in Transcript : t \in received ~> parsed_at[t] # Null
-----------------------------------------------------------------------------
(***************************************************************************)
(* The inductive invariant.                                                *)
(***************************************************************************)

\* A worker in a transaction holds a row nobody has consumed ...
RowHeld == \A w \in Worker : wpc[w] # "idle" => Unparsed(job[w])

\* ... and holds it alone.
HeldAlone ==
  \A v, w \in Worker :
    v # w /\ wpc[v] # "idle" /\ wpc[w] # "idle" => job[v] # job[w]

AttemptsLeft ==
  \A t \in Transcript : parsed_at[t] = Null => geocode_attempts[t] < MaxAttempts

ClearedHasRow == \A t \in Transcript : cleared_at[t] # Null => HasIncident(t)

\* What the cache remembers as a failure, the provider has refused.
CacheHonest ==
  \A a \in Address :
    /\ \A at \in refusals[a] : at <= clock
    /\ Hit(a) /\ ~geocode_cache[a].success => geocode_cache[a].at \in refusals[a]

Asked ==
  \A w \in Worker :
    /\ asked_at[w] <= clock
    /\ wpc[w] = "idle" => asked_at[w] = Null
    /\ wpc[w] = "store_failure" => asked_at[w] \in refusals[AddressOf[job[w]]]

\* Why a row that passes the gate is about to be given up.
CauseKnown ==
  \A w \in Worker :
    wpc[w] = "consume" /\ job[w] \in GatePasses =>
      StaleCapture(job[w]) \/ refusals[AddressOf[job[w]]] # {}

\* Only rows that arrived are consumed.
OnRecord == \A t \in Transcript : parsed_at[t] # Null => t \in received

Held == DispatchTypeOK /\ RowHeld /\ AttemptsLeft
Promotions == HeldAlone /\ PromotedOnce /\ ClearedHasRow
Causes ==
  CacheHonest /\ Asked /\ CauseKnown /\ RefusalIsFresh /\ OnRecord /\ LostForCause

DispatchInv == Held /\ Promotions /\ Causes
=============================================================================
