---------------------------- MODULE UnitHistory ----------------------------
(***************************************************************************)
(* The units of one incident: the snapshot column incidents.units, the     *)
(* intervals of incident_units and the unit part of the event deltas, as   *)
(* UpsertIncident's transaction writes them and as the one-off command     *)
(* backfill_units rewrites them while the ingester runs.                   *)
(*                                                                         *)
(* Time is the number of the observation; received_at is 1.  A unit list   *)
(* is what parseUnits makes of the Units field: in feed order, and nothing *)
(* keeps a unit from being listed twice.                                   *)
(***************************************************************************)
EXTENDS Naturals, SequencesExt

CONSTANTS
  UnitName,
  UnitStatus,
  UnitLists,     \* the unit lists the feed may carry
  MaxUpserts,    \* bound: observations of the incident
  MaxBackfills   \* bound: runs of backfill_units

Unit == [unit : UnitName, status : UnitStatus]

ASSUME UnitListsAssumption == UnitLists \subseteq Seq(Unit)
ASSUME UnitBoundsAssumption == MaxUpserts \in Nat /\ MaxBackfills \in Nat

NoUnit == "none"

\* Not one of the statuses parseUnits makes of the feed's.
ASSUME NoUnitAssumption == NoUnit \notin UnitStatus

VARIABLES
  observed,   \* incidents.raw of every observation
  units,      \* incidents.units
  intervals,  \* incident_units, in order of id
  deltas,     \* the unit deltas of incident_events, in order of id
  candidate,  \* the raw units backfill_units has read, <<>> when none
  backfills,
  rewrittenAt \* the observation the last backfill came after

unitVars ==
  <<observed, units, intervals, deltas, candidate, backfills, rewrittenAt>>

now == Len(observed)

\* unitsByName: a map, so the last entry of a unit wins.
StatusIn(list, name) ==
  LET at == {k \in DOMAIN list : list[k].unit = name}
  IN IF at = {} THEN NoUnit ELSE list[Max(at)].status

UnitsByName(list) == [name \in UnitName |-> StatusIn(list, name)]

-----------------------------------------------------------------------------
UnitInit ==
  /\ observed = <<>>
  /\ units = <<>>
  /\ intervals = <<>>
  /\ deltas = <<>>
  /\ candidate = <<>>
  /\ backfills = 0
  /\ rewrittenAt = 0

\* Mutated: the new interval is left without its end.
NewIntervalOpen(u, at) ==
  [unit |-> u.unit, status |-> u.status, first |-> at, last |-> 0]

NewInterval(u, at) ==
  [unit |-> u.unit, status |-> u.status, first |-> at, last |-> at]

\* Mutated: without DESC the oldest interval of the unit is found.
LatestIntervalOldest(rows, name) ==
  LET mine == {k \in DOMAIN rows : rows[k].unit = name}
  IN {k \in mine :
        \A j \in mine : \/ rows[k].last < rows[j].last
                        \/ rows[j].last = rows[k].last /\ k <= j}

\* ORDER BY last_observed_at DESC, id DESC LIMIT 1.
LatestInterval(rows, name) ==
  LET mine == {k \in DOMAIN rows : rows[k].unit = name}
  IN {k \in mine :
        \A j \in mine : \/ rows[j].last < rows[k].last
                        \/ rows[j].last = rows[k].last /\ j <= k}

\* Mutated: the latest interval is extended whenever its status is the same.
SyncUnitAcrossAbsence(prior, rows, u, at) ==
  LET same == {k \in LatestInterval(rows, u.unit) : rows[k].status = u.status}
  IN IF same # {}
       THEN [k \in DOMAIN rows |->
               IF k \in same THEN [rows[k] EXCEPT !.last = at] ELSE rows[k]]
       ELSE Append(rows, NewInterval(u, at))

\* One unit of the list: its latest interval is extended when the prior
\* snapshot had the unit and the status is still that one.
SyncUnit(prior, rows, u, at) ==
  LET same == {k \in LatestInterval(rows, u.unit) : rows[k].status = u.status}
  IN IF same # {} /\ StatusIn(prior, u.unit) # NoUnit
       THEN [k \in DOMAIN rows |->
               IF k \in same THEN [rows[k] EXCEPT !.last = at] ELSE rows[k]]
       ELSE Append(rows, NewInterval(u, at))

SyncUnitHistory(prior, rows, list, at) ==
  LET history[n \in 0..Len(list)] ==
        IF n = 0 THEN rows ELSE SyncUnit(prior, history[n - 1], list[n], at)
  IN history[Len(list)]

\* Mutated: units that are gone are not reported.
DiffUnitsKeepsRemoved(prior, next) ==
  LET from == UnitsByName(prior)
      to == UnitsByName(next)
  IN [name \in {n \in UnitName : from[n] # to[n] /\ to[n] # NoUnit} |-> to[name]]

\* diffUnits: added, changed and removed units, each with its new status.
DiffUnits(prior, next) ==
  LET from == UnitsByName(prior)
      to == UnitsByName(next)
  IN [name \in {n \in UnitName : from[n] # to[n]} |-> to[name]]

\* UpsertIncident, one transaction: snapshot, intervals and event.
Upsert(list) ==
  /\ now < MaxUpserts
  /\ observed' = Append(observed, list)
  /\ units' = list
  /\ intervals' = SyncUnitHistory(units, intervals, list, now + 1)
  /\ deltas' = IF now = 0 \/ DiffUnits(units, list) # <<>>
                 THEN Append(deltas, DiffUnits(units, list)) ELSE deltas
  /\ UNCHANGED <<candidate, backfills, rewrittenAt>>

\* backfill_units reads every row with raw before it opens its transaction.
BackfillRead ==
  /\ now > 0
  /\ backfills < MaxBackfills
  /\ backfills' = backfills + 1
  /\ candidate' = <<Last(observed)>>
  /\ UNCHANGED <<observed, units, intervals, deltas, rewrittenAt>>

\* Its transaction: the parsed raw units, and a history made of them alone,
\* all observed at received_at.
BackfillWrite ==
  /\ candidate # <<>>
  /\ units' = candidate[1]
  /\ intervals' = [k \in DOMAIN candidate[1] |-> NewInterval(candidate[1][k], 1)]
  /\ candidate' = <<>>
  /\ rewrittenAt' = now
  /\ UNCHANGED <<observed, deltas, backfills>>

\* Its transaction fails, or the command is interrupted.
BackfillAbort ==
  /\ candidate # <<>>
  /\ candidate' = <<>>
  /\ UNCHANGED <<observed, units, intervals, deltas, backfills, rewrittenAt>>

UnitNext ==
  \/ \E list \in UnitLists : Upsert(list)
  \/ BackfillRead
  \/ BackfillWrite
  \/ BackfillAbort

UnitSpec == UnitInit /\ [][UnitNext]_unitVars

-----------------------------------------------------------------------------
UnitTypeOK ==
  /\ observed \in Seq(UnitLists)
  /\ units \in Seq(Unit)
  /\ \A k \in DOMAIN intervals :
       /\ [unit |-> intervals[k].unit, status |-> intervals[k].status] \in Unit
       /\ intervals[k].first \in 1..now
       /\ intervals[k].last \in intervals[k].first..now
  /\ \A k \in DOMAIN deltas :
       deltas[k] \in [DOMAIN deltas[k] -> UnitStatus \union {NoUnit}]
  /\ candidate \in Seq(UnitLists)
  /\ backfills \in 0..MaxBackfills
  /\ rewrittenAt \in 0..now

(***************************************************************************)
(* The history is the run-length encoding of the observations (schema.sql: *)
(* one row per unit and status interval, identical consecutive             *)
(* observations collapsed): one row per maximal run of observations in     *)
(* which the unit was listed with that status.  A backfill starts over.    *)
(***************************************************************************)
Listed(name, status, t) == StatusIn(observed[t], name) = status

Runs ==
  {r \in [unit : UnitName, status : UnitStatus, first : 1..now, last : 1..now] :
     /\ r.first <= r.last
     /\ \A t \in r.first..r.last : Listed(r.unit, r.status, t)
     /\ r.first > 1 => ~Listed(r.unit, r.status, r.first - 1)
     /\ r.last < now => ~Listed(r.unit, r.status, r.last + 1)}

HistoryIsRuns ==
  rewrittenAt = 0 => ToSet(intervals) = Runs /\ IsInjective(intervals)

(***************************************************************************)
(* The detail endpoint shows the deltas; played from the created event on  *)
(* they lead to the units of the row (writeUpsertEvent, buildIncidentDelta *)
(* and diffUnits: no change goes unreported and none is reported twice).   *)
(* A backfill that writes stale units reports nothing: the log then stays  *)
(* wrong.                                                                  *)
(***************************************************************************)
Over(delta, statuses) ==
  [name \in UnitName |->
     IF name \in DOMAIN delta THEN delta[name] ELSE statuses[name]]

Replayed(log) ==
  LET shown[n \in 0..Len(log)] ==
        IF n = 0 THEN UnitsByName(<<>>) ELSE Over(log[n], shown[n - 1])
  IN shown[Len(log)]

DeltasReplay == rewrittenAt = 0 => Replayed(deltas) = UnitsByName(units)

(***************************************************************************)
(* After an observation the latest interval of every unit it lists carries *)
(* its status and ends there, whatever a backfill did to the history while *)
(* the ingester went on (syncUnitHistory against backfill_units' stale     *)
(* read).                                                                  *)
(***************************************************************************)
LatestIntervalIsCurrent ==
  rewrittenAt < now =>
    \A k \in DOMAIN units :
      \E j \in LatestInterval(intervals, units[k].unit) :
        /\ intervals[j].status = StatusIn(units, units[k].unit)
        /\ intervals[j].last = now
=============================================================================
