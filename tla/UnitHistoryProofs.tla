------------------------- MODULE UnitHistoryProofs -------------------------
(***************************************************************************)
(* The unit history of an incident, proved for every set of units, every   *)
(* set of lists the feed may carry and every number of observations and    *)
(* backfills.  The loops of the code are recursive functions; what they    *)
(* compute is proved by induction, stated with sets of naturals.           *)
(***************************************************************************)
EXTENDS UnitHistory, SequenceTheorems, FiniteSetTheorems, TLAPS

-----------------------------------------------------------------------------
(* Induction over the naturals, with sets in place of predicates.          *)

\* Every set of naturals that has a member has a least one.
LEMMA LeastNatural ==
  ASSUME NEW S, S \subseteq Nat, S # {}
  PROVE  \E m \in S : \A n \in S : m <= n
<1>1. PICK R : R = OpToRel(<, Nat)
  OBVIOUS
<1>2. IsWellFoundedOn(R, Nat)
  BY <1>1, NatLessThanWellFounded
<1>3. PICK x \in S : \A y \in S : ~(<<y, x>> \in R)
  <2>1. \E x \in S : \A y \in S : ~(<<y, x>> \in R)
    BY <1>2, WFMin
  <2>2. QED
    BY <2>1
<1>4. R = {p \in Nat \X Nat : p[1] < p[2]}
  BY <1>1 DEF OpToRel
<1>5. ASSUME NEW y \in S
      PROVE  x <= y
  <2>1. x \in Nat /\ y \in Nat /\ ~(<<y, x>> \in R)
    BY <1>3
  <2>2. y < x => <<y, x>> \in R
    BY <1>4, <2>1
  <2>3. QED
    BY <2>1, <2>2
<1>6. QED
  BY <1>5

\* A set that holds 0 and with every natural the next one holds them all.
LEMMA EveryNatural ==
  ASSUME NEW S, S \subseteq Nat, 0 \in S, \A n \in S : n + 1 \in S
  PROVE  S = Nat
<1>1. SUFFICES ASSUME Nat \ S # {}
               PROVE  FALSE
  OBVIOUS
<1>2. PICK m \in Nat \ S : \A n \in Nat \ S : m <= n
  <2>1. Nat \ S \subseteq Nat
    OBVIOUS
  <2>2. QED
    BY <1>1, <2>1, LeastNatural
<1>3. m # 0 /\ m - 1 \in Nat
  BY <1>2
<1>4. m - 1 \in S
  BY <1>2, <1>3
<1>5. QED
  BY <1>2, <1>3, <1>4

\* A set of positions of a list that has a member has a last one, Max of it.
LEMMA LastPosition ==
  ASSUME NEW n \in Nat, NEW S, S \subseteq 1..n, S # {}
  PROVE  /\ Max(S) \in S
         /\ \A k \in S : k <= Max(S)
<1> DEFINE D == {d \in Nat : n - d \in S}
<1>1. D \subseteq Nat /\ D # {}
  <2>1. PICK k \in S : TRUE
    OBVIOUS
  <2>2. k \in 1..n
    BY <2>1
  <2>3. n - k \in Nat /\ n - (n - k) = k
    BY <2>2
  <2>4. n - k \in D
    BY <2>3
  <2>5. QED
    BY <2>4
<1>2. PICK d \in D : \A e \in D : d <= e
  <2> HIDE DEF D
  <2>1. QED
    BY <1>1, LeastNatural
<1>3. ASSUME NEW k \in S
      PROVE  n - d >= k
  <2>1. k \in 1..n /\ d \in Nat
    BY <1>2
  <2>2. n - k \in Nat /\ n - (n - k) = k
    BY <2>1
  <2>3. n - k \in D
    BY <2>2
  <2>4. d <= n - k
    BY <1>2, <2>3
  <2>5. QED
    BY <2>1, <2>4
<1>4. n - d \in S
  BY <1>2
<1>5. \E x \in S : \A y \in S : x >= y
  BY <1>3, <1>4
<1>6. Max(S) \in S /\ \A y \in S : Max(S) >= y
  BY <1>5 DEF Max
<1>7. QED
  <2>1. ASSUME NEW k \in S
        PROVE  k <= Max(S)
    <3>1. Max(S) \in 1..n /\ k \in 1..n /\ Max(S) >= k
      BY <1>6
    <3>2. QED
      BY <3>1
  <2>2. QED
    BY <1>6, <2>1

-----------------------------------------------------------------------------
(* Unit lists, as unitsByName reads them.                                  *)

\* A unit's status is that of the last entry that names it.
LEMMA StatusOfLast ==
  ASSUME NEW list \in Seq(Unit), NEW k \in DOMAIN list,
         \A j \in DOMAIN list : list[j].unit = list[k].unit => j <= k
  PROVE  StatusIn(list, list[k].unit) = list[k].status
<1> DEFINE at == {j \in DOMAIN list : list[j].unit = list[k].unit}
<1>1. DOMAIN list = 1..Len(list) /\ Len(list) \in Nat
  BY LenProperties
<1>2. k \in at /\ at \subseteq 1..Len(list) /\ at # {}
  BY <1>1
<1>3. Max(at) \in at /\ \A j \in at : j <= Max(at)
  <2> HIDE DEF at
  <2>1. QED
    BY <1>1, <1>2, LastPosition
<1>4. Max(at) = k
  <2>1. k <= Max(at) /\ Max(at) <= k
    BY <1>2, <1>3
  <2>2. k \in Nat /\ Max(at) \in Nat
    BY <1>1, <1>2, <1>3
  <2>3. QED
    BY <2>1, <2>2
<1>5. StatusIn(list, list[k].unit) = list[Max(at)].status
  BY <1>2 DEF StatusIn
<1>6. QED
  BY <1>4, <1>5

\* A unit that is listed has its last entry and one of the statuses.
LEMMA StatusOfListed ==
  ASSUME NEW list \in Seq(Unit), NEW name,
         \E j \in DOMAIN list : list[j].unit = name
  PROVE  /\ StatusIn(list, name) \in UnitStatus
         /\ \E k \in DOMAIN list :
              /\ list[k].unit = name
              /\ StatusIn(list, name) = list[k].status
              /\ \A j \in DOMAIN list : list[j].unit = name => j <= k
<1> DEFINE at == {j \in DOMAIN list : list[j].unit = name}
<1>1. DOMAIN list = 1..Len(list) /\ Len(list) \in Nat
  BY LenProperties
<1>2. at \subseteq 1..Len(list) /\ at # {}
  BY <1>1
<1>3. Max(at) \in at /\ \A j \in at : j <= Max(at)
  <2> HIDE DEF at
  <2>1. QED
    BY <1>1, <1>2, LastPosition
<1>4. StatusIn(list, name) = list[Max(at)].status
  BY <1>2 DEF StatusIn
<1>5. list[Max(at)] \in Unit
  BY <1>1, <1>3, ElementOfSeq
<1>6. QED
  BY <1>3, <1>4, <1>5 DEF Unit

\* A unit that is not listed has none.
LEMMA StatusOfAbsent ==
  ASSUME NEW list, NEW name, \A j \in DOMAIN list : list[j].unit # name
  PROVE  StatusIn(list, name) = NoUnit
BY DEF StatusIn

\* So NoUnit tells the two apart.
LEMMA StatusTellsListed ==
  ASSUME NEW list \in Seq(Unit), NEW name
  PROVE  /\ StatusIn(list, name) \in UnitStatus \union {NoUnit}
         /\ StatusIn(list, name) # NoUnit
              <=> \E j \in DOMAIN list : list[j].unit = name
<1>1. CASE \E j \in DOMAIN list : list[j].unit = name
  BY <1>1, StatusOfListed, NoUnitAssumption
<1>2. CASE \A j \in DOMAIN list : list[j].unit # name
  BY <1>2, StatusOfAbsent
<1>3. QED
  BY <1>1, <1>2

-----------------------------------------------------------------------------
(* The two loops: over the units of a list, and over the event log.        *)

\* The history after the first n entries of the list.
Synced(prior, rows, list, at, n, h) ==
  h = [i \in 0..n |->
         IF i = 0 THEN rows ELSE SyncUnit(prior, h[i - 1], list[i], at)]

\* h is the history after every entry of the list.
Steps(prior, rows, list, at, h) ==
  /\ h[0] = rows
  /\ \A i \in 1..Len(list) : h[i] = SyncUnit(prior, h[i - 1], list[i], at)

\* syncUnitHistory goes through the list entry by entry.
LEMMA SyncedUnitByUnit ==
  ASSUME NEW prior, NEW rows, NEW list, Len(list) \in Nat, NEW at
  PROVE  \E h : /\ SyncUnitHistory(prior, rows, list, at) = h[Len(list)]
                /\ Steps(prior, rows, list, at, h)
<1> DEFINE S == {n \in Nat : \E h : Synced(prior, rows, list, at, n, h)}
<1>1. 0 \in S
  <2>1. Synced(prior, rows, list, at, 0, [i \in 0..0 |-> rows])
    BY DEF Synced
  <2>2. QED
    BY <2>1
<1>2. ASSUME NEW n \in S
      PROVE  n + 1 \in S
  <2>1. n \in Nat /\ n + 1 \in Nat
    OBVIOUS
  <2>2. PICK h : Synced(prior, rows, list, at, n, h)
    OBVIOUS
  <2> DEFINE next == SyncUnit(prior, h[n], list[n + 1], at)
             g == [i \in 0..(n + 1) |-> IF i = n + 1 THEN next ELSE h[i]]
  <2>3. ASSUME NEW i \in 0..(n + 1)
        PROVE  g[i] = IF i = 0 THEN rows
                      ELSE SyncUnit(prior, g[i - 1], list[i], at)
    <3>1. CASE i = n + 1
      <4>1. i # 0 /\ i - 1 = n /\ n \in 0..(n + 1) /\ n # n + 1
        BY <2>1, <3>1
      <4>2. g[i] = next /\ g[i - 1] = h[n]
        BY <3>1, <4>1
      <4> HIDE DEF g
      <4>3. QED
        BY <3>1, <4>1, <4>2
    <3>2. CASE i # n + 1
      <4>1. i \in 0..n /\ (i # 0 => i - 1 \in 0..(n + 1) /\ i - 1 # n + 1)
        BY <2>1, <3>2
      <4>2. g[i] = h[i] /\ (i # 0 => g[i - 1] = h[i - 1])
        BY <3>2, <4>1
      <4>3. h[i] = IF i = 0 THEN rows
                   ELSE SyncUnit(prior, h[i - 1], list[i], at)
        BY <2>2, <4>1 DEF Synced
      <4> HIDE DEF g
      <4>4. QED
        BY <4>2, <4>3
    <3>3. QED
      BY <3>1, <3>2
  <2>4. g = [i \in 0..(n + 1) |->
               IF i = 0 THEN rows ELSE SyncUnit(prior, g[i - 1], list[i], at)]
    <3>1. g = [i \in 0..(n + 1) |-> g[i]]
      OBVIOUS
    <3> HIDE DEF g
    <3>2. QED
      BY <2>3, <3>1, Zenon
  <2>5. Synced(prior, rows, list, at, n + 1, g)
    <3> HIDE DEF g
    <3>1. QED
      BY <2>4 DEF Synced
  <2>6. QED
    BY <2>1, <2>5
<1>3. Len(list) \in S
  <2>1. S \subseteq Nat
    OBVIOUS
  <2> HIDE DEF S
  <2>2. QED
    BY <1>1, <1>2, <2>1, EveryNatural
<1>4. PICK h : h = [i \in 0..Len(list) |->
                      IF i = 0 THEN rows
                      ELSE SyncUnit(prior, h[i - 1], list[i], at)]
  BY <1>3 DEF Synced
<1> DEFINE f == CHOOSE f : f = [i \in 0..Len(list) |->
                                  IF i = 0 THEN rows
                                  ELSE SyncUnit(prior, f[i - 1], list[i], at)]
<1>5. f = [i \in 0..Len(list) |->
             IF i = 0 THEN rows ELSE SyncUnit(prior, f[i - 1], list[i], at)]
  BY <1>4
<1>6. SyncUnitHistory(prior, rows, list, at) = f[Len(list)]
  BY DEF SyncUnitHistory
<1>7. Steps(prior, rows, list, at, f)
  <2> HIDE DEF f
  <2>1. QED
    BY <1>5 DEF Steps
<1>8. QED
  BY <1>6, <1>7

\* The units shown by the first n deltas of the log.
Shown(log, n, s) ==
  s = [i \in 0..n |->
         IF i = 0 THEN UnitsByName(<<>>) ELSE Over(log[i], s[i - 1])]

LEMMA ShownDeltaByDelta ==
  ASSUME NEW log, Len(log) \in Nat
  PROVE  \E s : /\ Shown(log, Len(log), s)
                /\ Replayed(log) = s[Len(log)]
<1> DEFINE S == {n \in Nat : \E s : Shown(log, n, s)}
<1>1. 0 \in S
  <2>1. Shown(log, 0, [i \in 0..0 |-> UnitsByName(<<>>)])
    BY DEF Shown
  <2>2. QED
    BY <2>1
<1>2. ASSUME NEW n \in S
      PROVE  n + 1 \in S
  <2>1. n \in Nat /\ n + 1 \in Nat
    OBVIOUS
  <2>2. PICK s : Shown(log, n, s)
    OBVIOUS
  <2> DEFINE next == Over(log[n + 1], s[n])
             g == [i \in 0..(n + 1) |-> IF i = n + 1 THEN next ELSE s[i]]
  <2>3. ASSUME NEW i \in 0..(n + 1)
        PROVE  g[i] = IF i = 0 THEN UnitsByName(<<>>)
                      ELSE Over(log[i], g[i - 1])
    <3>1. CASE i = n + 1
      <4>1. i # 0 /\ i - 1 = n /\ n \in 0..(n + 1) /\ n # n + 1
        BY <2>1, <3>1
      <4>2. g[i] = next /\ g[i - 1] = s[n]
        BY <3>1, <4>1
      <4> HIDE DEF g
      <4>3. QED
        BY <3>1, <4>1, <4>2
    <3>2. CASE i # n + 1
      <4>1. i \in 0..n /\ (i # 0 => i - 1 \in 0..(n + 1) /\ i - 1 # n + 1)
        BY <2>1, <3>2
      <4>2. g[i] = s[i] /\ (i # 0 => g[i - 1] = s[i - 1])
        BY <3>2, <4>1
      <4>3. s[i] = IF i = 0 THEN UnitsByName(<<>>) ELSE Over(log[i], s[i - 1])
        BY <2>2, <4>1 DEF Shown
      <4> HIDE DEF g
      <4>4. QED
        BY <4>2, <4>3
    <3>3. QED
      BY <3>1, <3>2
  <2>4. g = [i \in 0..(n + 1) |->
               IF i = 0 THEN UnitsByName(<<>>) ELSE Over(log[i], g[i - 1])]
    <3>1. g = [i \in 0..(n + 1) |-> g[i]]
      OBVIOUS
    <3> HIDE DEF g
    <3>2. QED
      BY <2>3, <3>1, Zenon
  <2>5. Shown(log, n + 1, g)
    <3> HIDE DEF g
    <3>1. QED
      BY <2>4 DEF Shown
  <2>6. QED
    BY <2>1, <2>5
<1>3. Len(log) \in S
  <2>1. S \subseteq Nat
    OBVIOUS
  <2> HIDE DEF S
  <2>2. QED
    BY <1>1, <1>2, <2>1, EveryNatural
<1>4. PICK s : s = [i \in 0..Len(log) |->
                      IF i = 0 THEN UnitsByName(<<>>)
                      ELSE Over(log[i], s[i - 1])]
  BY <1>3 DEF Shown
<1> DEFINE f == CHOOSE f : f = [i \in 0..Len(log) |->
                                  IF i = 0 THEN UnitsByName(<<>>)
                                  ELSE Over(log[i], f[i - 1])]
<1>5. f = [i \in 0..Len(log) |->
             IF i = 0 THEN UnitsByName(<<>>) ELSE Over(log[i], f[i - 1])]
  BY <1>4
<1>6. Replayed(log) = f[Len(log)]
  BY DEF Replayed
<1>7. QED
  BY <1>5, <1>6 DEF Shown

\* One more delta is laid over what the log showed before.
LEMMA ReplayedAppended ==
  ASSUME NEW T, NEW log \in Seq(T), NEW delta \in T
  PROVE  Replayed(Append(log, delta)) = Over(delta, Replayed(log))
<1> DEFINE more == Append(log, delta)
<1>1. /\ Len(log) \in Nat /\ Len(more) = Len(log) + 1
      /\ \A i \in 1..Len(log) : log[i] = more[i]
      /\ more[Len(log) + 1] = delta
  BY AppendProperties, LenProperties
<1> HIDE DEF more
<1>2. PICK s : Shown(log, Len(log), s) /\ Replayed(log) = s[Len(log)]
  BY <1>1, ShownDeltaByDelta
<1>3. PICK t : Shown(more, Len(more), t) /\ Replayed(more) = t[Len(more)]
  <2>1. Len(more) \in Nat
    BY <1>1
  <2>2. QED
    BY <2>1, ShownDeltaByDelta
<1>4. s[Len(log)] = t[Len(log)]
  <2> DEFINE S == {i \in Nat : i <= Len(log) => s[i] = t[i]}
  <2>1. 0 \in S
    <3>1. 0 \in 0..Len(log) /\ 0 \in 0..Len(more)
      BY <1>1
    <3>2. s[0] = UnitsByName(<<>>) /\ t[0] = UnitsByName(<<>>)
      BY <1>2, <1>3, <3>1 DEF Shown
    <3>3. QED
      BY <3>2
  <2>2. ASSUME NEW i \in S
        PROVE  i + 1 \in S
    <3>1. i \in Nat /\ i + 1 \in Nat
      OBVIOUS
    <3>2. ASSUME i + 1 <= Len(log)
          PROVE  s[i + 1] = t[i + 1]
      <4>1. /\ i <= Len(log) /\ i + 1 \in 0..Len(log)
            /\ i + 1 \in 0..Len(more) /\ i + 1 \in 1..Len(log)
            /\ i + 1 # 0 /\ (i + 1) - 1 = i
        BY <1>1, <3>1, <3>2
      <4>2. s[i] = t[i] /\ log[i + 1] = more[i + 1]
        BY <1>1, <4>1
      <4>3. /\ s[i + 1] = Over(log[i + 1], s[i])
            /\ t[i + 1] = Over(more[i + 1], t[i])
        BY <1>2, <1>3, <4>1 DEF Shown
      <4>4. QED
        BY <4>2, <4>3
    <3>3. QED
      BY <3>1, <3>2
  <2>3. Len(log) \in S
    <3>1. S \subseteq Nat
      OBVIOUS
    <3> HIDE DEF S
    <3>2. QED
      BY <1>1, <2>1, <2>2, <3>1, EveryNatural
  <2>4. QED
    BY <1>1, <2>3
<1>5. t[Len(more)] = Over(more[Len(more)], t[Len(more) - 1])
  <2>1. Len(more) \in 0..Len(more) /\ Len(more) # 0
    BY <1>1
  <2>2. QED
    BY <1>3, <2>1 DEF Shown
<1>6. Len(more) - 1 = Len(log)
  BY <1>1
<1>7. Replayed(more) = Over(delta, Replayed(log))
  BY <1>1, <1>2, <1>3, <1>4, <1>5, <1>6
<1>8. QED
  BY <1>7 DEF more

-----------------------------------------------------------------------------
(* One unit of a list.                                                     *)

Interval == [unit : UnitName, status : UnitStatus, first : Nat, last : Nat]

\* Rows of incident_units, none observed before 1 or after at.
Within(rows, at) ==
  /\ rows \in Seq(Interval)
  /\ \A k \in DOMAIN rows : /\ rows[k].first \in 1..at
                            /\ rows[k].last \in rows[k].first..at

LEMMA WithinRow ==
  ASSUME NEW rows, NEW at \in Nat, Within(rows, at), NEW k \in DOMAIN rows
  PROVE  /\ rows[k] \in Interval
         /\ rows[k].unit \in UnitName /\ rows[k].status \in UnitStatus
         /\ rows[k].first \in Nat /\ rows[k].last \in Nat
         /\ 1 <= rows[k].first /\ rows[k].first <= rows[k].last
         /\ rows[k].last <= at
<1>1. rows[k] \in Interval
  BY LenProperties, ElementOfSeq DEF Within
<1>2. rows[k].first \in 1..at /\ rows[k].last \in rows[k].first..at
  BY DEF Within
<1>3. rows[k].first \in Nat /\ rows[k].last \in Nat
  BY <1>1 DEF Interval
<1>4. QED
  BY <1>1, <1>2, <1>3 DEF Interval

\* The query for the latest interval has one answer at most.
LEMMA LatestIsOne ==
  ASSUME NEW rows, NEW at \in Nat, Within(rows, at), NEW name,
         NEW j \in LatestInterval(rows, name),
         NEW k \in LatestInterval(rows, name)
  PROVE  j = k
<1>1. /\ j \in DOMAIN rows /\ k \in DOMAIN rows
      /\ \/ rows[j].last < rows[k].last
         \/ rows[j].last = rows[k].last /\ j <= k
      /\ \/ rows[k].last < rows[j].last
         \/ rows[k].last = rows[j].last /\ k <= j
  BY DEF LatestInterval
<1>2. rows[j].last \in Nat /\ rows[k].last \in Nat
  BY <1>1, WithinRow
<1>3. j \in Nat /\ k \in Nat
  BY <1>1, LenProperties DEF Within
<1>4. QED
  BY <1>1, <1>2, <1>3

\* Row k is the one that SyncUnit writes, and it leaves all others alone.
Writes(prior, rows, u, at, k, R) ==
  /\ Within(R, at)
  /\ k \in DOMAIN R /\ DOMAIN rows \subseteq DOMAIN R
  /\ \A j \in DOMAIN R : j # k => j \in DOMAIN rows /\ R[j] = rows[j]
  /\ R[k].unit = u.unit /\ R[k].status = u.status /\ R[k].last = at
  /\ k \in DOMAIN rows => /\ k \in LatestInterval(rows, u.unit)
                          /\ rows[k].status = u.status
                          /\ StatusIn(prior, u.unit) # NoUnit
                          /\ R[k].first = rows[k].first
  /\ k \notin DOMAIN rows =>
       /\ \A j \in DOMAIN rows : j < k
       /\ R[k].first = at
       /\ \/ StatusIn(prior, u.unit) = NoUnit
          \/ \A j \in LatestInterval(rows, u.unit) : rows[j].status # u.status

\* The UPDATE of the latest interval.
LEMMA ExtendWrites ==
  ASSUME NEW prior, NEW rows, NEW at \in Nat, Within(rows, at),
         NEW u \in Unit, NEW k \in LatestInterval(rows, u.unit),
         rows[k].status = u.status, StatusIn(prior, u.unit) # NoUnit
  PROVE  Writes(prior, rows, u, at, k, SyncUnit(prior, rows, u, at))
<1> DEFINE R == SyncUnit(prior, rows, u, at)
           row == [rows[k] EXCEPT !.last = at]
           same == {j \in LatestInterval(rows, u.unit) :
                      rows[j].status = u.status}
<1>1. k \in DOMAIN rows /\ rows[k].unit = u.unit
  BY DEF LatestInterval
<1>2. \A j \in same : j = k
  BY LatestIsOne
<1>3. R = [j \in DOMAIN rows |-> IF j = k THEN row ELSE rows[j]]
  <2>1. same = {k}
    BY <1>2
  <2>2. R = [j \in DOMAIN rows |->
               IF j \in same THEN [rows[j] EXCEPT !.last = at] ELSE rows[j]]
    BY <2>1 DEF SyncUnit
  <2>3. QED
    BY <2>1, <2>2
<1>4. /\ row \in Interval /\ row.unit = u.unit /\ row.status = u.status
      /\ row.first = rows[k].first /\ row.last = at
  BY <1>1, WithinRow DEF Interval
<1> HIDE DEF R, row
<1>5. DOMAIN R = DOMAIN rows /\ R[k] = row
      /\ \A j \in DOMAIN R : j # k => R[j] = rows[j]
  BY <1>1, <1>3
<1>6. Within(R, at)
  <2>1. DOMAIN rows = 1..Len(rows) /\ Len(rows) \in Nat
    BY LenProperties DEF Within
  <2>2. ASSUME NEW j \in DOMAIN R
        PROVE  /\ R[j] \in Interval
               /\ R[j].first \in 1..at /\ R[j].last \in R[j].first..at
    <3>1. CASE j = k
      <4>1. /\ rows[k].first \in Nat /\ rows[k].last \in Nat
            /\ 1 <= rows[k].first /\ rows[k].first <= rows[k].last
            /\ rows[k].last <= at
        BY <1>1, WithinRow
      <4>2. rows[k].first \in 1..at /\ at \in rows[k].first..at
        BY <4>1
      <4>3. QED
        BY <1>4, <1>5, <3>1, <4>2
    <3>2. CASE j # k
      <4>1. R[j] = rows[j] /\ j \in DOMAIN rows
        BY <1>5, <3>2
      <4>2. rows[j] \in Interval
        BY <4>1, WithinRow
      <4>3. QED
        BY <4>1, <4>2 DEF Within
    <3>3. QED
      BY <3>1, <3>2
  <2>3. R \in Seq(Interval)
    <3>1. R = [j \in 1..Len(rows) |-> R[j]]
      BY <1>3, <1>5, <2>1
    <3>2. \A j \in 1..Len(rows) : R[j] \in Interval
      BY <1>5, <2>1, <2>2
    <3>3. [j \in 1..Len(rows) |-> R[j]] \in Seq(Interval)
      BY <2>1, <3>2, IsASeq
    <3>4. QED
      BY <3>1, <3>3
  <2>4. QED
    BY <2>2, <2>3 DEF Within
<1>7. Writes(prior, rows, u, at, k, R)
  BY <1>1, <1>4, <1>5, <1>6 DEF Writes
<1>8. QED
  BY <1>7 DEF R

\* The INSERT of a new interval.
LEMMA AppendWrites ==
  ASSUME NEW prior, NEW rows, NEW at \in Nat, 1 <= at, Within(rows, at),
         NEW u \in Unit,
         \/ StatusIn(prior, u.unit) = NoUnit
         \/ \A j \in LatestInterval(rows, u.unit) : rows[j].status # u.status
  PROVE  Writes(prior, rows, u, at, Len(rows) + 1,
                SyncUnit(prior, rows, u, at))
<1> DEFINE R == SyncUnit(prior, rows, u, at)
           row == NewInterval(u, at)
           k == Len(rows) + 1
<1>1. R = Append(rows, row)
  BY DEF SyncUnit
<1>2. /\ row \in Interval /\ row.unit = u.unit /\ row.status = u.status
      /\ row.first = at /\ row.last = at
  BY DEF NewInterval, Interval, Unit
<1> HIDE DEF R, row
<1>3. rows \in Seq(Interval) /\ Len(rows) \in Nat /\ DOMAIN rows = 1..Len(rows)
  BY LenProperties DEF Within
<1>4. /\ R \in Seq(Interval) /\ Len(R) = k /\ R[k] = row
      /\ \A j \in 1..Len(rows) : R[j] = rows[j]
  BY <1>1, <1>2, <1>3, AppendProperties
<1>5. DOMAIN R = 1..k
  BY <1>4, LenProperties
<1>6. /\ k \in DOMAIN R /\ DOMAIN rows \subseteq DOMAIN R
      /\ \A j \in DOMAIN R : j # k => j \in DOMAIN rows /\ R[j] = rows[j]
      /\ k \notin DOMAIN rows /\ \A j \in DOMAIN rows : j < k
  BY <1>3, <1>4, <1>5
<1> HIDE DEF k
<1>7. ASSUME NEW j \in DOMAIN R
      PROVE  R[j].first \in 1..at /\ R[j].last \in R[j].first..at
  <2>1. CASE j = k
    <3>1. at \in 1..at /\ at \in at..at
      OBVIOUS
    <3>2. QED
      BY <1>2, <1>4, <2>1, <3>1
  <2>2. CASE j # k
    BY <1>6, <2>2 DEF Within
  <2>3. QED
    BY <2>1, <2>2
<1>8. Writes(prior, rows, u, at, k, R)
  <2>1. Within(R, at)
    BY <1>4, <1>7 DEF Within
  <2>2. R[k].unit = u.unit /\ R[k].status = u.status
        /\ R[k].first = at /\ R[k].last = at
    BY <1>2, <1>4
  <2>3. QED
    BY <1>6, <2>1, <2>2 DEF Writes
<1>9. QED
  BY <1>8 DEF R, k

\* So one entry of a list always writes one row.
LEMMA SyncUnitWrites ==
  ASSUME NEW prior, NEW rows, NEW at \in Nat, 1 <= at, Within(rows, at),
         NEW u \in Unit
  PROVE  \E k : Writes(prior, rows, u, at, k, SyncUnit(prior, rows, u, at))
<1>1. CASE /\ StatusIn(prior, u.unit) # NoUnit
           /\ \E k \in LatestInterval(rows, u.unit) : rows[k].status = u.status
  BY <1>1, ExtendWrites
<1>2. CASE \/ StatusIn(prior, u.unit) = NoUnit
           \/ \A k \in LatestInterval(rows, u.unit) : rows[k].status # u.status
  BY <1>2, AppendWrites
<1>3. QED
  BY <1>1, <1>2

\* The row it writes is then the latest of its unit.
LEMMA WrittenIsLatest ==
  ASSUME NEW prior, NEW rows, NEW at \in Nat, Within(rows, at), NEW u \in Unit,
         NEW k, NEW R, Writes(prior, rows, u, at, k, R)
  PROVE  k \in LatestInterval(R, u.unit)
<1>1. k \in DOMAIN R /\ R[k].unit = u.unit /\ R[k].last = at
  BY DEF Writes
<1>2. ASSUME NEW j \in DOMAIN R, R[j].unit = u.unit
      PROVE  R[j].last < R[k].last \/ (R[j].last = R[k].last /\ j <= k)
  <2>1. R[j].last \in Nat /\ R[j].last <= at /\ j \in Nat /\ k \in Nat
    <3>1. Within(R, at)
      BY DEF Writes
    <3>2. R[j].last \in Nat /\ R[j].last <= at
      BY <3>1, WithinRow
    <3>3. DOMAIN R = 1..Len(R) /\ Len(R) \in Nat
      BY <3>1, LenProperties DEF Within
    <3>4. QED
      BY <1>1, <3>2, <3>3
  <2>2. CASE j = k
    BY <2>1, <2>2
  <2>3. CASE j # k /\ k \notin DOMAIN rows
    <3>1. j < k
      BY <2>3 DEF Writes
    <3>2. QED
      BY <1>1, <2>1, <3>1
  <2>4. CASE j # k /\ k \in DOMAIN rows
    <3>1. /\ j \in DOMAIN rows /\ R[j] = rows[j]
          /\ k \in LatestInterval(rows, u.unit)
      BY <2>4 DEF Writes
    <3>2. \/ rows[j].last < rows[k].last
          \/ rows[j].last = rows[k].last /\ j <= k
      BY <1>2, <3>1 DEF LatestInterval
    <3>3. rows[k].last \in Nat /\ rows[k].last <= at
      BY <2>4, WithinRow
    <3>4. R[k].last = at /\ R[j].last = rows[j].last
      BY <1>1, <3>1
    <3>5. QED
      BY <2>1, <3>2, <3>3, <3>4
  <2>5. QED
    BY <2>2, <2>3, <2>4
<1>3. QED
  BY <1>1, <1>2 DEF LatestInterval

\* The latest rows of the other units stay what they were.
LEMMA OtherUnitsStay ==
  ASSUME NEW prior, NEW rows, NEW at, NEW u, NEW k, NEW R,
         Writes(prior, rows, u, at, k, R), NEW name, name # u.unit
  PROVE  \A j \in LatestInterval(rows, name) :
           j \in LatestInterval(R, name) /\ R[j] = rows[j]
<1>1. ASSUME NEW i \in DOMAIN R, R[i].unit = name
      PROVE  i \in DOMAIN rows /\ R[i] = rows[i]
  BY <1>1 DEF Writes
<1>2. ASSUME NEW i \in DOMAIN rows, rows[i].unit = name
      PROVE  i \in DOMAIN R /\ R[i] = rows[i]
  <2>1. i # k
    BY <1>2 DEF Writes, LatestInterval
  <2>2. QED
    BY <2>1 DEF Writes
<1>3. QED
  BY <1>1, <1>2 DEF LatestInterval

-----------------------------------------------------------------------------
(* The whole list.                                                         *)

LEMMA StepWrites ==
  ASSUME NEW prior, NEW rows, NEW list \in Seq(Unit), NEW at \in Nat, NEW h,
         1 <= at, Steps(prior, rows, list, at, h),
         NEW n \in Nat, n + 1 <= Len(list), Within(h[n], at)
  PROVE  /\ list[n + 1] \in Unit
         /\ \E k : Writes(prior, h[n], list[n + 1], at, k, h[n + 1])
<1>1. n + 1 \in 1..Len(list) /\ (n + 1) - 1 = n
  BY LenProperties
<1>2. list[n + 1] \in Unit
  BY <1>1, ElementOfSeq
<1>3. h[n + 1] = SyncUnit(prior, h[n], list[n + 1], at)
  BY <1>1 DEF Steps
<1>4. \E k : Writes(prior, h[n], list[n + 1], at, k,
                    SyncUnit(prior, h[n], list[n + 1], at))
  BY <1>2, SyncUnitWrites
<1>5. QED
  BY <1>2, <1>3, <1>4

LEMMA StepsWithin ==
  ASSUME NEW prior, NEW rows, NEW list \in Seq(Unit), NEW at \in Nat, NEW h,
         1 <= at, Within(rows, at), Steps(prior, rows, list, at, h)
  PROVE  \A n \in Nat : n <= Len(list) => Within(h[n], at)
<1> DEFINE S == {n \in Nat : n <= Len(list) => Within(h[n], at)}
<1>1. 0 \in S
  BY DEF Steps
<1>2. ASSUME NEW n \in S
      PROVE  n + 1 \in S
  <2>1. n \in Nat /\ n + 1 \in Nat /\ Len(list) \in Nat
    BY LenProperties
  <2>2. ASSUME n + 1 <= Len(list)
        PROVE  Within(h[n + 1], at)
    <3>1. n <= Len(list)
      BY <2>1, <2>2
    <3>2. Within(h[n], at)
      BY <3>1
    <3>3. \E k : Writes(prior, h[n], list[n + 1], at, k, h[n + 1])
      BY <2>1, <2>2, <3>2, StepWrites
    <3>4. QED
      BY <3>3 DEF Writes
  <2>3. QED
    BY <2>1, <2>2
<1>3. S = Nat
  <2>1. S \subseteq Nat
    OBVIOUS
  <2> HIDE DEF S
  <2>2. QED
    BY <1>1, <1>2, <2>1, EveryNatural
<1>4. QED
  BY <1>3

\* Among the first n entries of the list, entry m is its unit's last.
LastEntry(list, m, n) ==
  m \in 1..n /\ \A i \in 1..n : list[i].unit = list[m].unit => i <= m

\* The latest interval of the unit that u names is as u says.
Current(rows, u, at) ==
  \E j \in LatestInterval(rows, u.unit) :
    rows[j].status = u.status /\ rows[j].last = at

LEMMA StepKeepsCurrent ==
  ASSUME NEW prior, NEW rows, NEW at \in Nat, Within(rows, at), NEW u \in Unit,
         NEW k, NEW R, Writes(prior, rows, u, at, k, R)
  PROVE  /\ Current(R, u, at)
         /\ \A v \in Unit : v.unit # u.unit /\ Current(rows, v, at)
              => Current(R, v, at)
<1>1. Current(R, u, at)
  BY WrittenIsLatest DEF Current, Writes
<1>2. ASSUME NEW v \in Unit, v.unit # u.unit, Current(rows, v, at)
      PROVE  Current(R, v, at)
  <2>1. PICK j \in LatestInterval(rows, v.unit) :
               rows[j].status = v.status /\ rows[j].last = at
    BY <1>2 DEF Current
  <2>2. j \in LatestInterval(R, v.unit) /\ R[j] = rows[j]
    BY <1>2, <2>1, OtherUnitsStay
  <2>3. QED
    BY <2>1, <2>2 DEF Current
<1>3. QED
  BY <1>1, <1>2

LEMMA StepsCurrent ==
  ASSUME NEW prior, NEW rows, NEW list \in Seq(Unit), NEW at \in Nat, NEW h,
         1 <= at, Within(rows, at), Steps(prior, rows, list, at, h)
  PROVE  \A n \in Nat : n <= Len(list) =>
           \A m \in 1..n : LastEntry(list, m, n) => Current(h[n], list[m], at)
<1> DEFINE Good(n) ==
      \A m \in 1..n : LastEntry(list, m, n) => Current(h[n], list[m], at)
           S == {n \in Nat : n <= Len(list) => Good(n)}
<1>1. 0 \in S
  <2>1. \A m \in 1..0 : FALSE
    OBVIOUS
  <2>2. QED
    BY <2>1
<1>2. ASSUME NEW n \in S
      PROVE  n + 1 \in S
  <2>1. n \in Nat /\ n + 1 \in Nat /\ Len(list) \in Nat
    BY LenProperties
  <2>2. ASSUME n + 1 <= Len(list), NEW m \in 1..(n + 1),
               LastEntry(list, m, n + 1)
        PROVE  Current(h[n + 1], list[m], at)
    <3>1. n <= Len(list)
      BY <2>1, <2>2
    <3>2. Within(h[n], at)
      BY <2>1, <3>1, StepsWithin
    <3>3. PICK k : Writes(prior, h[n], list[n + 1], at, k, h[n + 1])
      BY <2>1, <2>2, <3>2, StepWrites
    <3>4. list[n + 1] \in Unit /\ list[m] \in Unit
      <4>1. n + 1 \in 1..Len(list) /\ m \in 1..Len(list)
        BY <2>1, <2>2
      <4>2. QED
        BY <4>1, ElementOfSeq
    <3>5. CASE m = n + 1
      BY <3>2, <3>3, <3>4, <3>5, StepKeepsCurrent
    <3>6. CASE m # n + 1
      <4>1. m \in 1..n /\ n + 1 \in 1..(n + 1) /\ ~(n + 1 <= m)
        BY <2>1, <3>6
      <4>2. list[n + 1].unit # list[m].unit
        BY <2>2, <4>1 DEF LastEntry
      <4>3. LastEntry(list, m, n)
        <5>1. \A i \in 1..n : i \in 1..(n + 1)
          BY <2>1
        <5>2. QED
          BY <2>2, <4>1, <5>1 DEF LastEntry
      <4>4. Current(h[n], list[m], at)
        BY <3>1, <4>1, <4>3
      <4>5. QED
        BY <3>2, <3>3, <3>4, <4>2, <4>4, StepKeepsCurrent
    <3>7. QED
      BY <3>5, <3>6
  <2>3. QED
    BY <2>1, <2>2
<1>3. S = Nat
  <2>1. S \subseteq Nat
    OBVIOUS
  <2> HIDE DEF S
  <2>2. QED
    BY <1>1, <1>2, <2>1, EveryNatural
<1>4. QED
  BY <1>3

\* What an observation makes of the history, whatever the history was.
LEMMA SyncedHistory ==
  ASSUME NEW prior, NEW rows, NEW list \in Seq(Unit), NEW at \in Nat,
         1 <= at, Within(rows, at)
  PROVE  /\ Within(SyncUnitHistory(prior, rows, list, at), at)
         /\ \A k \in DOMAIN list :
              \E j \in LatestInterval(SyncUnitHistory(prior, rows, list, at),
                                      list[k].unit) :
                /\ SyncUnitHistory(prior, rows, list, at)[j].status
                     = StatusIn(list, list[k].unit)
                /\ SyncUnitHistory(prior, rows, list, at)[j].last = at
<1>1. Len(list) \in Nat /\ DOMAIN list = 1..Len(list)
      /\ Len(list) <= Len(list)
  BY LenProperties
<1>2. PICK h : /\ SyncUnitHistory(prior, rows, list, at) = h[Len(list)]
               /\ Steps(prior, rows, list, at, h)
  BY <1>1, SyncedUnitByUnit
<1>3. Within(h[Len(list)], at)
  BY <1>1, <1>2, StepsWithin
<1>4. ASSUME NEW k \in DOMAIN list
      PROVE  \E j \in LatestInterval(h[Len(list)], list[k].unit) :
               /\ h[Len(list)][j].status = StatusIn(list, list[k].unit)
               /\ h[Len(list)][j].last = at
  <2>1. PICK m \in DOMAIN list :
               /\ list[m].unit = list[k].unit
               /\ StatusIn(list, list[k].unit) = list[m].status
               /\ \A j \in DOMAIN list : list[j].unit = list[k].unit => j <= m
    BY StatusOfListed
  <2>2. LastEntry(list, m, Len(list))
    BY <1>1, <2>1 DEF LastEntry
  <2>3. Current(h[Len(list)], list[m], at)
    BY <1>1, <1>2, <2>1, <2>2, StepsCurrent
  <2>4. QED
    BY <2>1, <2>3 DEF Current
<1>5. QED
  BY <1>2, <1>3, <1>4

-----------------------------------------------------------------------------
(* Types, with what the operators above need to know of every state.       *)

Delta ==
  UNION {[names -> UnitStatus \union {NoUnit}] : names \in SUBSET UnitName}

\* A backfill has something to write only after an observation.
UnitBase ==
  /\ observed \in Seq(UnitLists)
  /\ units \in Seq(Unit)
  /\ Within(intervals, now)
  /\ deltas \in Seq(Delta)
  /\ candidate \in Seq(UnitLists)
  /\ candidate # <<>> => 0 < now
  /\ backfills \in 0..MaxBackfills
  /\ rewrittenAt \in 0..now

LEMMA NowNatural ==
  ASSUME UnitBase
  PROVE  now \in Nat /\ DOMAIN observed = 1..now
BY LenProperties DEF UnitBase, now

LEMMA ListsAreUnits ==
  ASSUME NEW list \in UnitLists
  PROVE  list \in Seq(Unit)
BY UnitListsAssumption

LEMMA WithinLater ==
  ASSUME NEW rows, NEW at \in Nat, NEW later \in Nat, at <= later,
         Within(rows, at)
  PROVE  Within(rows, later)
<1>1. ASSUME NEW k \in DOMAIN rows
      PROVE  /\ rows[k].first \in 1..later
             /\ rows[k].last \in rows[k].first..later
  <2>1. /\ rows[k].first \in Nat /\ rows[k].last \in Nat
        /\ 1 <= rows[k].first /\ rows[k].first <= rows[k].last
        /\ rows[k].last <= at
    BY WithinRow
  <2>2. QED
    BY <2>1
<1>2. QED
  BY <1>1 DEF Within

\* A list, as the history backfill_units makes of it.
LEMMA NewHistoryWithin ==
  ASSUME NEW list \in Seq(Unit), NEW at \in Nat, 1 <= at
  PROVE  Within([k \in DOMAIN list |-> NewInterval(list[k], 1)], at)
<1> DEFINE rows == [k \in DOMAIN list |-> NewInterval(list[k], 1)]
<1>1. DOMAIN list = 1..Len(list) /\ Len(list) \in Nat
  BY LenProperties
<1>2. ASSUME NEW k \in 1..Len(list)
      PROVE  /\ NewInterval(list[k], 1) \in Interval
             /\ NewInterval(list[k], 1).first = 1
             /\ NewInterval(list[k], 1).last = 1
  <2>1. list[k] \in Unit
    BY ElementOfSeq
  <2>2. QED
    BY <2>1 DEF NewInterval, Interval, Unit
<1>3. rows \in Seq(Interval)
  <2>1. rows = [k \in 1..Len(list) |-> NewInterval(list[k], 1)]
    BY <1>1
  <2>2. [k \in 1..Len(list) |-> NewInterval(list[k], 1)] \in Seq(Interval)
    BY <1>1, <1>2, IsASeq
  <2>3. QED
    BY <2>1, <2>2
<1>4. ASSUME NEW k \in DOMAIN rows
      PROVE  rows[k].first \in 1..at /\ rows[k].last \in rows[k].first..at
  <2>1. rows[k].first = 1 /\ rows[k].last = 1
    BY <1>1, <1>2
  <2>2. 1 \in 1..at
    OBVIOUS
  <2> HIDE DEF rows
  <2>3. QED
    BY <2>1, <2>2
<1>5. QED
  BY <1>3, <1>4 DEF Within

LEMMA StatusesByName ==
  ASSUME NEW list \in Seq(Unit)
  PROVE  UnitsByName(list) \in [UnitName -> UnitStatus \union {NoUnit}]
BY StatusTellsListed DEF UnitsByName

LEMMA DiffIsDelta ==
  ASSUME NEW prior \in Seq(Unit), NEW next \in Seq(Unit)
  PROVE  DiffUnits(prior, next) \in Delta
<1> DEFINE from == UnitsByName(prior)
           to == UnitsByName(next)
           names == {n \in UnitName : from[n] # to[n]}
<1>1. to \in [UnitName -> UnitStatus \union {NoUnit}]
  BY StatusesByName
<1>2. DiffUnits(prior, next) = [name \in names |-> to[name]]
  BY DEF DiffUnits
<1>3. names \in SUBSET UnitName
  OBVIOUS
<1> HIDE DEF from, to, names
<1>4. DiffUnits(prior, next) \in [names -> UnitStatus \union {NoUnit}]
  BY <1>1, <1>2, <1>3
<1>5. QED
  BY <1>3, <1>4 DEF Delta

LEMMA UpsertKeepsBase ==
  ASSUME UnitBase, NEW list \in UnitLists, Upsert(list)
  PROVE  UnitBase'
<1>1. now \in Nat /\ observed' = Append(observed, list) /\ units' = list
      /\ intervals' = SyncUnitHistory(units, intervals, list, now + 1)
      /\ UNCHANGED <<candidate, backfills, rewrittenAt>>
  BY NowNatural DEF Upsert
<1>2. list \in Seq(Unit)
  BY ListsAreUnits
<1>3. observed' \in Seq(UnitLists) /\ now' = now + 1
  BY <1>1, AppendProperties DEF UnitBase, now
<1>4. Within(intervals, now + 1)
  <2>1. now + 1 \in Nat /\ now <= now + 1
    BY <1>1
  <2>2. QED
    BY <1>1, <2>1, WithinLater DEF UnitBase
<1>5. Within(intervals', now')
  <2>1. now + 1 \in Nat /\ 1 <= now + 1
    BY <1>1
  <2>2. Within(SyncUnitHistory(units, intervals, list, now + 1), now + 1)
    BY <1>2, <1>4, <2>1, SyncedHistory
  <2>3. QED
    BY <1>1, <1>3, <2>2
<1>6. deltas' \in Seq(Delta)
  <2>1. DiffUnits(units, list) \in Delta
    BY <1>2, DiffIsDelta DEF UnitBase
  <2>2. Append(deltas, DiffUnits(units, list)) \in Seq(Delta)
    BY <2>1, AppendProperties DEF UnitBase
  <2>3. QED
    BY <2>2 DEF Upsert, UnitBase
<1>7. rewrittenAt' \in 0..now' /\ 0 < now'
  BY <1>1, <1>3 DEF UnitBase
<1>8. QED
  BY <1>1, <1>2, <1>3, <1>5, <1>6, <1>7 DEF UnitBase

LEMMA BackfillReadKeepsBase ==
  ASSUME UnitBase, BackfillRead
  PROVE  UnitBase'
<1>1. now \in Nat /\ 0 < now /\ DOMAIN observed = 1..now
  BY NowNatural DEF BackfillRead
<1>2. /\ UNCHANGED <<observed, units, intervals, deltas, rewrittenAt>>
      /\ now' = now /\ backfills' = backfills + 1
      /\ candidate' = <<Last(observed)>> /\ backfills < MaxBackfills
  BY DEF BackfillRead, now
<1>3. Last(observed) \in UnitLists
  <2>1. Last(observed) = observed[now]
    BY DEF Last, now
  <2>2. now \in 1..Len(observed)
    BY <1>1 DEF now
  <2>3. QED
    BY <2>1, <2>2, ElementOfSeq DEF UnitBase
<1>4. candidate' \in Seq(UnitLists)
  BY <1>2, <1>3
<1>5. backfills' \in 0..MaxBackfills
  BY <1>2, UnitBoundsAssumption DEF UnitBase
<1>6. Within(intervals', now')
  BY <1>2 DEF UnitBase
<1>7. QED
  BY <1>1, <1>2, <1>4, <1>5, <1>6 DEF UnitBase

LEMMA BackfillWriteKeepsBase ==
  ASSUME UnitBase, BackfillWrite
  PROVE  UnitBase'
<1>1. now \in Nat /\ 0 < now
  BY NowNatural DEF BackfillWrite, UnitBase
<1>2. /\ UNCHANGED <<observed, deltas, backfills>> /\ now' = now
      /\ candidate' = <<>> /\ rewrittenAt' = now /\ units' = candidate[1]
      /\ intervals' = [k \in DOMAIN candidate[1] |->
                         NewInterval(candidate[1][k], 1)]
  BY DEF BackfillWrite, now
<1>3. candidate[1] \in Seq(Unit)
  <2>1. 1 \in 1..Len(candidate)
    <3>1. Len(candidate) \in Nat \ {0}
      BY EmptySeq DEF BackfillWrite, UnitBase
    <3>2. QED
      BY <3>1
  <2>2. candidate[1] \in UnitLists
    BY <2>1, ElementOfSeq DEF UnitBase
  <2>3. QED
    BY <2>2, ListsAreUnits
<1>4. Within(intervals', now')
  <2>1. Within([k \in DOMAIN candidate[1] |->
                  NewInterval(candidate[1][k], 1)], now)
    BY <1>1, <1>3, NewHistoryWithin
  <2>2. QED
    BY <1>2, <2>1
<1>5. candidate' \in Seq(UnitLists) /\ rewrittenAt' \in 0..now'
  BY <1>1, <1>2
<1>6. QED
  BY <1>2, <1>3, <1>4, <1>5 DEF UnitBase

LEMMA BaseInductive ==
  ASSUME UnitBase, [UnitNext]_unitVars
  PROVE  UnitBase'
<1>1. CASE \E list \in UnitLists : Upsert(list)
  BY <1>1, UpsertKeepsBase
<1>2. CASE BackfillRead
  BY <1>2, BackfillReadKeepsBase
<1>3. CASE BackfillWrite
  BY <1>3, BackfillWriteKeepsBase
<1>4. CASE BackfillAbort
  <2>1. /\ UNCHANGED <<observed, units, intervals, deltas, backfills,
                       rewrittenAt>>
        /\ now' = now /\ candidate' = <<>>
    BY <1>4 DEF BackfillAbort, now
  <2>2. candidate' \in Seq(UnitLists)
    BY <2>1
  <2>3. Within(intervals', now')
    BY <2>1 DEF UnitBase
  <2>4. QED
    BY <2>1, <2>2, <2>3 DEF UnitBase
<1>5. CASE UNCHANGED unitVars
  <2>1. /\ UNCHANGED <<observed, units, intervals, deltas, candidate,
                       backfills, rewrittenAt>>
        /\ now' = now
    BY <1>5 DEF unitVars, now
  <2>2. Within(intervals', now')
    BY <2>1 DEF UnitBase
  <2>3. QED
    BY <2>1, <2>2 DEF UnitBase
<1>6. QED
  BY <1>1, <1>2, <1>3, <1>4, <1>5 DEF UnitNext

LEMMA BaseStart ==
  ASSUME UnitInit
  PROVE  UnitBase
<1>1. /\ observed = <<>> /\ units = <<>> /\ intervals = <<>> /\ deltas = <<>>
      /\ candidate = <<>> /\ backfills = 0 /\ rewrittenAt = 0 /\ now = 0
  BY DEF UnitInit, now
<1>2. Within(intervals, now)
  <2>1. <<>> \in Seq(Interval) /\ DOMAIN intervals = {}
    BY <1>1
  <2>2. QED
    BY <1>1, <2>1 DEF Within
<1>3. backfills \in 0..MaxBackfills /\ rewrittenAt \in 0..now
  BY <1>1, UnitBoundsAssumption
<1>4. QED
  BY <1>1, <1>2, <1>3 DEF UnitBase

LEMMA BaseAlways == UnitSpec => []UnitBase
BY BaseStart, BaseInductive, PTL DEF UnitSpec

LEMMA BaseTypes ==
  ASSUME UnitBase
  PROVE  UnitTypeOK
<1>1. now \in Nat
  BY NowNatural
<1>2. ASSUME NEW k \in DOMAIN intervals
      PROVE  [unit |-> intervals[k].unit, status |-> intervals[k].status]
               \in Unit
  BY <1>1, WithinRow DEF UnitBase, Unit
<1>3. ASSUME NEW k \in DOMAIN deltas
      PROVE  deltas[k] \in [DOMAIN deltas[k] -> UnitStatus \union {NoUnit}]
  <2>1. deltas[k] \in Delta
    BY LenProperties, ElementOfSeq DEF UnitBase
  <2>2. QED
    BY <2>1 DEF Delta
<1>4. QED
  BY <1>2, <1>3 DEF UnitBase, UnitTypeOK, Within

\* The tables keep their shape whatever order the ingester and the backfill
\* command write them in (UpsertIncident, backfillUnits): no interval starts
\* before received_at, ends before it starts or ends after the last
\* observation.
THEOREM UnitTypeCorrect == UnitSpec => []UnitTypeOK
BY BaseAlways, BaseTypes, PTL

-----------------------------------------------------------------------------
(* The latest interval.  Every observation establishes it anew, from       *)
(* whatever history a backfill has left.                                   *)

LEMMA UpsertMakesCurrent ==
  ASSUME UnitBase, NEW list \in UnitLists, Upsert(list)
  PROVE  LatestIntervalIsCurrent'
<1>1. /\ now \in Nat /\ observed' = Append(observed, list) /\ units' = list
      /\ intervals' = SyncUnitHistory(units, intervals, list, now + 1)
  BY NowNatural DEF Upsert
<1>2. list \in Seq(Unit)
  BY ListsAreUnits
<1>3. now' = now + 1
  BY <1>1, AppendProperties DEF UnitBase, now
<1>4. now + 1 \in Nat /\ 1 <= now + 1 /\ now <= now + 1
  BY <1>1
<1>5. Within(intervals, now + 1)
  BY <1>1, <1>4, WithinLater DEF UnitBase
<1>6. \A k \in DOMAIN list :
        \E j \in LatestInterval(intervals', list[k].unit) :
          /\ intervals'[j].status = StatusIn(list, list[k].unit)
          /\ intervals'[j].last = now + 1
  <2> DEFINE at == now + 1
  <2>1. /\ at \in Nat /\ 1 <= at /\ Within(intervals, at)
        /\ intervals' = SyncUnitHistory(units, intervals, list, at)
    BY <1>1, <1>4, <1>5
  <2> HIDE DEF at
  <2>2. \A k \in DOMAIN list :
          \E j \in LatestInterval(SyncUnitHistory(units, intervals, list, at),
                                  list[k].unit) :
            /\ SyncUnitHistory(units, intervals, list, at)[j].status
                 = StatusIn(list, list[k].unit)
            /\ SyncUnitHistory(units, intervals, list, at)[j].last = at
    BY <1>2, <2>1, SyncedHistory
  <2>3. \A k \in DOMAIN list :
          \E j \in LatestInterval(intervals', list[k].unit) :
            /\ intervals'[j].status = StatusIn(list, list[k].unit)
            /\ intervals'[j].last = at
    BY <2>1, <2>2, Zenon
  <2>4. QED
    BY <2>3 DEF at
<1>7. QED
  BY <1>1, <1>3, <1>6 DEF LatestIntervalIsCurrent

LEMMA RestKeepsCurrent ==
  ASSUME UnitBase, LatestIntervalIsCurrent,
         \/ BackfillRead
         \/ BackfillWrite
         \/ BackfillAbort
         \/ UNCHANGED unitVars
  PROVE  LatestIntervalIsCurrent'
<1>1. CASE BackfillWrite
  <2>1. now' = now /\ rewrittenAt' = now /\ now \in Nat
    BY <1>1, NowNatural DEF BackfillWrite, now
  <2>2. ~(rewrittenAt' < now')
    BY <2>1
  <2>3. QED
    BY <2>2 DEF LatestIntervalIsCurrent
<1>2. CASE BackfillRead \/ BackfillAbort \/ UNCHANGED unitVars
  <2>1. UNCHANGED <<observed, units, intervals, rewrittenAt>> /\ now' = now
    BY <1>2 DEF BackfillRead, BackfillAbort, unitVars, now
  <2>2. QED
    BY <2>1 DEF LatestIntervalIsCurrent
<1>3. QED
  BY <1>1, <1>2

\* After an observation the latest interval of every unit it lists carries
\* that unit's status and ends there, even where a backfill replaced the
\* history meanwhile and even where a list names a unit twice
\* (syncUnitHistory's ORDER BY last_observed_at DESC, id DESC).
THEOREM LatestIntervalIsCurrentCorrect ==
  UnitSpec => []LatestIntervalIsCurrent
<1>1. ASSUME UnitInit
      PROVE  LatestIntervalIsCurrent
  BY <1>1 DEF UnitInit, LatestIntervalIsCurrent
<1>2. ASSUME UnitBase, LatestIntervalIsCurrent, [UnitNext]_unitVars
      PROVE  LatestIntervalIsCurrent'
  BY <1>2, UpsertMakesCurrent, RestKeepsCurrent DEF UnitNext
<1>3. QED
  BY <1>1, <1>2, BaseAlways, PTL DEF UnitSpec

-----------------------------------------------------------------------------
(* The event log.                                                          *)

\* diffUnits leads from the one snapshot to the other.
LEMMA DiffLeads ==
  ASSUME NEW prior, NEW next
  PROVE  Over(DiffUnits(prior, next), UnitsByName(prior)) = UnitsByName(next)
<1> DEFINE from == UnitsByName(prior)
           to == UnitsByName(next)
           names == {n \in UnitName : from[n] # to[n]}
           delta == [name \in names |-> to[name]]
<1>1. DiffUnits(prior, next) = delta
  BY DEF DiffUnits
<1>2. from = [n \in UnitName |-> from[n]] /\ to = [n \in UnitName |-> to[n]]
  BY DEF UnitsByName
<1>3. DOMAIN delta = names /\ \A n \in names : delta[n] = to[n]
  OBVIOUS
<1>4. names \subseteq UnitName /\ \A n \in UnitName \ names : from[n] = to[n]
  OBVIOUS
<1> HIDE DEF from, to, names, delta
<1>5. Over(delta, from) =
        [n \in UnitName |-> IF n \in DOMAIN delta THEN delta[n] ELSE from[n]]
  BY DEF Over
<1>6. \A n \in UnitName :
        (IF n \in DOMAIN delta THEN delta[n] ELSE from[n]) = to[n]
  BY <1>3, <1>4
<1>7. Over(delta, from) = [n \in UnitName |-> to[n]]
  BY <1>5, <1>6
<1>8. Over(delta, from) = to
  BY <1>2, <1>7
<1>9. QED
  BY <1>1, <1>8 DEF from, to

\* An empty diff: the two snapshots show the same.
LEMMA NoDiffSame ==
  ASSUME NEW prior, NEW next, DiffUnits(prior, next) = <<>>
  PROVE  UnitsByName(prior) = UnitsByName(next)
<1> DEFINE from == UnitsByName(prior)
           to == UnitsByName(next)
           names == {n \in UnitName : from[n] # to[n]}
<1>1. DOMAIN DiffUnits(prior, next) = names
  BY DEF DiffUnits
<1>2. names = {}
  BY <1>1
<1>3. from = [n \in UnitName |-> from[n]] /\ to = [n \in UnitName |-> to[n]]
  BY DEF UnitsByName
<1>4. \A n \in UnitName : from[n] = to[n]
  BY <1>2
<1> HIDE DEF from, to, names
<1>5. from = to
  BY <1>3, <1>4
<1>6. QED
  BY <1>5 DEF from, to

LEMMA UpsertKeepsReplay ==
  ASSUME UnitBase, DeltasReplay, NEW list \in UnitLists, Upsert(list)
  PROVE  DeltasReplay'
<1> DEFINE diff == DiffUnits(units, list)
<1>1. units' = list /\ rewrittenAt' = rewrittenAt
      /\ deltas' = IF now = 0 \/ diff # <<>> THEN Append(deltas, diff)
                   ELSE deltas
  BY DEF Upsert
<1>2. diff \in Delta
  BY ListsAreUnits, DiffIsDelta DEF UnitBase
<1>3. SUFFICES ASSUME rewrittenAt = 0
               PROVE  Replayed(deltas') = UnitsByName(list)
  BY <1>1 DEF DeltasReplay
<1>4. Replayed(deltas) = UnitsByName(units)
  BY <1>3 DEF DeltasReplay
<1>5. CASE now = 0 \/ diff # <<>>
  <2> HIDE DEF diff
  <2>1. deltas' = Append(deltas, diff)
    BY <1>1, <1>5
  <2>2. Replayed(Append(deltas, diff)) = Over(diff, Replayed(deltas))
    BY <1>2, ReplayedAppended DEF UnitBase
  <2>3. Over(diff, UnitsByName(units)) = UnitsByName(list)
    BY DiffLeads DEF diff
  <2>4. QED
    BY <1>4, <2>1, <2>2, <2>3
<1>6. CASE ~(now = 0 \/ diff # <<>>)
  <2>1. deltas' = deltas
    BY <1>1, <1>6
  <2>2. UnitsByName(units) = UnitsByName(list)
    BY <1>6, NoDiffSame
  <2>3. QED
    BY <1>4, <2>1, <2>2
<1>7. QED
  BY <1>5, <1>6

LEMMA RestKeepsReplay ==
  ASSUME UnitBase, DeltasReplay,
         \/ BackfillRead
         \/ BackfillWrite
         \/ BackfillAbort
         \/ UNCHANGED unitVars
  PROVE  DeltasReplay'
<1>1. CASE BackfillWrite
  <2>1. rewrittenAt' = now /\ 0 < now /\ now \in Nat
    BY <1>1, NowNatural DEF BackfillWrite, UnitBase
  <2>2. rewrittenAt' # 0
    BY <2>1
  <2>3. QED
    BY <2>2 DEF DeltasReplay
<1>2. CASE BackfillRead \/ BackfillAbort \/ UNCHANGED unitVars
  <2>1. UNCHANGED <<units, deltas, rewrittenAt>>
    BY <1>2 DEF BackfillRead, BackfillAbort, unitVars
  <2>2. QED
    BY <2>1 DEF DeltasReplay
<1>3. QED
  BY <1>1, <1>2

\* Until a backfill rewrites the units behind the log's back, the deltas of
\* the events, laid over each other in order, show the units of the row
\* (buildIncidentDelta, diffUnits and writeUpsertEvent).
THEOREM DeltasReplayCorrect == UnitSpec => []DeltasReplay
<1>1. ASSUME UnitInit
      PROVE  DeltasReplay
  <2>1. deltas = <<>> /\ units = <<>> /\ Len(deltas) = 0
    BY <1>1 DEF UnitInit
  <2>2. PICK s : Shown(deltas, 0, s) /\ Replayed(deltas) = s[0]
    BY <2>1, ShownDeltaByDelta
  <2>3. s[0] = UnitsByName(<<>>)
    BY <2>2 DEF Shown
  <2>4. QED
    BY <2>1, <2>2, <2>3 DEF DeltasReplay
<1>2. ASSUME UnitBase, DeltasReplay, [UnitNext]_unitVars
      PROVE  DeltasReplay'
  BY <1>2, UpsertKeepsReplay, RestKeepsReplay DEF UnitNext
<1>3. QED
  BY <1>1, <1>2, BaseAlways, PTL DEF UnitSpec

-----------------------------------------------------------------------------
(* The history as the run-length encoding of the observations.  It is so   *)
(* unit by unit, also half-way through a list: for the units the loop has  *)
(* done up to the new observation, for the others up to the one before.    *)

Mine(rows, name) == {k \in DOMAIN rows : rows[k].unit = name}

\* log[t] is the list of observation t.
IsRun(log, row, end) ==
  /\ row.last <= end
  /\ \A t \in row.first..row.last : StatusIn(log[t], row.unit) = row.status
  /\ 1 < row.first => StatusIn(log[row.first - 1], row.unit) # row.status
  /\ row.last < end => StatusIn(log[row.last + 1], row.unit) # row.status

Encodes(log, rows, name, end) ==
  /\ \A k \in Mine(rows, name) : IsRun(log, rows[k], end)
  /\ \A t \in 1..end : StatusIn(log[t], name) # NoUnit =>
       \E k \in Mine(rows, name) : rows[k].first <= t /\ t <= rows[k].last
  /\ \A j, k \in Mine(rows, name) : j # k =>
       rows[j].last < rows[k].first \/ rows[k].last < rows[j].first

\* Only one run of a unit can end at the last observation.
LEMMA OneRunEndsLast ==
  ASSUME NEW log, NEW rows, NEW name, NEW end \in Nat, NEW at \in Nat,
         Within(rows, at), Encodes(log, rows, name, end),
         NEW k \in Mine(rows, name), rows[k].last = end
  PROVE  /\ \A j \in Mine(rows, name) : j # k => rows[j].last < end
         /\ k \in LatestInterval(rows, name)
<1>1. ASSUME NEW j \in Mine(rows, name), j # k
      PROVE  rows[j].last < end
  <2>1. rows[j].last <= end
    BY DEF Encodes, IsRun
  <2>2. rows[j].last < rows[k].first \/ rows[k].last < rows[j].first
    BY <1>1 DEF Encodes
  <2>3. /\ rows[j].first \in Nat /\ rows[j].last \in Nat
        /\ rows[k].first \in Nat /\ rows[k].last \in Nat
        /\ rows[j].first <= rows[j].last /\ rows[k].first <= rows[k].last
    BY WithinRow DEF Mine
  <2>4. QED
    BY <2>1, <2>2, <2>3
<1>2. \A j \in Mine(rows, name) : \/ rows[j].last < rows[k].last
                                  \/ rows[j].last = rows[k].last /\ j <= k
  <2>1. k \in Nat
    BY LenProperties DEF Mine, Within
  <2>2. QED
    BY <1>1, <2>1
<1>3. QED
  BY <1>1, <1>2 DEF LatestInterval, Mine

\* A unit seen in the last observation has its run there, the latest one.
LEMMA SeenLast ==
  ASSUME NEW log, NEW rows, NEW name, NEW end \in Nat, NEW at \in Nat,
         1 <= end, Within(rows, at), Encodes(log, rows, name, end),
         StatusIn(log[end], name) # NoUnit
  PROVE  \E k \in LatestInterval(rows, name) :
           /\ k \in Mine(rows, name) /\ rows[k].last = end
           /\ rows[k].status = StatusIn(log[end], name)
<1>1. end \in 1..end
  OBVIOUS
<1>2. PICK k \in Mine(rows, name) : rows[k].first <= end /\ end <= rows[k].last
  BY <1>1 DEF Encodes
<1>3. IsRun(log, rows[k], end)
  BY DEF Encodes
<1>4. rows[k].last \in Nat /\ rows[k].first \in Nat /\ rows[k].unit = name
  BY WithinRow DEF Mine
<1>5. rows[k].last = end
  BY <1>2, <1>3, <1>4 DEF IsRun
<1>6. end \in rows[k].first..rows[k].last
  BY <1>2, <1>4, <1>5
<1>7. rows[k].status = StatusIn(log[end], name)
  BY <1>3, <1>4, <1>6 DEF IsRun
<1>8. k \in LatestInterval(rows, name)
  BY <1>5, OneRunEndsLast
<1>9. QED
  BY <1>5, <1>7, <1>8

\* The latest interval is extended: its run goes on.
LEMMA ExtendEncodes ==
  ASSUME NEW log, NEW prior, NEW rows, NEW before \in Nat, NEW u \in Unit,
         NEW k, NEW R,
         Within(rows, before + 1), Encodes(log, rows, u.unit, before),
         Writes(prior, rows, u, before + 1, k, R), k \in DOMAIN rows,
         StatusIn(log[before + 1], u.unit) = u.status,
         StatusIn(prior, u.unit) = IF before = 0 THEN NoUnit
                                   ELSE StatusIn(log[before], u.unit)
  PROVE  Encodes(log, R, u.unit, before + 1)
<1> DEFINE at == before + 1
<1>1. at \in Nat /\ before < at /\ at = before + 1
  OBVIOUS
<1>2. /\ Within(rows, at) /\ Writes(prior, rows, u, at, k, R)
      /\ StatusIn(log[at], u.unit) = u.status
  OBVIOUS
<1> HIDE DEF at
<1>3. /\ Within(R, at) /\ k \in DOMAIN R /\ DOMAIN rows = DOMAIN R
      /\ \A j \in DOMAIN R : j # k => R[j] = rows[j]
      /\ R[k].unit = u.unit /\ R[k].status = u.status /\ R[k].last = at
      /\ k \in LatestInterval(rows, u.unit) /\ rows[k].status = u.status
      /\ StatusIn(prior, u.unit) # NoUnit /\ R[k].first = rows[k].first
  BY <1>2 DEF Writes
<1>4. 1 <= before /\ StatusIn(log[before], u.unit) # NoUnit
  BY <1>3
<1>5. k \in Mine(rows, u.unit) /\ Mine(R, u.unit) = Mine(rows, u.unit)
  BY <1>3 DEF Mine, LatestInterval
<1>6. rows[k].last = before
  <2>1. PICK i \in LatestInterval(rows, u.unit) : rows[i].last = before
    BY <1>1, <1>2, <1>4, SeenLast
  <2>2. i = k
    BY <1>1, <1>2, <1>3, <2>1, LatestIsOne
  <2>3. QED
    BY <2>1, <2>2
<1>7. \A j \in Mine(rows, u.unit) : j # k => rows[j].last < before
  BY <1>1, <1>2, <1>5, <1>6, OneRunEndsLast
<1>8. rows[k].first \in Nat /\ 1 <= rows[k].first /\ rows[k].first <= before
  BY <1>1, <1>2, <1>3, <1>6, WithinRow
<1>9. ASSUME NEW j \in Mine(R, u.unit)
      PROVE  IsRun(log, R[j], at)
  <2>1. CASE j = k
    <3>1. IsRun(log, rows[k], before) /\ rows[k].unit = u.unit
      BY <1>5 DEF Encodes, Mine
    <3>2. ASSUME NEW t \in R[k].first..R[k].last
          PROVE  StatusIn(log[t], u.unit) = u.status
      <4>1. t \in rows[k].first..rows[k].last \/ t = at
        BY <1>1, <1>3, <1>6, <1>8
      <4>2. QED
        BY <1>2, <1>3, <3>1, <4>1 DEF IsRun
    <3>3. 1 < R[k].first => StatusIn(log[R[k].first - 1], u.unit) # u.status
      BY <1>3, <3>1 DEF IsRun
    <3>4. ~(at < at) /\ at <= at
      BY <1>1
    <3>5. QED
      BY <1>3, <2>1, <3>2, <3>3, <3>4 DEF IsRun
  <2>2. CASE j # k
    <3>1. /\ R[j] = rows[j] /\ IsRun(log, rows[j], before)
          /\ rows[j].last < before /\ rows[j].last \in Nat
      <4>1. j \in Mine(rows, u.unit) /\ j \in DOMAIN R /\ j \in DOMAIN rows
        BY <1>5 DEF Mine
      <4>2. rows[j].last \in Nat
        BY <1>1, <1>2, <4>1, WithinRow
      <4>3. QED
        BY <1>3, <1>7, <2>2, <4>1, <4>2 DEF Encodes
    <3>2. rows[j].last <= at
      BY <1>1, <3>1
    <3>3. QED
      BY <3>1, <3>2 DEF IsRun
  <2>3. QED
    BY <2>1, <2>2
<1>10. ASSUME NEW t \in 1..at, StatusIn(log[t], u.unit) # NoUnit
       PROVE  \E i \in Mine(R, u.unit) : R[i].first <= t /\ t <= R[i].last
  <2>1. CASE t = at
    BY <1>1, <1>3, <1>5, <1>8, <2>1
  <2>2. CASE t # at
    <3>1. t \in 1..before /\ t <= at
      BY <1>1, <2>2
    <3>2. PICK i \in Mine(rows, u.unit) :
                 rows[i].first <= t /\ t <= rows[i].last
      BY <1>10, <3>1 DEF Encodes
    <3>3. CASE i = k
      BY <1>3, <1>5, <3>1, <3>2, <3>3
    <3>4. CASE i # k
      <4>1. R[i] = rows[i]
        BY <1>3, <1>5, <3>4 DEF Mine
      <4>2. QED
        BY <1>5, <3>2, <4>1
    <3>5. QED
      BY <3>3, <3>4
  <2>3. QED
    BY <2>1, <2>2
<1>11. ASSUME NEW i \in Mine(R, u.unit), NEW j \in Mine(R, u.unit), i # j
       PROVE  R[i].last < R[j].first \/ R[j].last < R[i].first
  <2>1. \A l \in Mine(R, u.unit) : l # k =>
          R[l] = rows[l] /\ rows[l].last < rows[k].first
    <3>1. ASSUME NEW l \in Mine(R, u.unit), l # k
          PROVE  R[l] = rows[l] /\ rows[l].last < rows[k].first
      <4>1. l \in Mine(rows, u.unit) /\ l \in DOMAIN rows /\ R[l] = rows[l]
        BY <1>3, <1>5, <3>1 DEF Mine
      <4>2. \/ rows[l].last < rows[k].first
            \/ rows[k].last < rows[l].first
        BY <1>5, <3>1, <4>1 DEF Encodes
      <4>3. /\ rows[l].first \in Nat /\ rows[l].last \in Nat
            /\ rows[l].first <= rows[l].last
        BY <1>1, <1>2, <4>1, WithinRow
      <4>4. rows[l].last < before
        BY <1>7, <3>1, <4>1
      <4>5. QED
        BY <1>6, <4>1, <4>2, <4>3, <4>4
    <3>2. QED
      BY <3>1
  <2>2. CASE i = k
    BY <1>3, <1>11, <2>1, <2>2
  <2>3. CASE j = k
    BY <1>3, <1>11, <2>1, <2>3
  <2>4. CASE i # k /\ j # k
    BY <1>5, <1>11, <2>1, <2>4 DEF Encodes
  <2>5. QED
    BY <2>2, <2>3, <2>4
<1>12. Encodes(log, R, u.unit, at)
  BY <1>9, <1>10, <1>11 DEF Encodes
<1>13. QED
  BY <1>1, <1>12

\* A new interval is appended: a run starts.
LEMMA AppendEncodes ==
  ASSUME NEW log, NEW prior, NEW rows, NEW before \in Nat, NEW u \in Unit,
         NEW k, NEW R,
         Within(rows, before + 1), Encodes(log, rows, u.unit, before),
         Writes(prior, rows, u, before + 1, k, R), k \notin DOMAIN rows,
         StatusIn(log[before + 1], u.unit) = u.status,
         StatusIn(prior, u.unit) = IF before = 0 THEN NoUnit
                                   ELSE StatusIn(log[before], u.unit)
  PROVE  Encodes(log, R, u.unit, before + 1)
<1> DEFINE at == before + 1
<1>1. at \in Nat /\ before < at /\ at = before + 1 /\ at - 1 = before
  OBVIOUS
<1>2. /\ Within(rows, at) /\ Writes(prior, rows, u, at, k, R)
      /\ StatusIn(log[at], u.unit) = u.status
  OBVIOUS
<1> HIDE DEF at
<1>3. /\ k \in DOMAIN R /\ DOMAIN rows \subseteq DOMAIN R
      /\ \A j \in DOMAIN R : j # k => j \in DOMAIN rows /\ R[j] = rows[j]
      /\ R[k].unit = u.unit /\ R[k].status = u.status
      /\ R[k].last = at /\ R[k].first = at
      /\ \/ StatusIn(prior, u.unit) = NoUnit
         \/ \A j \in LatestInterval(rows, u.unit) : rows[j].status # u.status
  BY <1>2 DEF Writes
<1>4. u.status # NoUnit
  BY NoUnitAssumption DEF Unit
<1>5. /\ k \in Mine(R, u.unit)
      /\ \A j \in Mine(R, u.unit) : j # k =>
           j \in Mine(rows, u.unit) /\ R[j] = rows[j]
      /\ \A j \in Mine(rows, u.unit) : j \in Mine(R, u.unit) /\ R[j] = rows[j]
  BY <1>3 DEF Mine
<1>6. 1 <= before => StatusIn(log[before], u.unit) # u.status
  <2>1. SUFFICES ASSUME 1 <= before, StatusIn(log[before], u.unit) = u.status
                 PROVE  FALSE
    OBVIOUS
  <2>2. StatusIn(prior, u.unit) = u.status
    BY <2>1
  <2>3. StatusIn(log[before], u.unit) # NoUnit
    BY <1>4, <2>1
  <2>4. PICK i \in LatestInterval(rows, u.unit) :
               rows[i].status = StatusIn(log[before], u.unit)
    BY <1>1, <1>2, <2>1, <2>3, SeenLast
  <2>5. QED
    BY <1>3, <1>4, <2>1, <2>2, <2>4
<1>7. ASSUME NEW j \in Mine(R, u.unit)
      PROVE  IsRun(log, R[j], at)
  <2>1. CASE j = k
    <3>1. \A t \in at..at : t = at
      BY <1>1
    <3>2. ~(at < at) /\ at <= at /\ (1 < at => 1 <= before)
      BY <1>1
    <3>3. \A t \in R[k].first..R[k].last : StatusIn(log[t], u.unit) = u.status
      BY <1>2, <1>3, <3>1
    <3>4. 1 < R[k].first => StatusIn(log[R[k].first - 1], u.unit) # u.status
      BY <1>1, <1>3, <1>6, <3>2
    <3>5. QED
      BY <1>3, <2>1, <3>2, <3>3, <3>4 DEF IsRun
  <2>2. CASE j # k
    <3>1. /\ j \in Mine(rows, u.unit) /\ R[j] = rows[j]
          /\ IsRun(log, rows[j], before) /\ rows[j].unit = u.unit
      BY <1>5, <2>2 DEF Encodes, Mine
    <3>2. /\ rows[j].last \in Nat /\ rows[j].first \in Nat
          /\ 1 <= rows[j].first /\ rows[j].first <= rows[j].last
          /\ rows[j].status \in UnitStatus
      BY <1>1, <1>2, <3>1, WithinRow DEF Mine
    <3>3. rows[j].last <= before
      BY <3>1 DEF IsRun
    <3>4. rows[j].last <= at
      BY <1>1, <3>2, <3>3
    <3>5. CASE rows[j].last < before
      BY <3>1, <3>4, <3>5 DEF IsRun
    <3>6. CASE rows[j].last = before
      <4>1. j \in LatestInterval(rows, u.unit)
        BY <1>1, <1>2, <3>1, <3>6, OneRunEndsLast
      <4>2. before \in rows[j].first..rows[j].last /\ before # 0
        BY <3>2, <3>6
      <4>3. StatusIn(log[before], u.unit) = rows[j].status
        BY <3>1, <4>2 DEF IsRun
      <4>4. StatusIn(prior, u.unit) # NoUnit
        BY <3>2, <4>2, <4>3, NoUnitAssumption
      <4>5. rows[j].status # u.status
        BY <1>3, <4>1, <4>4
      <4>6. StatusIn(log[rows[j].last + 1], rows[j].unit) # rows[j].status
        BY <1>1, <1>2, <3>1, <3>6, <4>5
      <4>7. QED
        BY <3>1, <3>4, <4>6 DEF IsRun
    <3>7. QED
      BY <3>2, <3>3, <3>5, <3>6
  <2>3. QED
    BY <2>1, <2>2
<1>8. ASSUME NEW t \in 1..at, StatusIn(log[t], u.unit) # NoUnit
      PROVE  \E i \in Mine(R, u.unit) : R[i].first <= t /\ t <= R[i].last
  <2>1. CASE t = at
    <3>1. at <= at
      BY <1>1
    <3>2. QED
      BY <1>3, <1>5, <2>1, <3>1
  <2>2. CASE t # at
    <3>1. t \in 1..before
      BY <1>1, <2>2
    <3>2. PICK i \in Mine(rows, u.unit) :
                 rows[i].first <= t /\ t <= rows[i].last
      BY <1>8, <3>1 DEF Encodes
    <3>3. QED
      BY <1>5, <3>2
  <2>3. QED
    BY <2>1, <2>2
<1>9. ASSUME NEW i \in Mine(R, u.unit), NEW j \in Mine(R, u.unit), i # j
      PROVE  R[i].last < R[j].first \/ R[j].last < R[i].first
  <2>1. \A l \in Mine(R, u.unit) : l # k => R[l].last < at
    <3>1. ASSUME NEW l \in Mine(R, u.unit), l # k
          PROVE  R[l].last < at
      <4>1. l \in Mine(rows, u.unit) /\ R[l] = rows[l]
        BY <1>5, <3>1
      <4>2. rows[l].last <= before
        BY <4>1 DEF Encodes, IsRun
      <4>3. rows[l].last \in Nat
        BY <1>1, <1>2, <4>1, WithinRow DEF Mine
      <4>4. QED
        BY <1>1, <4>1, <4>2, <4>3
    <3>2. QED
      BY <3>1
  <2>2. CASE i = k
    BY <1>3, <1>9, <2>1, <2>2
  <2>3. CASE j = k
    BY <1>3, <1>9, <2>1, <2>3
  <2>4. CASE i # k /\ j # k
    BY <1>5, <1>9, <2>4 DEF Encodes
  <2>5. QED
    BY <2>2, <2>3, <2>4
<1>10. Encodes(log, R, u.unit, at)
  BY <1>7, <1>8, <1>9 DEF Encodes
<1>11. QED
  BY <1>1, <1>10

\* The other units' runs stay encoded.
LEMMA OthersStayEncoded ==
  ASSUME NEW log, NEW prior, NEW rows, NEW at, NEW u, NEW k, NEW R,
         Writes(prior, rows, u, at, k, R), NEW name, name # u.unit, NEW end,
         Encodes(log, rows, name, end)
  PROVE  Encodes(log, R, name, end)
<1>1. ASSUME NEW i \in DOMAIN R, R[i].unit = name
      PROVE  i \in DOMAIN rows /\ R[i] = rows[i]
  BY <1>1 DEF Writes
<1>2. ASSUME NEW i \in DOMAIN rows, rows[i].unit = name
      PROVE  i \in DOMAIN R /\ R[i] = rows[i]
  <2>1. i # k
    BY <1>2 DEF Writes, LatestInterval
  <2>2. QED
    BY <2>1 DEF Writes
<1>3. Mine(R, name) = Mine(rows, name)
      /\ \A i \in Mine(rows, name) : R[i] = rows[i]
  BY <1>1, <1>2 DEF Mine
<1>4. QED
  BY <1>3 DEF Encodes

\* A unit that is not listed any more: its run has ended.
LEMMA AbsentStaysEncoded ==
  ASSUME NEW log, NEW rows, NEW name, NEW before \in Nat,
         Within(rows, before + 1), Encodes(log, rows, name, before),
         StatusIn(log[before + 1], name) = NoUnit
  PROVE  Encodes(log, rows, name, before + 1)
<1> DEFINE at == before + 1
<1>1. at \in Nat /\ before < at /\ at = before + 1
  OBVIOUS
<1>2. Within(rows, at) /\ StatusIn(log[at], name) = NoUnit
  OBVIOUS
<1> HIDE DEF at
<1>3. ASSUME NEW k \in Mine(rows, name)
      PROVE  IsRun(log, rows[k], at)
  <2>1. /\ rows[k].last \in Nat /\ rows[k].status # NoUnit
        /\ rows[k].unit = name
    BY <1>1, <1>2, WithinRow, NoUnitAssumption DEF Mine
  <2>2. IsRun(log, rows[k], before)
    BY DEF Encodes
  <2>3. rows[k].last <= before
    BY <2>2 DEF IsRun
  <2>4. rows[k].last <= at /\ (rows[k].last < before \/ rows[k].last + 1 = at)
    BY <1>1, <2>1, <2>3
  <2>5. StatusIn(log[rows[k].last + 1], rows[k].unit) # rows[k].status
    BY <1>2, <2>1, <2>2, <2>4 DEF IsRun
  <2>6. QED
    BY <2>2, <2>4, <2>5 DEF IsRun
<1>4. ASSUME NEW t \in 1..at, StatusIn(log[t], name) # NoUnit
      PROVE  t \in 1..before
  BY <1>1, <1>2, <1>4
<1>5. Encodes(log, rows, name, at)
  BY <1>3, <1>4 DEF Encodes
<1>6. QED
  BY <1>1, <1>5

\* Only the observations up to the end matter.
LEMMA SameLogEncodes ==
  ASSUME NEW log, NEW other, NEW rows, NEW name, NEW end \in Nat,
         Within(rows, end), \A t \in 1..end : other[t] = log[t],
         Encodes(log, rows, name, end)
  PROVE  Encodes(other, rows, name, end)
<1>1. ASSUME NEW k \in Mine(rows, name)
      PROVE  IsRun(other, rows[k], end)
  <2>1. /\ rows[k].first \in Nat /\ rows[k].last \in Nat
        /\ 1 <= rows[k].first /\ rows[k].first <= rows[k].last
        /\ rows[k].last <= end
    BY WithinRow DEF Mine
  <2>2. IsRun(log, rows[k], end)
    BY DEF Encodes
  <2>3. \A t \in rows[k].first..rows[k].last : other[t] = log[t]
    BY <2>1
  <2>4. 1 < rows[k].first => other[rows[k].first - 1] = log[rows[k].first - 1]
    <3>1. 1 < rows[k].first => rows[k].first - 1 \in 1..end
      BY <2>1
    <3>2. QED
      BY <3>1
  <2>5. rows[k].last < end => other[rows[k].last + 1] = log[rows[k].last + 1]
    <3>1. rows[k].last < end => rows[k].last + 1 \in 1..end
      BY <2>1
    <3>2. QED
      BY <3>1
  <2>6. QED
    BY <2>2, <2>3, <2>4, <2>5 DEF IsRun
<1>2. QED
  BY <1>1 DEF Encodes

-----------------------------------------------------------------------------
(* A whole list that names no unit twice.                                  *)

NoneTwice(list) ==
  \A i, j \in DOMAIN list : list[i].unit = list[j].unit => i = j

\* The loop has come to the unit among the first n entries of the list.
Done(list, n, name) == \E i \in 1..n : list[i].unit = name

LEMMA StepEncodes ==
  ASSUME NEW log, NEW prior, NEW rows, NEW before \in Nat, NEW u \in Unit,
         NEW R, Within(rows, before + 1), Encodes(log, rows, u.unit, before),
         \E k : Writes(prior, rows, u, before + 1, k, R),
         StatusIn(log[before + 1], u.unit) = u.status,
         StatusIn(prior, u.unit) = IF before = 0 THEN NoUnit
                                   ELSE StatusIn(log[before], u.unit)
  PROVE  Encodes(log, R, u.unit, before + 1)
<1>1. PICK k : Writes(prior, rows, u, before + 1, k, R)
  OBVIOUS
<1>2. CASE k \in DOMAIN rows
  BY <1>1, <1>2, ExtendEncodes
<1>3. CASE k \notin DOMAIN rows
  BY <1>1, <1>3, AppendEncodes
<1>4. QED
  BY <1>2, <1>3

LEMMA StepsEncode ==
  ASSUME NEW log, NEW prior, NEW rows, NEW list \in Seq(Unit),
         NEW before \in Nat, NEW h,
         Within(rows, before + 1), Steps(prior, rows, list, before + 1, h),
         NoneTwice(list), log[before + 1] = list,
         \A name \in UnitName :
           StatusIn(prior, name) = IF before = 0 THEN NoUnit
                                   ELSE StatusIn(log[before], name),
         \A name \in UnitName : Encodes(log, rows, name, before)
  PROVE  \A n \in Nat : n <= Len(list) =>
           \A name \in UnitName :
             Encodes(log, h[n], name,
                     IF Done(list, n, name) THEN before + 1 ELSE before)
<1> DEFINE at == before + 1
           Good(n) == \A name \in UnitName :
                        Encodes(log, h[n], name,
                                IF Done(list, n, name) THEN at ELSE before)
           S == {n \in Nat : n <= Len(list) => Good(n)}
<1>1. at \in Nat /\ 1 <= at /\ Len(list) \in Nat /\ DOMAIN list = 1..Len(list)
  BY LenProperties
<1>2. 0 \in S
  <2>1. \A name : ~Done(list, 0, name)
    BY DEF Done
  <2>2. h[0] = rows
    BY DEF Steps
  <2>3. Good(0)
    BY <2>1, <2>2
  <2>4. QED
    BY <2>3
<1>3. ASSUME NEW n \in S
      PROVE  n + 1 \in S
  <2>1. n \in Nat /\ n + 1 \in Nat
    OBVIOUS
  <2>2. ASSUME n + 1 <= Len(list), NEW name \in UnitName
        PROVE  Encodes(log, h[n + 1], name,
                       IF Done(list, n + 1, name) THEN at ELSE before)
    <3>1. n <= Len(list)
      BY <1>1, <2>1, <2>2
    <3>2. Encodes(log, h[n], name, IF Done(list, n, name) THEN at ELSE before)
      BY <3>1
    <3>3. Within(h[n], at)
      BY <1>1, <2>1, <3>1, StepsWithin
    <3> DEFINE u == list[n + 1]
    <3>4. u \in Unit /\ \E k : Writes(prior, h[n], u, at, k, h[n + 1])
      BY <1>1, <2>1, <2>2, <3>3, StepWrites
    <3>5. /\ n + 1 \in 1..(n + 1) /\ n + 1 \in DOMAIN list
          /\ \A i \in 1..n : i \in DOMAIN list /\ i \in 1..(n + 1) /\ i # n + 1
          /\ \A i \in 1..(n + 1) : i \in 1..n \/ i = n + 1
      BY <1>1, <2>1, <2>2
    <3>6. CASE name = u.unit
      <4>1. Done(list, n + 1, name)
        BY <3>5, <3>6 DEF Done
      <4>2. ~Done(list, n, name)
        BY <3>5, <3>6 DEF Done, NoneTwice
      <4>3. StatusIn(list, u.unit) = u.status
        <5>1. \A j \in DOMAIN list : list[j].unit = list[n + 1].unit
                                       => j <= n + 1
          <6>1. ASSUME NEW j \in DOMAIN list, list[j].unit = list[n + 1].unit
                PROVE  j <= n + 1
            <7>1. j = n + 1
              BY <3>5, <6>1 DEF NoneTwice
            <7>2. QED
              BY <2>1, <7>1
          <6>2. QED
            BY <6>1
        <5>2. QED
          BY <3>5, <5>1, StatusOfLast
      <4>4. StatusIn(log[before + 1], u.unit) = u.status
        BY <4>3
      <4>5. Encodes(log, h[n], u.unit, before)
        BY <3>2, <3>6, <4>2
      <4>6. StatusIn(prior, u.unit) = IF before = 0 THEN NoUnit
                                      ELSE StatusIn(log[before], u.unit)
        BY <3>6
      <4> HIDE DEF u
      <4>7. Encodes(log, h[n + 1], u.unit, before + 1)
        BY <3>3, <3>4, <4>4, <4>5, <4>6, StepEncodes
      <4>8. QED
        BY <3>6, <4>1, <4>7
    <3>7. CASE name # u.unit
      <4>1. Done(list, n + 1, name) <=> Done(list, n, name)
        BY <3>5, <3>7 DEF Done
      <4> DEFINE end == IF Done(list, n, name) THEN at ELSE before
      <4>2. Encodes(log, h[n], name, end)
        BY <3>2
      <4> HIDE DEF u, end
      <4>3. Encodes(log, h[n + 1], name, end)
        BY <3>4, <3>7, <4>2, OthersStayEncoded
      <4>4. QED
        BY <4>1, <4>3 DEF end
    <3>8. QED
      BY <3>6, <3>7
  <2>3. QED
    BY <2>1, <2>2
<1>4. S = Nat
  <2>1. S \subseteq Nat
    OBVIOUS
  <2> HIDE DEF S
  <2>2. QED
    BY <1>2, <1>3, <2>1, EveryNatural
<1>5. QED
  BY <1>4

\* An observation leaves the encoding of the observations so far.
LEMMA SyncedEncodes ==
  ASSUME NEW log, NEW prior, NEW rows, NEW list \in Seq(Unit),
         NEW before \in Nat,
         Within(rows, before), NoneTwice(list), log[before + 1] = list,
         \A name \in UnitName :
           StatusIn(prior, name) = IF before = 0 THEN NoUnit
                                   ELSE StatusIn(log[before], name),
         \A name \in UnitName : Encodes(log, rows, name, before),
         NEW name \in UnitName
  PROVE  Encodes(log, SyncUnitHistory(prior, rows, list, before + 1), name,
                 before + 1)
<1> DEFINE at == before + 1
<1>1. at \in Nat /\ 1 <= at /\ before <= at /\ Len(list) \in Nat
      /\ Len(list) <= Len(list) /\ DOMAIN list = 1..Len(list)
  BY LenProperties
<1>2. PICK h : /\ SyncUnitHistory(prior, rows, list, at) = h[Len(list)]
               /\ Steps(prior, rows, list, at, h)
  BY <1>1, SyncedUnitByUnit
<1>3. Within(rows, at)
  BY <1>1, WithinLater
<1>4. Within(h[Len(list)], at)
  BY <1>1, <1>2, <1>3, StepsWithin
<1>5. Encodes(log, h[Len(list)], name,
              IF Done(list, Len(list), name) THEN at ELSE before)
  BY <1>1, <1>2, <1>3, StepsEncode
<1>6. CASE Done(list, Len(list), name)
  BY <1>2, <1>5, <1>6
<1>7. CASE ~Done(list, Len(list), name)
  <2>1. StatusIn(log[before + 1], name) = NoUnit
    BY <1>1, <1>7, StatusOfAbsent DEF Done
  <2>2. Encodes(log, h[Len(list)], name, before + 1)
    BY <1>4, <1>5, <1>7, <2>1, AbsentStaysEncoded
  <2>3. QED
    BY <1>2, <2>2
<1>8. QED
  BY <1>6, <1>7

-----------------------------------------------------------------------------
(* The history of every reachable state, until a backfill rewrites it.     *)

RunsInv ==
  rewrittenAt = 0 =>
    /\ units = IF now = 0 THEN <<>> ELSE observed[now]
    /\ \A name \in UnitName : Encodes(observed, intervals, name, now)

LEMMA EncodedAreRuns ==
  ASSUME UnitBase,
         \A name \in UnitName : Encodes(observed, intervals, name, now)
  PROVE  ToSet(intervals) = Runs /\ IsInjective(intervals)
<1>1. now \in Nat /\ Within(intervals, now)
  BY NowNatural DEF UnitBase
<1>2. \A k \in DOMAIN intervals :
        /\ intervals[k] \in Interval
        /\ intervals[k].unit \in UnitName /\ intervals[k].status \in UnitStatus
        /\ intervals[k].first \in Nat /\ intervals[k].last \in Nat
        /\ 1 <= intervals[k].first /\ intervals[k].first <= intervals[k].last
        /\ intervals[k].last <= now
        /\ k \in Mine(intervals, intervals[k].unit)
  BY <1>1, WithinRow DEF Mine
<1>3. ASSUME NEW k \in DOMAIN intervals
      PROVE  intervals[k] \in Runs
  <2> DEFINE r == intervals[k]
  <2>1. IsRun(observed, r, now)
    BY <1>2 DEF Encodes
  <2>2. r \in Interval /\ r.first \in 1..now /\ r.last \in 1..now
        /\ r.first <= r.last
    BY <1>1, <1>2
  <2>3. r \in [unit : UnitName, status : UnitStatus,
               first : 1..now, last : 1..now]
    BY <2>2 DEF Interval
  <2> HIDE DEF r
  <2>4. r \in Runs
    BY <2>1, <2>2, <2>3 DEF IsRun, Runs, Listed
  <2>5. QED
    BY <2>4 DEF r
<1>4. ASSUME NEW r \in Runs
      PROVE  \E k \in DOMAIN intervals : intervals[k] = r
  <2>1. /\ r \in [unit : UnitName, status : UnitStatus,
                  first : 1..now, last : 1..now]
        /\ r.first \in 1..now /\ r.last \in 1..now /\ r.first <= r.last
        /\ r.unit \in UnitName /\ r.status \in UnitStatus
        /\ \A t \in r.first..r.last : StatusIn(observed[t], r.unit) = r.status
        /\ r.first > 1 => StatusIn(observed[r.first - 1], r.unit) # r.status
        /\ r.last < now => StatusIn(observed[r.last + 1], r.unit) # r.status
    BY DEF Runs, Listed
  <2>2. StatusIn(observed[r.first], r.unit) = r.status
    BY <2>1
  <2>3. r.status # NoUnit
    BY <2>1, NoUnitAssumption
  <2>4. PICK k \in Mine(intervals, r.unit) :
               intervals[k].first <= r.first /\ r.first <= intervals[k].last
    BY <2>1, <2>2, <2>3 DEF Encodes
  <2> DEFINE i == intervals[k]
  <2>5. k \in DOMAIN intervals /\ i.unit = r.unit
    BY <2>4 DEF Mine
  <2>6. /\ i \in Interval /\ i.first \in Nat /\ i.last \in Nat
        /\ 1 <= i.first /\ i.first <= i.last /\ i.last <= now
    BY <1>2, <2>5
  <2>7. IsRun(observed, i, now)
    BY <2>1, <2>4 DEF Encodes
  <2>8. i.first <= r.first /\ r.first <= i.last
    BY <2>4
  <2> HIDE DEF i
  <2>9. /\ i.last <= now
        /\ \A t \in i.first..i.last : StatusIn(observed[t], r.unit) = i.status
        /\ 1 < i.first => StatusIn(observed[i.first - 1], r.unit) # i.status
        /\ i.last < now => StatusIn(observed[i.last + 1], r.unit) # i.status
    BY <2>5, <2>7 DEF IsRun
  <2>10. i.status = r.status
    <3>1. r.first \in i.first..i.last
      BY <1>1, <2>1, <2>6, <2>8
    <3>2. QED
      BY <2>2, <2>9, <3>1
  <2>11. i.first = r.first
    <3>1. ~(i.first < r.first)
      <4>1. SUFFICES ASSUME i.first < r.first
                     PROVE  FALSE
        OBVIOUS
      <4>2. r.first - 1 \in i.first..i.last /\ r.first > 1
        BY <1>1, <2>1, <2>6, <2>8, <4>1
      <4>3. QED
        BY <2>1, <2>9, <2>10, <4>2
    <3>2. QED
      BY <1>1, <2>1, <2>6, <2>8, <3>1
  <2>12. i.last = r.last
    <3>1. ~(i.last < r.last)
      <4>1. SUFFICES ASSUME i.last < r.last
                     PROVE  FALSE
        OBVIOUS
      <4>2. i.last + 1 \in r.first..r.last /\ i.last < now
        BY <1>1, <2>1, <2>6, <2>8, <4>1
      <4>3. QED
        BY <2>1, <2>9, <2>10, <4>2
    <3>2. ~(r.last < i.last)
      <4>1. SUFFICES ASSUME r.last < i.last
                     PROVE  FALSE
        OBVIOUS
      <4>2. r.last + 1 \in i.first..i.last /\ r.last < now
        BY <1>1, <2>1, <2>6, <2>8, <4>1
      <4>3. QED
        BY <2>1, <2>9, <2>10, <4>2
    <3>3. QED
      BY <1>1, <2>1, <2>6, <3>1, <3>2
  <2>13. i = r
    <3>1. i = [unit |-> i.unit, status |-> i.status, first |-> i.first,
               last |-> i.last]
      BY <2>6 DEF Interval
    <3>2. r = [unit |-> r.unit, status |-> r.status, first |-> r.first,
               last |-> r.last]
      BY <2>1
    <3>3. QED
      BY <2>5, <2>10, <2>11, <2>12, <3>1, <3>2
  <2>14. QED
    BY <2>5, <2>13 DEF i
<1>5. IsInjective(intervals)
  <2>1. ASSUME NEW j \in DOMAIN intervals, NEW k \in DOMAIN intervals,
               intervals[j] = intervals[k], j # k
        PROVE  FALSE
    <3>1. /\ j \in Mine(intervals, intervals[k].unit)
          /\ k \in Mine(intervals, intervals[k].unit)
          /\ intervals[k].unit \in UnitName
      BY <1>2, <2>1
    <3>2. \/ intervals[j].last < intervals[k].first
          \/ intervals[k].last < intervals[j].first
      BY <2>1, <3>1 DEF Encodes
    <3>3. /\ intervals[k].first \in Nat /\ intervals[k].last \in Nat
          /\ intervals[k].first <= intervals[k].last
      BY <1>2
    <3>4. intervals[k].last < intervals[k].first
      BY <2>1, <3>2
    <3>5. QED
      BY <3>3, <3>4
  <2>2. QED
    BY <2>1 DEF IsInjective
<1>6. ToSet(intervals) = Runs
  BY <1>3, <1>4 DEF ToSet
<1>7. QED
  BY <1>5, <1>6

LEMMA UpsertKeepsRuns ==
  ASSUME UnitBase, RunsInv, NEW list \in UnitLists, Upsert(list),
         NoneTwice(list)
  PROVE  RunsInv'
<1>1. /\ now \in Nat /\ observed' = Append(observed, list) /\ units' = list
      /\ intervals' = SyncUnitHistory(units, intervals, list, now + 1)
      /\ rewrittenAt' = rewrittenAt
  BY NowNatural DEF Upsert
<1>2. list \in Seq(Unit)
  BY ListsAreUnits
<1>3. /\ now' = now + 1 /\ observed'[now + 1] = list
      /\ \A t \in 1..now : observed'[t] = observed[t]
  BY <1>1, AppendProperties DEF UnitBase, now
<1>4. SUFFICES ASSUME rewrittenAt = 0
               PROVE  \A name \in UnitName :
                        Encodes(observed', intervals', name, now + 1)
  <2>1. now + 1 # 0
    BY <1>1
  <2>2. QED
    BY <1>1, <1>3, <2>1 DEF RunsInv
<1>5. /\ units = IF now = 0 THEN <<>> ELSE observed[now]
      /\ \A name \in UnitName : Encodes(observed, intervals, name, now)
  BY <1>4 DEF RunsInv
<1>6. Within(intervals, now)
  BY DEF UnitBase
<1> DEFINE before == now
           log == observed'
           history == SyncUnitHistory(units, intervals, list, before + 1)
<1>7. \A name \in UnitName :
        StatusIn(units, name) = IF before = 0 THEN NoUnit
                                ELSE StatusIn(log[before], name)
  <2>1. CASE now = 0
    <3>1. units = <<>>
      BY <1>5, <2>1
    <3>2. \A name : StatusIn(units, name) = NoUnit
      BY <3>1, StatusOfAbsent
    <3>3. QED
      BY <2>1, <3>2
  <2>2. CASE now # 0
    <3>1. now \in 1..now
      BY <1>1, <2>2
    <3>2. units = log[before]
      BY <1>3, <1>5, <2>2, <3>1
    <3>3. QED
      BY <2>2, <3>2
  <2>3. QED
    BY <2>1, <2>2
<1>8. \A t \in 1..before : log[t] = observed[t]
  BY <1>3
<1>9. before \in Nat /\ Within(intervals, before) /\ log[before + 1] = list
  BY <1>1, <1>3, <1>6
<1>10. \A name \in UnitName : Encodes(observed, intervals, name, before)
  BY <1>5
<1>11. intervals' = history /\ now + 1 = before + 1
  BY <1>1
<1> HIDE DEF before, log
<1>12. \A name \in UnitName : Encodes(log, intervals, name, before)
  BY <1>8, <1>9, <1>10, SameLogEncodes
<1>13. \A name \in UnitName : Encodes(log, history, name, before + 1)
  <2>1. ASSUME NEW name \in UnitName
        PROVE  Encodes(log, history, name, before + 1)
    BY <1>2, <1>7, <1>9, <1>12, SyncedEncodes
  <2>2. QED
    BY <2>1
<1>14. QED
  BY <1>11, <1>13 DEF log

LEMMA RestKeepsRuns ==
  ASSUME UnitBase, RunsInv,
         \/ BackfillRead
         \/ BackfillWrite
         \/ BackfillAbort
         \/ UNCHANGED unitVars
  PROVE  RunsInv'
<1>1. CASE BackfillWrite
  <2>1. rewrittenAt' = now /\ 0 < now /\ now \in Nat
    BY <1>1, NowNatural DEF BackfillWrite, UnitBase
  <2>2. rewrittenAt' # 0
    BY <2>1
  <2>3. QED
    BY <2>2 DEF RunsInv
<1>2. CASE BackfillRead \/ BackfillAbort \/ UNCHANGED unitVars
  <2>1. UNCHANGED <<observed, units, intervals, rewrittenAt>> /\ now' = now
    BY <1>2 DEF BackfillRead, BackfillAbort, unitVars, now
  <2>2. QED
    BY <2>1 DEF RunsInv
<1>3. QED
  BY <1>1, <1>2

\* incident_units is the run-length encoding of the observations: one row
\* per maximal run of one status of one unit, whichever the order of the
\* units in a list (syncUnitHistory and syncUnit).  That holds for feeds that
\* name no unit twice in one list, and until a backfill rewrites the history
\* from raw.
THEOREM HistoryIsRunsCorrect ==
  ASSUME \A list \in UnitLists : NoneTwice(list)
  PROVE  UnitSpec => []HistoryIsRuns
<1>1. ASSUME UnitInit
      PROVE  RunsInv
  <2>1. /\ observed = <<>> /\ intervals = <<>> /\ units = <<>> /\ now = 0
        /\ DOMAIN intervals = {}
    BY <1>1 DEF UnitInit, now
  <2>2. \A name : Mine(intervals, name) = {}
    BY <2>1 DEF Mine
  <2>3. \A t \in 1..0 : FALSE
    OBVIOUS
  <2>4. \A name : Encodes(observed, intervals, name, 0)
    BY <2>2, <2>3 DEF Encodes
  <2>5. QED
    BY <2>1, <2>4 DEF RunsInv
<1>2. ASSUME UnitBase, RunsInv, [UnitNext]_unitVars
      PROVE  RunsInv'
  BY <1>2, UpsertKeepsRuns, RestKeepsRuns DEF UnitNext
<1>3. ASSUME UnitBase, RunsInv
      PROVE  HistoryIsRuns
  BY <1>3, EncodedAreRuns DEF RunsInv, HistoryIsRuns
<1>4. QED
  BY <1>1, <1>2, <1>3, BaseAlways, PTL DEF UnitSpec
=============================================================================
