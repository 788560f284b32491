# Phoenix feed: TLA+ verification

phoenix-feed polls the Phoenix Fire Department's public ArcGIS MapServer, keeps
every incident it has ever seen in PostgreSQL, decides when an incident is over,
and serves the result through an HTTP API. A second, independent pipeline turns
transcripts of radio dispatches into incidents of another source, `sdr_audio`.
This directory holds TLA+ models of that code, the TLC runs that check them on
small instances, and TLAPS proofs about the models for every instance. Paths
below are relative to the repository (`src/`).

## 1. Inventory

| Component | State it keeps | Operations | Talks to |
|---|---|---|---|
| Incident lifecycle: `internal/lifecycle/lifecycle.go`, `internal/store/store.go` (poll rows, MarkMissing, SweepCleared), `internal/store/incident_history.go` | `source_polls`, `incidents`, `incident_events` | `Manager.Apply`: RecordPoll / RecordPollPending, UpsertIncident per incident, MarkMissing, SweepCleared, RecordClearedEvents, MarkPollSucceeded / MarkPollFailed | called by the ingester; rows read by the API |
| Phoenix Fire client: `internal/source/phxfire/phxfire.go` | last payload hash, repetition count, unchanged-since, last authoritative count (memory only) | `Poll`: fetch, parse, count probe, classify | HTTP to ArcGIS; result to `Apply` |
| Ingester: `cmd/ingester/main.go` | backoff | loop of wait, poll, apply; restart | composes the two above |
| Unit history: `upsertIncidentSnapshot`, `syncUnitHistory`, `diffUnits` (`incident_history.go`, `delta.go`) | `incidents.units`, `incident_units`, unit deltas in `incident_events` | part of UpsertIncident's transaction | read by detail and history endpoints |
| Unit backfill: `cmd/backfill_units` | none of its own | rewrites units and intervals from `incidents.raw` | races with the ingester |
| SDR dispatch parser: `internal/dispatch/parser/worker.go`, `parser.go`, `natures.go` | `dispatch_transcripts.parsed_at`, `parsed_incident_id`, `geocode_attempts`; incidents `sdr-<id>` | one transaction per transcript: lock, gate, geocode, promote or give up; `ParseTranscript` finds the dispatch in the text | geocoder; janitor clears its incidents |
| Geocoder: `internal/geocode` | `geocode_cache` | Lookup, provider call, Store | Mapbox; shared by all workers |
| Transcript upload: `internal/api/admin_dispatch_transcripts.go`, `scripts/cactus_uploader/cactus_uploader.py` | `dispatch_transcripts` rows; the uploader's SQLite table of what it has sent or given up | upload, retry, quarantine; validate and insert | feeds the parser |
| Source status, active feed and detail: `internal/api/source_status.go`, `active.go`, `health.go`, `detail.go`, `sourcePollMeta`, `ListActiveIncidents` and `GetIncidentDetail` in `store.go` | none (derived from `source_polls`, `incidents`, `incident_events`) | classify ok / degraded / down; list active incidents with `is_last_known`; one incident with its events, or 404 | reads what `Apply` writes, one statement after the other |
| Janitor: `cmd/janitor`, `internal/store/retention.go` | `cleared_at` of SDR incidents, `raw`, `raw_dropped_at` | SDR sweep every minute, raw drop every six hours | next to parser and ingester |
| Contract canary: `internal/canary` | `contract_canary` rows | check the upstream contract, three zero counts in a row fail | health endpoint |
| Rate limiter: `internal/ratelimit` | map of token buckets (memory) | Allow | every API route |
| API keys, configuration, read-only handlers, web page, deployment | `api_keys`; none; none | lookups and formatting | |

Hard behaviour, component by component, and what makes each correct:

- **Lifecycle.** `Apply` is a sequence of separate transactions with no
  transaction around it: a crash, a refused call, or a committed call whose reply
  is lost can come between any two. Incidents must not be cleared too early
  (before `CLEAR_AFTER_MISSES` successful polls missed them), nor kept for ever;
  a published poll must have been applied in full; the event log must agree with
  the rows.
- **Client.** Its verdict depends on memory that a restart loses and on a second
  request (the count probe) that can fail. The memory must describe the run of
  identical answers exactly, and a collapse must be confirmed before it counts.
- **Ingester.** What the client counted and what the database took can differ.
- **Units.** Intervals are found again by a query over older intervals, and the
  backfill rewrites them from a stale read.
- **SDR worker and geocoder.** Several workers compete for rows; each may die in
  its transaction; the cache is written outside it. A transcript must be promoted
  at most once, never be lost without a cause, and always be consumed in the end.
- **Upload.** At-least-once delivery from a Windows box with a local state table;
  a lost reply must not duplicate a row, a bad file must not stop the others.
- **Status and feed.** The status is read in one query and the rows in another
  while `Apply` is half done; a detail is three or four statements. A degraded
  source must not look healthy, an incident the named success carried must be on
  the list and confirmed, and the parts of one answer must not contradict each other.
- **Parser.** Several dispatches and other speech share one recording, in two
  word orders. The fields of one dispatch must stay together.
- **Janitor.** Clears what the parser may be promoting again.
- **Canary.** The streak of empty checks is read back from stored rows, which are
  missing when an insert failed and count as zero when a fetch did; it must fail with
  the third zero and no earlier.
- **Rate limiter.** A bucket per identity.

## 2. Modules

| Module | Models | State and code |
|---|---|---|
| `Lifecycle` | `Manager.Apply` and its store calls | `polls` is `source_polls`; `content`, `last_seen_at`, `missing_since`, `cleared_at`, `reopen_count` are the columns of `incidents`; `events` is `incident_events`; `pc`, `snapshot`, `todo`, `cleared` are `Apply`'s position and locals |
| `LifecycleProperties` | - | its safety and action properties, the inductive invariant |
| `IncidentLifecycle` | - | abstract life of an incident: unknown, observed, missing, cleared, observed again |
| `LifecycleRefinement` | - | the refinement mapping from rows to phases |
| `PhxFire`, `PhxFireProperties` | `Client.Poll` with its memory, count probe and classification | `lastPayloadSHA`, `repeatedPayloads`, `unchangedSince`, `lastAuthoritativeCount` are the client's fields; `results` is every answer given |
| `Ingester`, `IngesterProperties` | the loop of `cmd/ingester` | Lifecycle and PhxFire side by side; `applied` and `recorded` say which result Apply has taken and which poll row records it |
| `UnitHistory` | the unit part of UpsertIncident, and the backfill | `units`, `intervals`, `deltas` of one incident; the backfill's read and write are two actions |
| `DispatchWorker`, `DispatchWorkerProperties` | the SDR worker, the geocode cache, the janitor's SDR sweep | the columns of `dispatch_transcripts`, the incident row and poll rows of each transcript, `geocode_cache`, and each worker's place in its transaction (`wpc`, `job`, `asked_at`) |
| `SourceStatus` | the waits and backoff of the ingester loop, the frozen rule, `classifySourceStatus` | every timestamp as its age: `unchangedFor` (the client's), `successFor`, `latest`, `latestUnchanged`, `failures` (what `sourcePollMeta` reads); `backoff` and `step` of the loop; `source` is what the MapServer does, `steadyFor` for how long |
| `ParseTranscript` | the function of that name: gate, the two word orders, groups of units, trailing unit, nature | no state; a text is the sequence of the patterns' matches (unit, channel, nature, address, stop, other word), and every operator is one function of `parser.go` |
| `ParseTranscriptProperties` | - | a recording that begins with one dispatch in any wording and goes on with anything: `text`, what it was `meant` to say, how much was `said` |
| `ActiveFeed` | the active list and the incident detail, beside `Lifecycle` | `rpc` is the statement a handler runs next; `meta` what `sourcePollMeta` returned, `found` the row of `getIncident`, `answer` what the last step answered; `notes` is the classification in `source_polls.notes` |
| `Canary` | `cmd/canary` and `internal/canary` | `contract_canary` is the log; `step` and `result` are the check's place and the row it makes; `baseline` what `FeatureCountBaseline` would answer |
| `TranscriptUpload`, `TranscriptUploadProperties` | `scripts/cactus_uploader` and the endpoint it posts to | `folder` is the directory of transcripts, `recorded` the SQLite table, `transcripts` the rows of `dispatch_transcripts`; `upc`, `listed`, `attempted`, `job`, `answer` are an uploader's place in `process_once` and its locals; `unread` is history |
| `LifecycleProofs`, `PhxFireProofs`, `IngesterProofs`, `UnitHistoryProofs`, `DispatchWorkerProofs`, `TranscriptProofs`, `ApiProofs`, `CanaryProofs` | - | theorems and their proofs: `LifecycleProofs` with the refinement, `TranscriptProofs` for upload and parser, `ApiProofs` for source status, active feed and detail |
| `MC*` | - | the instances TLC checks |

One action stands for one operation that commits on its own. A call to the
database has up to three outcomes in `Lifecycle` (`Reply`): it succeeds, it is
refused without effect, or it commits and the reply is lost. A process may die
between any two actions. Inside one database transaction nothing can be
observed, so a transaction is one action (UpsertIncident, Promote); where it
stays open across calls that can be observed (the SDR worker's geocoding), the
row lock it holds is modelled instead (`Locked`).

Three modules compose others. `Ingester` runs client and lifecycle in one loop.
`ActiveFeed` lets readers take their statements between any two store calls of
`Lifecycle`. `MCDispatchWorker` takes which transcripts pass the gate, and the address
of each, from `ParseTranscript` (its assumption `TranscriptsParse`).

Time in `Lifecycle`, `PhxFire` and `UnitHistory` is the number of the poll: one
ingester applies its polls one after the other, so `started_at` and `poll_id`
order them alike. `DispatchWorker` has a clock of its own. `SourceStatus` lets all ages
grow by the duration of each wait, poll and apply; a status only gets worse with age,
so nothing is missed by looking at the end of each.

## 3. Runs

| Run | Instance | Shows |
|---|---|---|
| `lifecycle` | 2 incidents, threshold 2, 5 polls, 1 fault | the safety and action properties of the lifecycle, and that it implements `IncidentLifecycle` |
| `ingester` | 2 incidents, 3 snapshots of 10, 2 and 0 features, frozen at 3 repetitions, collapse at 80 per cent, 4 polls, 1 fault, 1 restart | the client's memory and verdicts agree with a definition over the history of its answers; what client and lifecycle promise only together: rows come from authoritative answers, a frozen payload was published or met as many faults, a repeated snapshot clears nothing |
| `active_feed` | 1 polled incident, 1 of `sdr_audio`, threshold 2, 5 polls, 1 fault | lists and details read statement by statement while polls are applied: no incident of the named success is left out, what is confirmed was seen or promoted since, no 404 for a published incident, events that account for the row |
| `unit_history` | 2 units, 2 statuses, 6 listings, 5 observations, 1 backfill | until a backfill, intervals are the run-length encoding of the observations and deltas replay to the row; after one, the next observation repairs the open intervals |
| `parse_transcript` | 162 wordings of a channel-first dispatch with 1 token and a stop before it or nothing, 18 of an address-first one, and the empty recording; 4, 5 and 6 tokens after them | the first dispatch is taken whole and alone; once any recording passes the channel-first attempt, later speech changes nothing |
| `dispatch_worker` | 2 workers, 2 transcripts of one address, clock 2, 1 fault | promotion, loss, cache freshness and the janitor; under fairness every transcript is consumed |
| `transcript_upload` | 3 files, 2 uploaders, batches of 2, 1 fault | what is recorded as uploaded is stored, what is given up was refused or could not be read; under fairness everything else is delivered |
| `source_status` | interval 2, jitter 1, polls and applies of at most 1, ages up to 20 | a live source is reported ok and a frozen one down in the time the pacing allows |
| `canary` | 4 checks, threshold 3, baselines none, 0 and 1, answers of 0, 2 and 11 features and one that breaks the contract | the third zero count in a row fails and none before, whatever statement fails |

Three further runs each find a statement of the documentation or of a test violated:

| Run | Statement | What the code does |
|---|---|---|
| `clear_event` | `docs/architecture.md:75`: clearing emits a cleared event | two transactions; a fault between them loses the event for good |
| `clear_threshold` | `internal/lifecycle/lifecycle_integration_test.go:138-149`: after exactly five authoritative polls without it, an incident that is not cleared "remained active after five authoritative recovery misses"; `docs/architecture.md:75` and `docs/source-outage-runbook.md:100` say five too | the sixth miss clears: `SweepCleared` counts successful polls before `MarkPollSucceeded` makes the poll in flight one of them. The test is skipped unless `PHOENIX_FEED_TEST_DATABASE_URL` is set |
| `parse_two_dispatches` | `openspec/changes/parser-quality-fixes`, `specs/sdr-dispatch-incident-promotion/spec.md:5`: the parser "SHALL NOT combine fields from later distinct dispatches" | the channel-first attempt comes first: after a dispatch in the order nature, address, units, channel it pairs that channel and its units with the nature and address of the next call |

`clear_threshold` has the default threshold of five and no faults, and its trace is the
test's recovery. `ClearedInTime` bounds what the code does, one poll later.

Four smaller disagreements of documents and code, read off the models and without a
run of their own: a restart makes a frozen snapshot authoritative again (`README.md:135`), because the
count is in memory; a failed poll after frozen ones turns `down` into `degraded` until
the last success is overdue too (`docs/source-outage-runbook.md:7`); a unit listed
twice with two statuses gets two new interval rows at every poll (`db/schema.sql:79`);
a single zero count "remains passing" (`docs/architecture.md:106`), but not after two
checks that could not fetch, whose rows are read as zeros (`COALESCE`,
`store.go:1044-1069`).

**Bounds.** `MaxPolls` = 5 is what threshold 2 needs to see an incident observed,
missing, cleared and reopened with a failed poll in between; no guard looks back
further than the threshold. `MaxFaults` = 1 places one crash, refused call or
lost reply anywhere; the proofs below cover any number. In `ingester`,
`MaxResults` = 4 is a run of `FROZEN_REPEAT_COUNT` = 3 with a different answer before,
inside or after it, and `MaxRestarts` = 1 a restart anywhere; four polls are also what
an incident needs to be published, to be missed by as many successes as the threshold
asks, and to be swept by the next answer, unless that one is frozen. With one fault
`FrozenBeforePublished` allows no exception; the proofs cover more. The feature counts 10, 2 and 0 put one
collapse exactly at 80 per cent and one beyond. `MaxUpserts` and `MaxBackfills`
let a unit join, change, leave and return, with a backfill's read and write around
any observation. Two transcripts of one address share a cache entry and compete
for the order; `MaxClock` = 2 with the three windows 1 lets each of them elapse
between any two steps. In these configurations `CHECK_DEADLOCK` is FALSE because the
bounds bring the model to a stop; the program itself loops. `SourceStatus` needs no
bound on its steps, only on ages: beyond `Horizon` they are alike, and
`HorizonAssumption` puts it after every age a property speaks of. The instance
keeps the order of the defaults: a wait and two polls fit under `DegradedAfter`
(`RoomAssumption`), `DownAfter` equals `FrozenDownAfter`, the capped backoff is as long
as a wait. In `transcript_upload` file 1 names a recording that is not there, so it is
tried in every round and takes one of the two places of each batch; file 2 is refused by
the endpoint, file 3 is good. Both uploaders can hold the same file at every stage, and
the fault falls anywhere.

`active_feed` has one incident of each source: an answer's statement about one row
depends on no other.
Five polls see it cleared and brought back between the statements of one request, and
the fault falls anywhere in an apply. `canary` makes four checks, one more than the
threshold, so that a streak may begin late, break, or lose a row. Distances in
`parse_transcript` are counted in tokens: a group gap of four words is the code's,
`Reach` 3 stands for its 100 characters. `MaxSaid` depends on how the recording begins:
four tokens after a channel-first dispatch hold a whole further call; after an
address-first one five hold the stop, nature and address that complete it, a stop and one
token more; six after an empty beginning hold a whole call, a stop and one token more. So
`LaterSpeechIgnored` has a step to judge in recordings of all three kinds, also where the
fields are not those of a first dispatch. Speech before the dispatch does not name its units (see
`FirstDispatchExtracted` for what the code does then). `canary` checks deadlock, as the
process can always go on; `parse_transcript` and `active_feed` stop at their bounds.

**Fairness.** Two runs assume any. `dispatch_worker` assumes weak fairness of each
worker's own step (`WorkerStep`). `Worker.Run` returns only when its context ends and goes on
after every error; the Mapbox client has a timeout of ten seconds, and its limiter
waits a bounded time. Nothing is assumed of the clock, of arrivals, of the answers or
of the janitor. A rollback is not fair and happens at most `MaxFaults` times.
Arrivals are finitely many: under an endless stream of new transcripts the order by
attempts promises a retried one nothing, and the code does not either.

`transcript_upload` assumes weak fairness of each uploader's own step
(`UploaderStep`). `main` never leaves its loop, every exception of a round is caught in
it, and `requests.post` has a timeout. A process that died is taken to be started again,
as the logon task of its README does. Failures are not fair and happen at most
`MaxFaults` times; nothing is assumed of the transcriber, which may leave files
half-written and brings them in any order. `EventuallyDelivered` has a
precondition the code needs: fewer files that are tried for ever than a batch holds.
Files are tried in the order of their names and count before their outcome is known, so
a batch full of them starves every later file.

## 4. Proofs

TLAPS proves the following for every value of the constants.

- **`LifecycleProofs`**: type correctness, `SettledPollsStay`, `PublishedPollApplied`,
  `ClearedAfterMisses`, `ClearedInTime`, `TimelineOrdered`, `TimelineMatchesRow` and
  `PublishedClearsAreLogged`. Most follow from the inductive invariant `IInv` (theorem
  `InductiveInvariant`). None of the properties is inductive alone: `IInv` adds what
  `Apply` has done so far at each `pc` (`InFlight`, `Upserted`, `NotYetMarked`, `Marked`,
  `Swept`), the order of the three timestamps of a row (`RowOrder`), and that no event is
  later than the row's last change (`EventsBound`). It is proved in four layers, each
  from the ones before: `Base`, `Rows`, `Counts`, `Timeline`. `TimelineMatchesRow` is
  part of `LogsAgree` (a log begins with its one created event, holds as many reopenings
  as the row counts, and ends in a cleared event only at the row's `cleared_at`), kept by
  each append (`AppendAgrees`); `PublishedClearsAreLogged` needs `ClearsWritten`, what
  RecordClearedEvents has written when it hands over to MarkPollSucceeded. Assumed: the
  threshold is a positive number, "not in the payload" is no content, the set of
  incidents is arbitrary. The same module proves the refinement `ImplementsPromise`: the
  phases are functions of the row (`PhaseMap`); each action of `Lifecycle` is a step of
  `IncidentLifecycle` for the incidents it changes and a stutter for the others
  (`PromiseStep`), from `IInv`.
- **`PhxFireProofs`**: type correctness, `MemoryIsTheRun`, `FrozenFromThresholdOn` and
  `CollapseIsConfirmed`, for any payloads and policy. `ClientInv` is the inductive
  invariant: `RunMemory` ties the four remembered fields to the run of counted answers
  that ends now, `VerdictsInv` judges every past answer by the run it ended. The lemmas
  `RunsStand`, `RunGrows` and `RunAlone` say what one more answer does to a run.
- **`IngesterProofs`**: every behaviour of the ingester loop is one of the
  lifecycle and one of the client (`ComponentsKeptCorrect`), hence all theorems on both
  hold of the composed, restarting ingester (`IngesterInvariant`). Its own theorems rest
  on `LoopInv`: a row's content is that of the answer its last sight records
  (`Provenance`, for `RowsComeFromSnapshots`); polls are recorded in the order they were
  answered (`Pace`); every authoritative answer without a published poll was paid for
  with a fault (`Bill`, for `FrozenBeforePublished`). `FrozenFeedClearsNothing` then
  counts: a sweep that clears has `CLEAR_AFTER_MISSES` published polls behind it and one
  in hand, and that many equal answers are frozen. It is proved under
  `FROZEN_REPEAT_COUNT <= CLEAR_AFTER_MISSES + 1`.
- **`ApiProofs`**, active feed: readers change nothing (`FeedLeavesLifecycle`, so `IInv`
  holds beside them), type correctness, `ListedUnlessOutlived`, `ConfirmedForCause`,
  `NotFoundWasNeverPublished` and `DetailEventsCoverRow`. `ReaderInv` says what a
  reader holds between its statements (`Held`: the success it read stays one, the row it
  found stays and never counts fewer reopenings) and that every row names a poll that
  carried it as its last sight (`SeenInPoll`). Assumed: an incident promoted from a
  transcript is none of the polled source (`SdrAssumption`), so no poll carries it
  (`PromotedIsUnpolled`).
- **`ApiProofs`**, source status: type correctness, `LiveReportedOk` and
  `FrozenReportedDown` for every pacing and every threshold. `StatusInv` has three
  parts. `LoopBase`: types, and what the loop holds at each `step`. `LiveInv`: with a
  live source, until the poll that first asks it is applied `steadyFor` is short of the
  time that takes, and from then on the last attempt is a success no older than the wait
  and the work since. `RepeatingInv`: with a source that repeats, the run the client
  counts is nearly as old as the source is steady and each repetition took at most a
  cycle, until the last attempt is frozen and says how old the run is.
  Assumed, and met by the defaults: a wait and two polls fit under
  `SOURCE_DEGRADED_AFTER` (`RoomAssumption`), the jitter is less than the interval, the
  thresholds are in order (`ThresholdsAssumption`), and the ages are told apart beyond
  every deadline (`HorizonAssumption`, which is about the model and not the code).
- **`CanaryProofs`**: type correctness and `ZeroStreakFails` for any threshold, number of
  checks and failures. `CountIsRun` turns the count of rows into a statement about the
  last `Threshold - 1` of them; `StreakInv` keeps the row being made true of the log.
- **`UnitHistoryProofs`**: type correctness, `LatestIntervalIsCurrent`, `DeltasReplay`
  and `HistoryIsRuns`, for any unit lists, any number of observations and backfills.
  What `syncUnitHistory` leaves after a list is described position by position
  (`Writes`), and `Encodes` ties intervals and observations: one row for each maximal run
  of one status. `DeltasReplay` follows from `diffUnits` undoing itself (`Over`). The
  list of a snapshot and the log of deltas are of any length, so the proofs go by
  induction, with the induction on a set of naturals: the set of lengths that fail has
  no least member (`LeastNatural`, `EveryNatural`, from the well-foundedness of < in the
  library). `HistoryIsRuns` has a hypothesis, that no list of the feed names a unit
  twice (`NoneTwice`): without it the statement is false (section 3), and the other three
  do not need it. `NoUnitAssumption` says that "no longer listed" is no status.
- **`TranscriptProofs`**, upload: type correctness (a round attempts at most a batch),
  `RecordedIsStored` and `GivenUpForCause`, for every folder, any number of uploaders
  and faults. The second is not inductive: `UploadInv` adds that an uploader which is
  about to record holds a true outcome (`Truthful`: a stored row for a 200, a refused
  file for a 400, a failed read) whatever the others did meanwhile, which rests on rows
  never being deleted (`InsertKeeps`).
- **`TranscriptProofs`**, parser: `FirstDispatchExtracted` and `LaterSpeechIgnored`, for
  speech of any length before and after a dispatch, any gap and any reach. The invariant
  `SpeechInv` says that a recording which begins with a channel-first dispatch is
  complete and parsed as meant. `Shaped` says where the parts of such a recording are;
  every wording, with other speech before it or without, is so shaped (`DispatchShaped`,
  `ShapedBehind`), and what is so shaped is parsed (`ShapedChannel`, `ShapedNature`,
  `ShapedStart`: the walk back over the units ends at the stop; `ShapedParsed`). One more
  token then changes nothing: the first token of a kind stays the first, the channel
  sequence, the walk back, the units up to the address, the unit after it and the nature
  stay (`SegmentStays`), and so does the meaning (`CompleteStays`).
- **`DispatchWorkerProofs`**: type correctness (with the attempt cap),
  `PromotedOnce`, `ClearedStaysCleared`, `LostForCause`, `RefusalIsFresh`, for any
  number of workers, transcripts and addresses. The invariant `DispatchInv` has three
  layers: `Held` (a worker in a transaction holds an unconsumed row), `Promotions` (it
  holds it alone; incident, poll row and mark agree) and `Causes` (every cached failure
  is a refusal the provider gave, every worker about to give up a row knows why).

`TypeOK`, `IInv` and `SettledPollsStay` are proved and not repeated in a run's list.

Every safety and action property that a run checks is proved. Only model-checked:
`EventuallyParsed` and `EventuallyDelivered`, as liveness under fairness (and ENABLED
with it) is out of the prover's reach. The three violated statements of section 3 are
shown by TLC's counterexamples.

## 5. Not modelled, or abstracted

- The patterns of `ParseTranscript` (units, channels, natures, street names) and the
  cleaning of an address: the model starts from their matches. The patterns of
  intersections (`parser.go:22-23`) may run back over the words between channel and
  address; the code then finds nothing said before the address and answers
  `missing_nature` where the model, which takes the address for one token, parses. An
  address of that form is within the model only behind a stop. `ParseFeatures` and
  `parseUnits` are functions of their input without state; they appear as the set of
  snapshots and unit lists they can return.
- A transcript whose name does not begin with the time of its capture raises before it is
  posted, in every round. `TranscriptUpload` has such files only as misnamed ones, which
  take a place in every batch as well. The endpoint's validation is the set `Refused`.
- A payload that lists one incident twice: `ParseFeatures` (`phxfire.go:471-510`) does not
  remove it, and the second upsert would compare with the first of the same poll.
  `Snapshot` is a function of the incident.
- `DispatchWorker` reads the clock once where the code has two moments:
  `parsed_at = NOW()` is the start of the transaction (`worker.go:375`, `401`) and the
  model stamps its commit; `last_seen_at` of a promoted incident is the worker's clock
  before its insert; `Geocode` takes its `now` just before it reads the cache row
  (`cache.go:37`). The properties speak of the order of commits and, for the cache, of
  the `now` the entry is stamped with.
- `ActiveFeed` takes the rows of `sdr_audio` on a list as given, with any time of promotion
  up to the next poll; `DispatchWorker` says how they come about. Compared with the last
  success of the polled source, such a row is confirmed until the next success and
  last-known from then on, although it is active: `ConfirmedForCause` says so. Incident
  details are modelled for the polled source; the SDR worker writes no events.
- `incident_units` rows of SDR incidents, the pacing of the SDR worker's loop, the batch
  limit, a row whose insert fails for ever.
- The janitor's drop of raw JSON, every six hours: one statement over columns that
  nothing reads but the backfill. `raw_dropped_at` is never reset, so raw JSON that comes back with a
  reopened incident stays; nothing in the repository says what should become of it.
- The token buckets of `internal/ratelimit` and of the Mapbox client: arithmetic over
  continuous time behind one mutex, on which no other component depends.
- Configuration is the constants; the ranges `config.Load` enforces are their
  assumptions. It does not enforce what `FrozenFeedClearsNothing` and
  `RoomAssumption` need; the defaults meet both.
- API keys, authentication, the other read-only handlers, the web page, the PDF build and
  deployment have no state a model would say something about.

## 6. Plan

Done: lifecycle, client, ingester, units and backfill, dispatch worker with geocode
cache, transcript parser, source status, active feed and detail, canary, transcript
upload, with proofs of every safety property. What is left:

1. That `Ingester` under the pacing of `SourceStatus` is one loop: the two models share
   the order of wait, poll and apply and are composed by no module yet.
2. A theorem on the address-first order: what `parseAddressBeforeChannelSegment` takes
   from a recording with nothing after it.
3. Models of little state: the raw drop against upserts, the rate limiter's buckets.
