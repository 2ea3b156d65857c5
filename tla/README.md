# Process Metrics Platform: specifications and proofs

TLA+ models of the data path of the platform, model-checked with TLC, and proofs of the
central theorems, checked with TLAPS. The models are written from the code; every
definition that stands for code is listed in `PROJECT.json` (`map`) with its lines.

## The system

The platform loads Jira into Postgres, cleans it, computes process metrics and serves
them to dashboards:

    Jira --load--> raw_jira --clean assets--> clean_jira --metric assets--> metrics.fact_values --> Metabase
                      ^                                                          ^
               ghost cleanup                                     admin API (slice rules, settings)
                            Dagster: schedules, sensors, run queue, admin launches

| Component | State | Operations | Talks to |
|---|---|---|---|
| Metric store (`pipelines/utils/polars_db.py`, `metrics.fact_values`) | fact rows, slice rules; per transaction a staging table, an advisory lock, a snapshot | `write_fact_values`, foreign key actions | all metric assets write it concurrently; the admin API deletes rules under it |
| Metric assets (`pipelines/assets/metrics`) | none of their own | seventeen assets that compute and write, four that summarise | clean layer, calculations, metric store |
| Calculations (`pipelines/calculations`) | none (pure) | velocity, sprint health, CFD, ... | called by the assets |
| Orchestration (`pipelines/jobs/schedules.py`, `dagster.yaml`) | run records, sensor cursors, queue | 4 guarded sensors, 3 schedules, queue with 2 slots, launches by the API | starts everything else |
| Raw load (`pipelines/assets/jira/raw.py`) | `raw_jira.*`, watermark per pipeline | incremental load of issues by pages, full merge of the small tables | Jira, dlt |
| Ghost cleanup (`clean/maintenance.py`) | none of its own | read all ids, compare, delete | Jira, `raw_jira.issues` |
| Clean layer (`pipelines/assets/jira/clean`) | `clean_jira.*` | 27 assets that upsert from `raw_jira` in one or two transactions each | read by metric assets |
| Registry cache, project partitions | ids for 300 s; partition keys | look up, add | assets |
| Admin API, sessions (`app`) | configuration tables; stateless tokens | CRUD, launches | metric store, Dagster |
| Streamlit admin, BI provisioning, scripts | - | UI and one-off tools | admin API, Metabase |

What is hard here: up to two runs execute at a time and the guards between them are
partial, so writers of the same facts meet; Postgres runs READ COMMITTED, so a statement
sees what others commit between two statements; a run may die anywhere, and nobody
notices (no run monitoring); search results of Jira change while they are paged; a
watermark may be stored without the rows it stands for; rules are deleted under running
writers. `PROJECT.json` (`hazards`) lists each with its line.

What makes each component correct:

- *Metric store*: one row per observation; a write replaces its scope and nothing else,
  in one step; base rows and slices do not destroy each other; writers never wait for
  each other in a circle.
- *Metric assets*: the writes of one run do not undo each other; runs whose metrics meet
  take the same lock.
- *Orchestration*: one run for each hour or night; what the guards keep apart is never
  queued or executed together; queued runs leave the queue.
- *Raw load*: nothing untouched is missed, the watermark passes nothing that was not
  read. *Cleanup*: what Jira has is not deleted.
- *Clean layer*: a run that completes repairs whatever failed and overlapping runs have
  left; memberships are what the last change in Jira left, and their history explains
  them; no change of status is lost; the asset checks pass; a configured rule survives.
- *Calculations*: what they reconstruct from the changes (the commitment of a sprint, the
  status on a day, the end of a lead time) is what was the case, and the calculations
  agree with each other where they speak of the same thing.

## Modules

| Module | Models |
|---|---|
| `FactStore` | `write_fact_values` and `delete_slice_rule`, statement by statement |
| `AtomicFactStore` | what a write promises: replace the scope in one step |
| `MetricAssets` | for each of the seventeen assets the calls of `write_fact_values` of a run |
| `MCFactStore` | instances: results for some assets, as plans of `FactStore` |
| `Orchestration`, `MCOrchestration` | sensors, schedules, launches, queue; the minutes of a night |
| `RawSync` | incremental load and ghost cleanup over a changing Jira |
| `CleanTables` | the statements of the 27 clean assets and the asset checks, as functions from tables to tables |
| `CleanLayer`, `MCCleanLayer` | people, loads and runs of those assets, step by step; the worlds it is checked in |
| `Calculations` | what the calculations share: calendar, commitment rules, the reading of the board |
| `FlowCalculations` | lead time, aging, cumulative flow, backlog, throughput, flow efficiency, cycle times, release burnup, input flow, waste, estimation |
| `SprintCalculations` | velocity with its slices, scope changes, burndown, activation, quality, flow dynamics |
| `MetricReports`, `MCMetricReports` | histories of work, the tables `CleanTables` makes of them, and what the calculations find there |
| `FactStoreProofs`, `MetricAssetsProofs`, `OrchestrationProofs`, `RawSyncProofs`, `CleanLayerProofs`, `CleanRunProofs` (extends the former), `MetricReportsProofs` | theorems about the module they are named after; `MetricAssetsProofs` about the assets together with the store; `CleanRunProofs` about complete runs of the clean layer |
| `Aggregates` | lemmas about least and greatest numbers, counting, positions in an order, and sums |

### FactStore

A *row* is an observation (metric, project, time, slice; the entity is folded into the
time), the transaction that inserted it (with the observation, its id) and its current
`slice_rule_id`. A *writer* is a process that executes assets. A run is a *plan*: the
sequence of calls, each a *batch* of rows with the scope of its DELETE (metrics,
projects, time range). The actions are the statements of `write_fact_values`: `Stage`,
`Lock` (the advisory lock on the hash of the sorted metric ids), `Scan` (the snapshot of
the DELETE, with its three variants of the condition on the rule), `Delete` (waits for
rows another transaction has deleted and matches again what is left), `Insert` (the
foreign key holds the rules), `Commit`; `Abort` stands for every error and for the death
of the process. `DeleteSliceRule` is the admin operation with the SET NULL of the
foreign key; it is one step because it waits for transactions that hold rows it needs,
and where Postgres would break a circle with a writer, the loser is an `Abort` or a
deletion that does not happen. Collisions of `hashtext` only make writers wait more.

`Plans` and the `Writers` are parameters. `MetricAssets` defines which plans an asset can
have; it abstracts *what* is computed (any set of rows) and keeps *how* it is written:
fixed scope, scope taken from the rows, a call for each project, a call for each slice
value. Two writers are what the two slots of the queue allow (`max_concurrent: 1` within
a refresh run).

### Orchestration

Time is an index into a sequence of minutes. The daemon evaluates one sensor at a time:
`Evaluate` is the sensor function (window, cursor, blocking jobs among at most
`RunRecordLimit` active runs), `Submit` creates the run unless its run key exists,
`SaveCursor` ends the tick; `RestartDaemon` interrupts it anywhere. Schedules and
`AdminLaunch` create runs with no guard. `Dequeue` starts the oldest queued run when a
slot is free. `Orphan` is a run whose process has died: without run monitoring in
`dagster.yaml` it stays STARTED, keeps its slot and blocks sensors. The sensors and
schedules are STOPPED until an operator enables them; hence the constants `Sensors` and
`Schedules`. Dagster itself is external and modelled from how the code uses it.

### RawSync

An issue is an id and the time of its last update, unique for each update. `FetchPage`
is a request of `get_issues` in the order of `updated`: with `nextPageToken` it goes on
after the last issue returned, with `startAt` (constant `LegacySearch`) by position. The
rows are merged in one step with the watermark (`Load`), or lost while the watermark is
stored (`LoadWithoutTable`), after which the pipeline runs once more; `FailSync` is any
other failure. The cleanup reads pages of ids (`FetchIds`), counts the raw rows and gives
up below 90 percent (`CountRaw`), compares (`SelectGhosts`) and deletes (`DeleteGhosts`).
One load runs at a time (concurrent loads of a pipeline share dlt's working directory,
which is not modelled). dlt and Jira are external.

### CleanTables and CleanLayer

`CleanTables` has one operator for each asset: `CleanSprintIssues(tables, raw)` is what
the INSERT ... SELECT ... ON CONFLICT of that asset, with everything it commits together,
makes of the tables. `CleanLayer` surrounds them with people (`People`: create, move,
plan, estimate, rename, start and close sprints, configure columns, save rules), loads
(`LoadIssues` brings what was touched, `LoadTables` the small tables, so the two may be
out of date with each other) and up to two runs at a time. A run executes its assets in
any order `Upstream`, the asset graph, allows; each asset commits in one step, or in two
where the code commits twice (`field_keys` and `sprint_field_key`, `field_values` and
`sprint_values`) or reads, compares and writes in a statement others may overtake
(`ReadLog`, `WriteLog`). `FailStep` is any error of a step and the death of its process;
what depends on it is left undone. `Executable` says what makes the statements fail of
themselves: a row hit twice by ON CONFLICT DO UPDATE, a name that is taken, a table dlt
has not created yet.

Tables that have nothing to do with each other are not interleaved: a behaviour takes
place in one *world*, a choice of edits, assets and bounds (`MCCleanLayer`).

### Calculations

A calculation is a function of the clean tables. Times are ticks, `PerDay` of them in a
day and `DaysPerWeek` days in a week; this keeps what depends on "on or before" a day or
an instant. What a calculation returns for each issue is a function from the issues it
has a row for, so that a missing row and a zero differ. `CommitmentPoints` is the choice
between the rule of the cache, that of the query and the names of the columns.

`MetricReports` is where they are judged. People change issues while time passes; `past`
records how things stood at the end of each tick. `tables` is made of the present only:
the histories of the issues go through the operators of `CleanTables`, with their losses.
Each property then compares a calculation on `tables` with what `past` says was the case.
Nothing is assumed to be consistent between the two.

## Runs

| Run | Expected | What it shows |
|---|---|---|
| `fact_store` (`FactStore.cfg`) | pass | two writers with throughput, CFD (one value), quality (two projects), estimation and input flow, three transactions, a rule that may be deleted: `NoDuplicateFacts`, `SlicedAndBaseApart`, `RunKeepsItsRows`, refinement of `AtomicFactStore` (`WritesAreAtomic`), `EveryWriteEnds` |
| `fact_store_dup` (`FactStoreDup.cfg`) | violation | assets whose metric list depends on the data take different locks and store an observation twice |
| `fact_store_rule` (`FactStoreRule.cfg`) | violation | a deleted slice rule leaves sliced rows that look like base rows |
| `fact_store_slices` (`FactStoreSlices.cfg`) | violation | with two values of a rule, the write for the second deletes the rows of the first |
| `orchestration` (`Orchestration.cfg`) | pass | the light and the legacy heavy sensor with all schedules, a launch, a dead run: `OneRunPerBucket`, `GuardsHoldAmongSensors`, `LightAndHeavyApart`, `EveryQueuedRunLeaves` |
| `orchestration_staged` (`OrchestrationStaged.cfg`) | violation | the light sensor does not look out for the staged heavy jobs |
| `raw_sync` (`RawSync.cfg`) | pass | `SyncLoadsUntouched`, `WatermarkPassesOnlyTheRead`, `CleanupSparesTheLiving` with pages of one issue |
| `raw_sync_lookback` (`RawSyncLookback.cfg`) | violation | the lookback window brings nothing back |
| `raw_sync_ghosts` (`RawSyncGhosts.cfg`) | violation | the cleanup deletes an issue Jira has |
| `clean_layer` (`CleanLayer.cfg`) | pass | failed, outdated and overlapping clean runs over seven worlds: `ChecksPass`, `CompleteRunMirrorsRaw`, `NoStatusChangeIsLost`, `MembershipIsJiras`, `HistoryExplainsMembership`, `ColumnsKeepTheirStatuses`, `LogsEndAtCurrent` |
| `clean_layer_rules` (`CleanLayerRules.cfg`) | violation | a clean run rebuilds the columns of a board and takes its commitment rules with them (ON DELETE CASCADE) |
| `metric_reports` (`MetricReports.cfg`) | pass | every short history of one or two issues: sixteen statements about what the calculations report (below) |

The violations are disagreements between the code and its own documents, quoted in
`PROJECT.json` (`findings`). Each property of a passing run has a mutant in the module
(comments "Mutant:") that breaks it, so it can fail.

**What `metric_reports` says, and where it stops.** Each exception below is there because
TLC finds the property violated without it; it is what the code does, and the property's
comment names the place.

| Property | Statement | Exceptions |
|---|---|---|
| `LeadTimeIsOfTheCurrentStay` | a lead time ends where the present stay in the end statuses began and starts after the last one before it | none |
| `AgeBecomesLeadTime` | an issue that becomes done has the lead time its age led up to | reopened straight into a middle status: `aging.py` wants an entry later than the exit, `lead_time.py` one no earlier |
| `CfdCountsAreTrue` | a day of the diagram counts what was in the column when the day ended | an issue is missing before its first change, whatever status it was created in |
| `BacklogFlowsBalance` | the size from creations and resolutions is that of the open issues, and the flows from changes lead to it | past days: issues reopened since (the resolution is cleared); flows: statuses that are not known |
| `FinishIsTheSameEverywhere` | six calculations agree on when an issue was finished | reopened issues |
| `FlowTimesAreTrue` | active and wait time are the ticks in such statuses | the time before the first change counts nowhere |
| `EpicIsDeliveredWhenAllAreDone` | an epic is delivered when all its issues are done | a reopened issue counts as done |
| `BlockedTimeIsTrue` | blocked time is the time with the blocked value | created blocked |
| `CommitmentIsTheSprintAtStart` | the commitment is what was in the sprint when it started | at the very start; planned in the sprint and taken out again; planned or taken out after its end |
| `CompletedIsWhatTheSprintFinished` | completed is what was in the sprint and done at its end, and came to done during it | planned or taken out after its end |
| `PlannedPointsAreThoseAtStart` | planned points are the estimate at the start; the volatility compares the first estimate with the last | no estimate then |
| `ScopeChangesBalance` | commitment, daily changes and final scope balance | as for the commitment; in and out more than once |
| `BurndownIsTrue` | what remains on a day is what was in the sprint and not done | created in the sprint and moved out: the creation leaves no event then |
| `ActivatedHaveLeftTheInitialStatus` | activated issues are committed ones that left the initial status in the sprint, known to the clean layer or not | none |
| `SlicesAddUp` | the velocity of the slices adds up to that of the sprint | none |
| `SprintCountsAreTrue` | backward moves, entries and field changes are those in the sprint, of issues ever in it | none |

**Bounds.** `MaxWrites` = 3 transactions: two that race and one more before or after them;
a duplicate needs two, a lost row two of a run, a torn write two and an observer. The
time range has two ids so that scopes can overlap without being equal. `MaxRuns` = 3: one
more than the slots, so that one waits. `RunRecordLimit` = 3 is the number of runs, as
200 is above what is ever active; with fewer records than active runs the guards fail by
construction. `MaxOrphans` = 1 of two slots: with two, nothing is ever executed again
until an operator intervenes. `RawSync`: three issues, one of another project, four
updates, pages of one, so an issue can move across a page boundary while two others stay.

`CleanLayer`: in each world as many edits, loads and runs as its hazards need, and at
most one failed step in a run: statuses (two issues, 4 edits, 2 loads, 2 runs: a rename
needs an issue loaded before and one after), the board (2 edits, 3 loads, 2 runs), sprints
(one issue, two sprints, 4 edits, 2 loads, 2 runs: from one sprint to another and a sprint
closed), the sprint log (3 and 3 runs: two overlapping and one after), releases, rows of
an issue, field values. Two slots, as in the queue.

`MetricReports`: two ticks in a day, two days in a week, the diagram of today and the day
before. The sprint is from tick 1 to 3 of 0 to 5, so there is time before it, at its edges,
in it and after it. Three worlds of flow with two issues (5 ticks and 5 changes with
statuses known from the history only; 5 and 5 with all statuses known; 4 and 4 where
workflows do not resolve issues), one of commitment rules (one issue, 4 and 5), two of
sprints (two issues, 5 and 4; one issue, 5 and 6), one of a sprint to tick 5, in which an
issue can come and go more than once (one issue, 6 and 5), one of estimates (one issue, 5
and 4). The board has two
statuses in its last column, so that moves between done statuses occur. An issue is its
own type, so a slice is of one issue.

CHECK_DEADLOCK is FALSE everywhere: at the bound of writes, runs, updates or changes
nothing is left to do. `clean_layer` and `metric_reports` use the symmetry of issues (and
of sprints): both modules only ask which issue is which to look up its own rows, order
nothing by issue, and have no liveness property. The CHOOSE of a change or a rule is
unique, and that of a board's column is among elements that are not permuted.

**Fairness.** `FactStore`: Postgres executes the statements of an open transaction (weak)
and serves lock queues in order, so a writer that can get the lock again and again gets
it (strong, on `Lock`); the error of a missing rule is raised. No asset has to start.
`Orchestration`: the queue daemon keeps polling, and runs whose process lives end (the
steps have timeouts or do finite work). The clock, the sensors and the launches are not
fair: nothing promises that they act. `RawSync`, `CleanLayer` and `MetricReports` have no
liveness property and no fairness: nothing promises that a run completes, and their
properties speak of runs that did, or of histories as far as they have come.

## Disagreements that are only noted

Places where a document and the code say different things and no run is about it:

- `.agents/skills/locale-project-context/06-clean-layer-jira.md:175` has the ghost cleanup
  remove rows of `clean_jira`; it removes rows of `raw_jira` only, so a deleted issue stays
  in the clean layer.
- The same document (98) lets unknown status categories be `in_progress`; the code makes
  them `to_do` (`clean/dimensions.py:266`).
- The docstring of `clean/dimensions.py` (231) takes statuses from both ends of a change; the
  statement reads the new one only. A status that issues only ever left stays unknown, and
  the changes out of it have no old status (hence `Nothing` in `NoStatusChangeIsLost`).
- `calculations/velocity.py:283` asks of an inferred member that it "has NO added event"; the
  code does not look, which is the exception "planned in the sprint and taken out again".
- `assets/metrics/velocity.py:172` drops the events after a sprint was closed so that later
  additions do not count; through their row in `sprint_issues` they count from the start.
- `calculations/lead_time.py:46` says "after" where the code accepts the same time.
- `calculations/cumulative_flow.py:261` falls back to the status at creation; the code has
  no row (the exception of `CfdCountsAreTrue`).
- `01-add-metric.md:227` calls the clean layer always consistent; `clean_layer` shows that
  it is so after a completed run.
- The unique keys of `metrics.commitment_rules` let two rules have the same project and no
  board. `MetricReports` and the proofs have one rule for a scope; with two, the cache and
  the query may choose differently.

## Proofs

In `FactStoreProofs` and `MetricAssetsProofs`, for every set of writers, metrics,
projects, rules, values, every plan and every number of transactions:

- `TypeCorrect`: `TypeOK`. Inductive with `TypeInv` (transaction numbers stay below the
  next one).
- `SlicesStayApart`: `SlicedAndBaseApart`, with no further hypothesis. The invariant
  `RowInv` says that a row's rule only ever changes to NULL and that what a transaction
  has deleted is in its scope; the DELETE's re-check makes the second true when a rule
  disappears between `Scan` and `Delete`.
- `LockPreventsDuplicates`: `NoDuplicateFacts`, if the lock is used and plans that share
  a metric in some call name the same metric set (`LockCovers`). `NoDuplicateFacts` is
  not inductive: a writer that is about to insert must know that nothing in its scope
  is left. `LockInv` adds `LockExclusion` (of two writers past the lock, the metrics are
  disjoint) and `ScanIsComplete` (while a writer is past its scan, every committed row in
  its scope is in its snapshot, and past the delete in `deleted`).
- `StoreIsAtomic`: under the same hypotheses `Spec` implements `AtomicFactStore`. `Commit`
  is a `Replace`, `DeleteSliceRule` a `DropRule`, everything else a stutter.
- `RunsKeepTheirRows`: `RunKeepsItsRows`, with or without the lock, if each call of a plan
  spares what the earlier ones inserted, also when the rule of such a row is deleted in
  between (`LaterCallsSpare`); it follows from `RowInv`. Without the hypothesis it is false
  (`fact_store_slices`).
- `NoDanglingRules`: no row and no insert about to be committed names a rule that is gone
  (`RulesExist`, what the foreign key is for).
- `RunsGoCallByCall`: what a run leaves that fails between its writes. If its calls cover
  different observations (`CallsApart`) and no other writer commits to its metrics meanwhile
  (`Undisturbed`), each call made so far has in its scope what it wrote, but for the rules
  deleted since (`CallsSoFar`), and the scope of every other call is as the run found it
  (`CallByCall`). The lock is not needed: `CallInv` says of the one writer what `LockInv` says
  of all. That another writer may commit between two calls, also with the lock, is why
  `Undisturbed` is assumed.
- `SameLockWhereMetricsMeet`: eleven of the assets satisfy `LockCovers` whatever they
  compute. The other six are those of `fact_store_dup`, for which `NoDuplicateFacts` is false.
- `AssetsWriteAtomically`: the two together, so `NoDuplicateFacts` and `WritesAreAtomic` for
  any number of concurrent runs of the eleven assets.
- `AssetsWriteInOrder`: a later call of a run is for another project, or for another slice
  rule, of all assets but extended aging; of cumulative flow and backlog growth if rules have
  one value. `AssetsKeepTheirRows`: these assets meet `LaterCallsSpare` and `CallsApart`, so
  `RunKeepsItsRows` and call by call hold of them.

The plans by value are lists of lists, nested three deep, in an order (of projects, rules,
values) that the code leaves to `SetToSeq`. `FlattenedList` unfolds the recursion of
`FlattenSeq` by the least counterexample and says once what such a list is: made of the
elements of the lists, and in any relation that holds within the lists and between them.
`JoinedList` takes the order away. `LaterCallsSpare` and `CallsApart` are such relations.
The plans of `fact_store` are of the assets `AssetsKeepTheirRows` speaks of, and TLC finds
that they meet `LockCovers` (`LockedPlansShareNoMetric`).

In `OrchestrationProofs`, for any sensors and schedules that are switched on, any
minutes, slots and number of runs, with `OrchestrationAssumption` and
`SwitchedOnAssumption` (the names are those of `schedules.py`):

- `OrchestrationTypeCorrect`: `TypeOK`, with the slots. Every step leaves the runs, creates
  one or gives an active one another status (`RunsStep`); only `Dequeue` fills a slot.
- `OneRunForABucket`: `OneRunPerBucket`. A key is new when its run is created, and keys
  never change.
- `GuardsHold`: `GuardsHoldAmongSensors`, if there are never more runs than a sensor reads
  (`MaxRuns <= RunRecordLimit`). The property is not inductive, because a sensor looks at
  the active runs in one step and requests in another; `PendingIsUnblocked` says what
  stays true in between: no sensor's run that blocks the request has become active, since
  the daemon evaluates one sensor at a time and nothing that is over becomes active again.

- `LightAndHeavyStayApart`: `LightAndHeavyApart`, if moreover the staged heavy sensors are
  off, as they are by default. The light sensor looks out for the legacy heavy job only;
  with the staged ones on it is false, which is the run `orchestration_staged`.

In `RawSyncProofs`, for any number of issues and updates, any project, page size and
lookback:

- `RawSyncTypeCorrect`: `TypeOK`.
- `LoadBringsInTheUntouched` and `WatermarkIsBehindTheRead`: `SyncLoadsUntouched` and
  `WatermarkPassesOnlyTheRead`, if pages are found with `nextPageToken`. With `startAt`
  TLC finds both violated: an update moves the issues behind it one place forward, over the
  edge of the page. The invariant `LoadInv`: of what was updated after the watermark, the
  load has read exactly the versions up to its position, and an update moves an issue
  behind the position, never before it.
- `CleanupLeavesTheLiving`: `CleanupSparesTheLiving`. `CleanupInv` says that the ids read
  are the first `startAt` ids, as long as nothing that was there at the beginning is deleted,
  because new ids come last.

In `CleanLayerProofs` and `CleanRunProofs`, for any worlds (edits, selections of assets that
`Selectable` allows), issues, sprints, versions, columns and statuses, any number of edits,
loads, failures and runs, of which any two may overlap:

- `CleanLayerTypeCorrect` and `ReferencesHold`: `TypeOK` and the checks of references.
  Each statement preserves all references (`RefsOk`) whatever the tables and the raw tables
  are, since it selects what it refers to in the statement itself; that is why overlapping
  and failed runs do no harm.
- `CompleteRunRepairs`, `StatusChangesAreKept`, `AssetChecksPass`: `CompleteRunMirrorsRaw`,
  `NoStatusChangeIsLost`, `ChecksPass`. For each asset, `Mirrors` says what its tables have
  of the raw tables when it is done. `MirrorInv`: what a run that no load has outdated has
  done is mirrored. A statement makes the mirror of its own asset from those of the assets
  before it, and keeps all others, whichever run executes it, since a statement only writes
  what it reads and all runs read the same raw tables. Status names need more: two statuses
  may go by one name over time, and a history that names one finds the other (`Given`).
- `LogsAreCurrent`: `LogsEndAtCurrent`. A run reads a log, compares, and writes later;
  others may have written in between. `LogInv` orders the rows, written and only decided,
  as the states of a sprint or version are (`Rank`), which never go back; so the latest row
  has the current state, whoever wrote it.
- `ColumnsAreKept`: `ColumnsKeepTheirStatuses`. Here a statement of another run does undo
  what was done, and `ColumnsInv` holds only when no run is between the two assets.
- `MembershipIsTrue`, `ReadingsAgree`: `MembershipIsJiras`, `HistoryExplainsMembership`.
  `SprintInv` is about histories: the last move that mentions a sprint is why the issue is
  in it, and a move keeps closed sprints only, because Jira lets an issue be in one open
  sprint. Hence in the raw tables a move that keeps an open sprint would have had two of
  them (`NoneKept`), which `AtMostOneOpen` excludes, and of such a sprint no time has both
  an addition and a removal: whole sets and differences tell the same. `MemberInv` carries
  it to the end of the run.

`MirrorInv`, `LogInv`, `ColumnsInv`, `SprintInv` and `MemberInv` were checked by TLC in the
worlds of `MCCleanLayer` before they were proved. Two properties are as they are because a
proof attempt failed. `NoStatusChangeIsLost` used to except the changes whose name some
status has now; but two statuses that went by one name in the past, and do no more, lose a
change as well, which takes more edits than the runs have. `HistoryExplainsMembership`
and `MembershipIsJiras` used to speak only of issues all of whose sprints are known, which
turned out not to be needed, and the former allowed an active member without an event.

In `MetricReportsProofs`, for any rules, columns, project and board:

- `CacheResolvesMostSpecific`: the score of the cache picks a rule that no other applicable
  rule precedes in the order of the query.
- `ResolversAgree`: the cache and the query resolve the same rule, if a scope has one rule
  (`OneRulePerScope`) and rules name columns that exist (`NamesColumns`, the foreign key).

and for any worlds, boards, categories, rules and estimates, any number of issues and any
history of them:

- `ReportsTypeCorrect`: `TypeOK`. `TypeInv` has the types; `HistoryInv` says what links the
  three views of an issue: for the film of its past states, `At(k)`, its changes, moves and
  estimates are each where two ticks differ, with both values (`Tells`).
- `LeadTimesAreCurrent`: `LeadTimeIsOfTheCurrentStay`. The lemmas go from Jira to the
  tables and from there to the history. `ChangelogIsTheHistory`: through the statements of
  `CleanTables`, the log is the changes, except that an old status the clean layer does not
  know is NULL. So an exit may be missing in the log (`Noted`); but then nothing ever
  entered that status, hence it is the initial one, the exit is the first change, and no
  entry comes before it (`UnknownExitsAreFirst`). So the last exit that the log has and the
  true last exit divide the entries alike (`LastExits`). The middle and end statuses of a
  rule are apart because a status is in one column (`PointsAreApart`).
- `DiagramIsTrue`: `CfdCountsAreTrue`. The last change up to a day tells the status of that
  day, and the clean layer knows it (`LastChangeTells`); the counted set is the true one.
- `CommitmentIsTrue`: `CommitmentIsTheSprintAtStart`. `SprintLog`: the events are the moves,
  or the creation of an issue that never moved. The last event by the start tells whether
  the issue was planned (`ScopeIsThePlan`); an issue without one was planned just if its
  first event after it is a removal, or it has none and is a member now. What the property
  excepts is what this argument needs, no more.
- `PlannedPointsAreTrue`: `PlannedPointsAreThoseAtStart`. The next row tells what the
  estimate was (`NextRow`), the last one what it became (`LastRow`), and the clean layer
  keeps the last estimate that was one (`LastEstimateIsKept`).
- `CompletedIsTrue`: `CompletedIsWhatTheSprintFinished`. The final scope is what was planned
  when the sprint ended (`FinalScopeIsThePlan`). A completion is read from the log or from
  the resolution; `ResolvedInv`, an invariant of its own, has that a change to a done status
  comes with each resolution, so both tell of the same changes.
- `AgesBecomeLeadTimes`: `AgeBecomesLeadTime`, which compares two computations at different
  times. `PastInv`: a past state of an issue has those of its present changes that were over
  by then; so the log of that time is a part of the log of now, with fewer known statuses,
  and what it did not know is once more the initial status, left first
  (`UnknownThenIsFirst`).
- `EpicsAreDelivered`: `EpicIsDeliveredWhenAllAreDone`. The extremes of the extremes of the
  issues are those of all (`ExtremaOfAll`), and a done issue came to done no earlier than it
  started, so the days are not negative.
- `SprintIsCounted`: `SprintCountsAreTrue`. Rows and pairs of an issue and a tick are as
  many, because each row tells a pair, no two the same, and no pair is missed
  (`RowsArePairs`, with a bijection; `IssuesAreFinite` is the invariant it needs).
- `RulesResolveAlike`: `ResolversAgree` holds of the rules in every reachable state.

The others are about sums. A sum of a function over a set is a recursion, which the provers
do not unfold for a set of unknown size. `Aggregates` gets around this once: it counts
*blocks* (a function of naturals is the set of pairs of an element and a number below its
value) and shows that the sum is how many there are (`SumIsMeasure`): a least set where it
is not would be one element larger than a set where it is. The rest follows without
recursion: adding an element (`SumSteps`), hence induction over finite sets for one formula
at a time, sums by key and by parts (`SumByKey`, `CountByParts`), sums of daily counts as
counts up to a day (`CountUpTo`).

- `BurndownsAreTrue`: `BurndownIsTrue`. The scope of each day is what was planned when it
  ended (`ScopeOfTheDay`, from `SprintLog`), and the status of the day is told as in the
  cumulative flow.
- `BlockedTimesAreTrue`: `BlockedTimeIsTrue`. Each change to the value pairs with the next
  change away from it; the intervals are disjoint and are the ticks with the value.
- `FlowTimesAreTicks`: `FlowTimesAreTrue`. Between two changes that follow each other the
  status is the new one of the first; the intervals up to the first completion are the
  ticks, whichever old statuses the log does not know.
- `ActivatedHaveLeft`: `ActivatedHaveLeftTheInitialStatus`. An exit that the log has not
  noted was from the initial status. The percentages grow because what they count does.
- `VelocitySlicesAddUp`: `SlicesAddUp`. A slice computes from all changes and some issues,
  and gets the issues of the whole that are its own (`IsSlice`); an issue has one type.
- `FinishesAgree`: `FinishIsTheSameEverywhere`. Of an issue that came into done once, the
  least, the last and the only completion are one, and so is the resolution where workflows
  resolve (`ResolvedInv`).
- `BacklogBalances`: `BacklogFlowsBalance`. `BacklogIsTrue` has created less resolved: where
  workflows resolve, an issue is resolved just if it is done. The other reading counts rows
  of the log: an issue came into done once more than out of it if it is done, and as often
  if it is not (`BeginsLessEnds`), and the rows of the log are the ticks of such changes, by
  a bijection.
- `ScopeBalances`: `ScopeChangesBalance`. The events of a sprint are the turns of the plan
  (`EventsAreTurns`); of an issue with at most two of them in the window, the first of each
  kind is all there is (`ScopeOfAnIssue`), and the daily counts of the first ones add up to
  how many issues have one (`FirstsByIssue`, `FirstsByDay`). The commitment is that of
  `CommitmentIsTrue`.

Some of these need to know the board: that the end statuses by the names of the columns
are the done ones (`AgesBecomeLeadTimes`, `EpicsAreDelivered`), that the rightmost column is
that of the done statuses (`CompletedIsTrue`), both (`FinishesAgree`), that no column is left
of that of the initial status (`SprintIsCounted`), that rules name columns of the board
(`RulesResolveAlike`). They are hypotheses of the theorems; the board and rules of
`MCMetricReports` meet them, as TLC finds in its assumption `BoardHypotheses`. The one of
`SprintIsCounted` says something of the code: a first move out of a status the clean layer
does not know has no old status and is not counted as a backward one, so that on a board
with a column left of the initial one backward moves could be missed.

**Assumptions.** Each module names what it asks of its constants (`ConstantsAssumption` of
the store, `OrchestrationAssumption`, `SwitchedOnAssumption`, `RawSyncAssumption`,
`CleanLayerAssumption`, `CalendarAssumption`, `ReportsAssumption`, `BoardAssumption`,
`FiniteBoardAssumption`, `CategoryAssumption`), and TLC evaluates it in each run.
`BoardAssumption` has a status in one column of the board: that is how Jira configures
boards, while the schema only keeps a status from being twice in a column.
`CategoryAssumption` has a category for each status, as the column is NOT NULL
(`db/migrations/versions/0002_create_clean_jira_schema.py`). `CleanLayerAssumption` has that
`Nothing` is not a state of a sprint or version (NULL is none) and `Selectable`: a job that
selects an asset selects those it depends on, as all jobs do
(`pipelines/jobs/schedules.py` selects groups). Further hypotheses are in the theorems and
named above.

**Only model-checked.** Liveness (`EveryWriteEnds`, `EveryQueuedRunLeaves`) and its fairness,
which the prover does not do. Every other property of the passing runs is a theorem; those
of the runs that end in a violation are false.

## Not modelled

- Calculations: spillover, defect density, stale days, age and priority distributions, and
  statistics over the results of the modelled ones (averages, percentiles, control chart);
  the slicing by labels, links and fields other than a column of the issues; functions only
  the tests call (histogram bins, backlog trends and distributions, the older slices of
  velocity and lead time).
- Clean layer: several projects and the choice of the platform project; the parsing of
  field values; priorities, resolutions and projects, which are written like the issue
  types that stand for them.
- Raw layer: the tables that are merged whole; two loads of one pipeline at a time.
- Refresh assets and metadata checks, which change no state; API operations that write one
  row guarded by a unique index; the registry cache; project partitions; tokens and Google
  login; the user interface; Metabase provisioning; migrations and scripts.

`PROJECT.json` (`components`) gives the reason for each.

## Plan

1. Done: the store, the assets and their locks, orchestration, the raw layer, the clean
   layer, the calculations, and the proofs above.
2. Done: the safety properties of the raw layer and of the clean layer as theorems.
3. Done: every property of `MetricReports`, those that sum included.
4. Done: what a run that fails between its writes leaves, and the hypotheses about plans
   for all the assets that meet them.
5. Next: the statistics over the results of the calculations; several projects in the clean
   layer.
