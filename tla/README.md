# land-intel-core in TLA+

land-intel-core collects land listings in London, clusters them, turns clusters into candidate
sites with a geometry, suggests planning scenarios for a site, assesses and values a confirmed
scenario, and shows an estimated approval probability to reviewers under administrative control.
This directory holds TLA+ models of its core, the TLC configurations that check them, and proofs
that TLAPS checks.  Paths such as `jobs/service.py` are below `src/python/landintel/` unless they
start with `services/`, which is `src/services/`.

Contents: [the system](#the-system), [modules](#modules), [runs](#runs), [proofs](#proofs),
[what the runs found](#what-the-runs-found), [what is left out](#what-is-left-out),
[plan](#plan), [running](#running).

## The system

Every service is a process with its own database session; all of them share one Postgres database
at READ COMMITTED.  There is no row lock in the code except the `SELECT ... FOR UPDATE SKIP LOCKED`
of the job claim, no version column, and no advisory lock.  SQLAlchemy sessions flush at the end
(`db/session.py` sets `autoflush=False` and `expire_on_commit=False`), and an UPDATE names only the
columns that differ from what the session loaded.  That is why most hazards below have the same
form: read, decide, and write by primary key what may have changed meanwhile.

| component | state it keeps | operations | used by |
|---|---|---|---|
| job queue (`jobs/service.py`) | `job_run`: status, attempts, `next_run_at`, `locked_at`, `worker_id` | enqueue (deduplicated or plain), claim, heartbeat, succeed, fail | API, scheduler, worker handlers |
| worker (`services/worker/app/main.py`) | a process, its session, a heartbeat thread | poll, run a handler, record the end | - |
| scheduler (`services/scheduler/app/main.py`) | none | one tick enqueues the connector runs that are due | job queue |
| listings (`listings/*`, `connectors/*`) | sources, snapshots, items, clusters, assets | run a connector, persist snapshots, rebuild clusters | sites, through jobs |
| sites (`sites/service.py`) | `site_candidate`, geometry revisions, links | build or refresh from a cluster, save a drawn geometry | scenarios |
| scenarios (`scenarios/*`) | `site_scenario`: status, source, current, headline, stale mark, frozen geometry | suggest, confirm, reject, edit, mark stale | assessments |
| planning (`planning/*`) | applications, constraints, baseline packs, labels | imports, extant-permission screening | scenarios, assessments |
| assessments (`assessments/*`) | runs, frozen features, results, prediction ledger | create or refresh, replay verification | valuation, review |
| valuation (`valuation/*`) | valuation runs, assumption sets, comparables | build or refresh, import market data | assessments, opportunities |
| release control (`scoring/release.py`) | `model_release`, `active_release_scope` | register, activate, retire | assessments |
| visibility (`review/visibility.py`) | visibility mode of a scope row, `incident_record` | set mode, open and resolve incidents, the gate | every readback of a score |
| review (`review/overrides.py`, `review/audit_export.py`) | append-only overrides, exports | apply an override, export | readbacks |
| labels, features, training (`planning/historical_labels.py`, `features/*`, `scoring/train.py`) | a label and its review per application | rebuild, review, features at a date | assessments |
| evidence, geospatial | none between calls | pure functions of loaded rows | scenarios, assessments |
| readback services, API, web | none | shape responses, check roles | people |

How they interact.  The API writes in request transactions and enqueues jobs in the same ones.  A
connector job persists snapshots and enqueues a cluster rebuild, which enqueues site builds, which
enqueue scenario suggestions, which build an assessment when the headline confirms itself.  A site
build moves geometry and marks scenarios stale in its own transaction; an analyst's geometry save
does too and queues a geometry refresh job besides.  An assessment reads the active release of its
scope; a readback asks the visibility gate, which reads the scope row and its open incident.

What is hard, and what makes each part correct:

* *Job queue.*  A worker may stall or die at any point; the lease (15 minutes) is the only
  detection, the worker id is not unique by default, ends are written without looking.  Correct
  means: one runner per job, ends are final, retries bounded, every job ends, duplicates bounded.
* *Release control and visibility.*  Sequences of administrative calls, overlapping requests, and a
  row deleted under an incident.  Correct means: one release in force per scope, nothing visible
  that nobody made visible, an open incident hides everything.
* *Scenarios.*  Three routines write the headline, ids are deterministic, a row has seven fields that
  five handlers set in part, and geometry may move under a request.  Correct means: one headline,
  one machine suggestion per template, no scenario silently carried to another geometry, an
  analyst's rejection stands.
* *Assessments, ledger, replay.*  Idempotent builds, partial failure, frozen inputs: a READY result
  never changes, replays to the same hash, and is not built on what was not frozen.
* *Listings.*  Membership rows are deleted and reinserted, deterministic ids meet unique keys: every
  committed listing ends in one cluster, and nothing committed is forgotten by the next rebuild.
* *Valuation, overrides, scheduler.*  One run per assumption set, latest override wins, a source that
  is due is run once.

`PROJECT.json` lists every component with what is modelled of it, and every hazard at its line with
the properties aimed at it.

## Modules

| module | what it models |
|---|---|
| `JobQueue`, `MCJobQueue`, `JobQueue_proofs` | job table, workers, heartbeats, enqueuers |
| `ReleaseControl`, `MCReleaseControl`, `ReleaseControl_proofs` | releases, scope rows, incidents, administrators, the gate |
| `Listings`, `MCListings`, `Listings_proofs` | from a source to a site: scheduler, connector runs, storage, cluster rebuilds, site builds |
| `PlanningData` | the registers and layers, and the imports that write them |
| `Screening` (extends `PlanningData`) | the refresh of one site's links, warnings and status; the verdict on extant permission |
| `Suggestion` (extends `Screening`) | which templates are excluded, which application backs a candidate, what is confirmed automatically |
| `Labels` (extends `PlanningData`) | labels of past applications, their review, the features of a case, training rows |
| `Evidence`, `MCEvidence`, `Registers_proofs`, `Labels_proofs`, `Evidence_proofs` | the composition of `Suggestion` and `Labels` over one set of registers |
| `Scenarios`, `MCScenarios`, `Scenarios_proofs` | the scenarios of one site, its geometry, the requests on them |
| `Assessments`, `MCAssessments`, `Assessments_proofs` | one assessment: build, failure, ledger, replay, overrides |
| `WriteOnce` | the abstract table that the valuations of `Assessments` implement |

`PlanningData` to `Evidence` are one specification in five modules, since imports fall between the
reads and the commit of a refresh or a label rebuild.  The other modules meet in what one takes as a
free choice of the other: to `JobQueue` a handler is the jobs it enqueues, while `Listings` has a
simple queue of its own with the same failures (attempts, a lease that ends under a live worker, a
process that dies); `Scenarios` takes any outcome of the gates in `Suggestion`; `Assessments` takes a
confirmed scenario, an active release and versions of the data as given and lets them move.

### JobQueue

`job[j]` is a row of `job_run`; `worker[w]` a process with its in-memory job object (`copy` is the
`attempts` value of that object, which `mark_job_failed` compares with the maximum), its heartbeat
thread and the follow-up jobs its handler still has to enqueue; `request[r]` an API handler or a
scheduler tick between its duplicate check and its INSERT.

Time is relative: `due` counts down to `next_run_at`, `age` counts up from `locked_at`, both in ticks
and both saturating, so the state stays finite for ever.  `before` keeps the order of `next_run_at`
among rows, which is all that is left of it once it has passed: the claim query offers rows in that
order.  A tick is long: BeatEvery and Lease stand for one and fifteen minutes, and only their order
matters (`TimingAssumption`).

| action | code |
|---|---|
| `RequestChecks`, `RequestInserts` | the `enqueue_*_job` functions: `_deduplicated_job`, then `_create_job` and the caller's commit |
| `Claim` | `claim_next_job`: QUEUED and due, or RUNNING with an expired lock; attempts + 1; committed before the handler runs |
| `Beat`, `BeatIsLate` | `_heartbeat_loop` and `refresh_job_lock`; a late one raised or was starved |
| `HandlerEnqueues` | a handler's duplicate check and INSERT of follow-up work in its own uncommitted session |
| `Succeed`, `Fail` | `mark_job_succeeded` and `mark_job_failed` with the one commit of the job; what the handler flushed is committed in both, since nothing rolls back |
| `Crash`, `Restart` | the process dies anywhere; `restart: unless-stopped` |
| `Tick` | one tick passes; a timely heartbeat fires before its interval is over |

Handlers are not otherwise modelled: to the queue they are the jobs they enqueue.

### ReleaseControl

`release[r]` is the status of a `model_release`, `scope[k]` the `active_release_scope` row of a scope
key (0 is "no row"; ids are never reused), `incident[i]` an `incident_record`.  An administrator's
handler is two steps, `Read...` and `Commit...`: the reads with the handler's preconditions, and the
flush, which writes the columns that differ from what was read (`Write`), or fails when the row is
gone or a second row for the key exists (`Abort`).  Deleting a scope row deletes the incidents the
handler had loaded (ORM cascade) and sets the scope id of any other to NULL.  The gate
(`evaluate_assessment_visibility`) is two steps likewise, `ReadScope` and `Decide`, since it is two
queries.  `Score` is the use of the active release by an assessment, `PacksChange` the sign-off state
that visibility requires changing outside.

History variables: `granted[k]` remembers the row ids an administrator made visible, `calm` the
viewers whose request has seen a moment without an open incident.

### Listings

`fetches`, `rebuilds` and `builds` are the job rows by kind of work; `storage` and `snapshot` tell the
bytes of a raw asset from the hash its row records; `item`, `member`, `clusters`, `sites` are the
tables.  The id of a cluster is the hash of its sorted members, so a cluster *is* its members, and the
id of a site that of the cluster it was first built from.

| action | code |
|---|---|
| the requests, `Tick` | the listing routes, and `run_scheduler_tick` with the due test and the duplicate check |
| fetching | `_ensure_source_is_compliant`, the fetch (free choice of pages, or a failure), the borough filter |
| storing, replaying, committing | `persist_raw_assets` into the object store before the rows commit; the same bytes are accepted again |
| rebuilding | `rebuild_listing_clusters`: reads snapshots and listings, clusters, deletes and inserts members, relinks sites, enqueues builds; refused by a unique key when overtaken |
| surveying, placing | `build_or_refresh_site_from_cluster` from a job or from the API |

A statement the database refuses leaves a session that can only be rolled back: `mark_job_failed`
raises as well, and the worker process ends with its row still RUNNING.

### PlanningData, Screening, Suggestion, Labels, Evidence

`db` is the registers: source snapshots (a file with the job and the moment in it that captured it),
applications, brownfield parcels, zones, baseline packs.  A row is named by the version of its columns (`Row[r]`).  `site`, `links` and `labels`
are the rows of one site and of the labels.

| operator or action | code |
|---|---|
| `Import` (`ImportPld`, `ImportRegister`, `ImportLayer`) | the importers over `import_common.py`: a file seen before keeps its `captured_at`; a register import brings the supporting layers along in the same transaction |
| `CoverageGaps`, `LatestStatus` | `list_latest_coverage_snapshots`, `coverage_warning_dicts` |
| `Load`, `Match`, `Commit`, `Abort` | a refresh as a transaction under READ COMMITTED, with the deletion that waits, the deterministic ids that clash, and the columns that merge |
| `WithLinks`, `WithContext` | `refresh_site_links_and_status`, `refresh_site_planning_context` |
| `ExtantPermission` | `evaluate_site_extant_permission` |
| `Excluded`, `Supports`, `Strong`, `Units`, `AutoConfirmed` | `_evaluate_template_candidate`, `_nearest_historical_support`, `_auto_confirm_allowed` |
| `ReadApplications`, `ReadLabels`, `CommitLabels`, `AbortLabels` | `rebuild_historical_case_labels` as a transaction that another may overlap |
| `Review` | the gold-set review route |
| `Features`, `TrainingRows`, `Comparables` | `build_feature_snapshot`, the training rows of `scoring/train.py`, `build_comparable_case_set` |

Abstractions.  Land is a line of cells, so areas, shares and distances are counts of cells; the
thresholds (50 m, 100 square metres, a tenth, 5 per cent) are those of the code.  An import is atomic.
A suggestion is one read of the tables: `ConfirmedOn` says what it would confirm in a state.  The
confidence of a red line belongs to the geometry, and MEDIUM counts as HIGH, which every gate here
treats alike.  The date of today stands still.  Families of zones stand for the designation profile
of a label.  Which three of the comparables are taken, and the rank of candidates, are left out.

### Scenarios

One site.  A handler is a function from what its session loaded (`Loaded`) to the effects it may
leave (rows, site geometry, revisions added, scenarios assessed, what happens to the queued refresh).
A request that nothing overlaps is one step, `Serve`.  A request of `Sessions` is two: `Begin` loads
and decides, `Finish` commits column by column what it changed (`Merged`), `Abort` is the failing
INSERT.  All order the code gets from ranks and time stamps ("the first of") is a free choice, and so
are the verdict of the extant-permission screening, the contents and automatic confirmation of a
candidate, and the draft geometry of a cluster.

| operator | code |
|---|---|
| `Reject`, `Confirm` | `confirm_or_update_scenario`; `ConfirmSuperseding` adds a row that the loaded `site.scenarios` does not hold |
| `Suggest` | `refresh_site_scenarios` with `_persist_candidate`, `_assign_headline_scenario`, `_mark_stale_current_auto_scenarios`; a job also assesses the headline |
| `SaveGeometry` | `save_site_geometry_revision` and the refresh job its route enqueues |
| `RefreshFromCluster` | `build_or_refresh_site_from_cluster`: leaves a site that is `ANALYST_DRAWN` alone, queues nothing |
| `RefreshGeometryJob`, `RefreshRulepackJob` | the two refresh jobs |
| `Assess` | the guard of `create_or_refresh_assessment_run` |
| `Recomputed`, `Headlines` | `_recompute_headline` over the loaded collection |

The rulepack refresh job is dispatched by the worker although nothing in the repository enqueues it
today; the model lets it run at any time.  The assumptions of a scenario that are not part of its
deterministic id (height band, mix, parking, ...) are abstracted.

### Assessments

`row` is everything committed for one idempotency key; a builder works on what it read when it looked
the key up (`view`) and on its own `draft`, which others see when it commits.  What is computed is
abstracted to the version of the data, the release and the rows it was computed from, so that
"replays to the same hash" is "is computed from the same things".

| action | code |
|---|---|
| `Lookup`, `Begin` | the idempotent lookup of `create_or_refresh_assessment_run`, and the first flush, which locks the run row |
| `BuildFeatures`, `PersistEvidence`, `BuildComparables`, `Score`, `Value`, `Capture` | the steps of the build with their flushes, up to the commit of the ledger |
| `Fail`, `Crash` | a raising build: the worker commits FAILED with what was flushed, the API rolls back |
| `OverrideLoads`, `OverrideValuation`, `OverrideOther` | `apply_assessment_override`, which may value an assumption set beside a build |
| `VerifierLoads`, `VerifierRecords` | the replay batch |

## Runs

Twelve runs, ten that pass and two that end in a counterexample; `PROJECT.json` gives each passing
property a mutant, a plausible bug of one mapped definition with which TLC finds the property
violated.  Symmetry is used for safety only, over sets whose members nothing compares.

| run | instance | distinct states | shows |
|---|---|---|---|
| `lease` | 2 rows, 2 workers with one shared worker id, a handler that enqueues, 2 requesters, 2 attempts, 2 faults | 1 670 707 | TypeOK, ExclusiveRun, AttemptsCharged, TwinsBounded, FinalStaysFinal |
| `live` | 2 rows, 2 workers with ids of their own, 1 fault, fairness | 43 174 | EveryJobEnds |
| `serial` | 1 administrator, 1 viewer, 2 releases (one unsupported), 2 incidents, 2 rows | 3 104 628 | TypeOK, KillSwitchEffective, OneActivePerScope, OpenIncidentsResolvable |
| `race` | 2 administrators, 1 release, 1 incident, 2 rows | 447 628 | VisibleWasGranted |
| `pipeline` | 2 sources, 2 workers, 1 clerk, 3 listing jobs, 2 rows per piece of work, 3 events | 1 003 793 | TypeOK, SnapshotsMatchStorage, ClustersCurrent, SitesFollowTheirListing, OpenClustersServed |
| `evidence` | 4 files, 4 red lines, 2 boroughs, 2 refreshes and 2 rebuilds that overlap, 4 operations | 190 381 | TypeOK, PassIsCovered, PassMissesOnlyNews, ActiveWasScreened, ConfirmedOnHistory, ConfirmedInOneBorough, LinksOfOneGeometry, ReviewsStand, CountedOnce, TrainingIsBlind, NoHindsight, ComparablesAreOthers |
| `history` | 1 template, 2 geometries, 2 revisions, 1 draft id, no overlap | 230 896 | HeadlineSound, OneSuggestionPerTemplate, OnlyTheMachineMovesAssessed |
| `overlap` | 1 template, 2 geometries, 2 revisions, one request overlapped by another | 425 073 | TypeOK, OnlyOverlapCarriesForward |
| `build` | a request and a worker job build, 2 failures, 2 versions of the data, 2 assumption sets | 531 880 | TypeOK, ReadyReplays, LedgerValuedFromItsFeatures, CaptureIsFinal |
| `override` | 1 builder, 2 analysts, 2 overrides, 2 assumption sets | 844 456 | EffectiveOverrideStands, ValuationsWrittenOnce |
| `orphan`, `overtaken` | counterexamples | | see [below](#what-the-runs-found) |

What the properties say:

* `ExclusiveRun`, `FinalStaysFinal`: as long as no heartbeat of a process running a job was late, it is
  run by one process at a time, and SUCCEEDED or DEAD stays, whatever crashes, reclaims and retries
  happen and although two processes answer to one worker id.  A late heartbeat breaks both: the code
  has no fencing, and the properties say exactly under which condition it needs none.
* `AttemptsCharged`: a reclaim is not compared with `max_attempts`, yet every execution beyond it is
  charged to a crash or a late heartbeat of a process that was running that very job.
* `TwinsBounded`: the duplicate check locks nothing; the rows waiting with one key, plus the inserts
  about to be made, are at most the enqueuers of that key, retries and reclaims included.
* `EveryJobEnds`: every row reaches SUCCEEDED or DEAD for good.
* `KillSwitchEffective`: a viewer is shown a probability only if at some moment of the request no
  incident of the scope was open.  One administrator at a time.
* `OneActivePerScope`, `OpenIncidentsResolvable`: registry and scope row agree; an open incident sits
  on the live row, and there is one, so that neither the gate nor the resolve handler raises.  One
  administrator at a time; two break both.
* `VisibleWasGranted`: any administrators; a scope row is visible only if that row was made visible by
  hand.  Re-pointing, incident rollback and their races open nothing on their own.
* `SnapshotsMatchStorage`: a committed snapshot records the hash of the bytes that are in storage,
  although assets are stored before their rows commit and a job may run again.
* `ClustersCurrent`, `OpenClustersServed`, `SitesFollowTheirListing`: when no rebuild is to come, the
  clusters are those of the listings, and an open cluster has a build to come or a site that shows its
  newest listing; sites stay with their listing.  Each names what the code may lose: listings committed
  while a rebuild was at work, because a RUNNING rebuild counts as a duplicate of theirs; work given up
  after its attempts; a build whose cluster or site a rebuild changed under it.
* `PassIsCovered`, `PassMissesOnlyNews`: what a verdict PASS rests on.  A file that is imported again
  speaks without being heard, and a permission imported after the last refresh is not looked at.
* `ActiveWasScreened`, `LinksOfOneGeometry`: an ACTIVE site has complete coverage, a pack, one borough and
  a sure line, and its links are those of that line, unless refreshes overlapped.
* `ConfirmedOnHistory`, `ConfirmedInOneBorough`: the application an automatic confirmation rests on is
  no permission that may still be used, and the line it is confirmed on crosses no borough's edge,
  although the gates do not read the site's status or review.
* `ReviewsStand`, `CountedOnce`: reviews survive rebuilds; a case two registers report counts once.
* `TrainingIsBlind`, `NoHindsight`, `ComparablesAreOthers`: no training row knows its own outcome, the
  features of a date are those of the registers as they stood then, a site is not compared with itself.
* `HeadlineSound`, `OneSuggestionPerTemplate`: at most one headline and it is current and not
  rejected; at most one current machine suggestion per template although ids change with geometry
  and contents.  Requests that do not overlap.
* `OnlyTheMachineMovesAssessed`: the red line of a scenario that an assessment anchors to is moved by no
  confirmation, rejection or geometry change.  A suggestion may, see [below](#what-the-runs-found).
* `OnlyOverlapCarriesForward`: a scenario frozen on an old geometry that is neither marked nor under
  review was written by a request that overlapped the change of geometry, and by nothing else.
* `ReadyReplays`, `CaptureIsFinal`, `LedgerValuedFromItsFeatures`: a finished assessment replays, its
  captured payload is never rewritten, its valuation was computed from the frozen features.
* `ValuationsWrittenOnce`: the refinement; the valuation table implements `WriteOnce`.
* `EffectiveOverrideStands`: overlapping overrides never supersede the one in effect.

Bounds and why they are enough.  `MaxFaults` 2 allows a crash and a late heartbeat of one job, or two
of either, which is one more than any counterexample to a mutated queue needs; 2 rows and 2 workers
allow a reclaimed job beside a fresh one, and a third worker could only repeat what the second does.
Two attempts give one retry and one exhaustion.  `MaxRequests` bounds inserts; when no ABSENT row is
left an enqueue waits.  In `ReleaseControl` two rows per scope key are one deletion and re-creation,
and ids never recur; one scope suffices since handlers name a single scope key and share nothing
across keys.  In `Listings` two listings give every split and join of clusters, three jobs let a
listing be fetched while another's rebuild is at work and be fetched again, and `MaxEvents` 3 pays for a
request and two faults.  In `Evidence` `MaxSteps` 4 bounds imports, refreshes, rebuilds and reviews
together: the longest mutant trace has an import before, one in between and two overlapping
transactions; the files take coverage back and replace a permission, and any may be imported twice.
In `Scenarios` two revisions are one change of geometry, or of who drew it; two hashes
let a geometry come back; the third revision repeats the second.  `MaxOverlaps` 1 lets one request be
served between a load and its commit.  `history` uses the verdicts PASS and ABSTAIN: FAIL differs from
ABSTAIN only in the status it leaves, neither of which is confirmed.  `overlap` has no edits, because a
uuid4 chosen at load would clash in a small set of ids.  In `Assessments` two versions of the data tell
"as frozen" from "as now", and two failures let a retry fail again.

Fairness (`live` only).  Weak fairness of the worker's step (the poll loop of `main` runs for ever and
handlers are assumed to return or raise in the end, which their network timeouts make likely but the
queue does not enforce), of the heartbeat thread while it is timely (`Event.wait` with a timeout), of
`Restart` (the compose file's `restart: unless-stopped`), and of time.  Requesters need none: nobody
has to ask.  Faults have none, and are finitely many: with unbounded crashes no queue ends its jobs.

Deadlock is checked in `JobQueue` (time passes for ever), `ReleaseControl` (sign-offs may change for ever)
and `Scenarios` (the rulepack refresh may always run).  In `Listings`, `Evidence` and `Assessments` a
bounded number of requests is made and then everything may be done, so it is not.

## Proofs

Eight modules hold theorems, each beside the module it is about: `JobQueue_proofs`,
`ReleaseControl_proofs`, `Scenarios_proofs`, `Assessments_proofs`, `Listings_proofs`, and over `Evidence`
the chain `Registers_proofs`, `Labels_proofs`, `Evidence_proofs`.  TLAPS checks them to the last leaf,
for every value of the constants that the named assumptions allow.  Every property of a passing run
is proved but for `EveryJobEnds`.  Three groups of theorems have a hypothesis about how the system is used,
each a definition of its own that the corresponding run's constants satisfy: `OneAdministrator` and
`Sequential` (requests do not overlap, the case the runs `serial` and `history` check; the runs `orphan`
and `overlap` show what overlaps do) and `DecidedOnceValid`.

None of the properties is inductive as it stands: each says what the tables look like, and a step is
safe because of what a process, a handler or a transaction holds in memory.  So every invariant below
adds what the sessions hold.  One lemma per action shows that it keeps the invariant.

*JobQueue* assumes `TimingAssumption` (0 < BeatEvery < Lease: one minute against fifteen),
`ParameterAssumption` (types of the constants), `NoneAssumption`, and for the counts
`PopulationAssumption` (finitely many rows and processes, and a process is a worker or a requester).

* `Invariant` (`IInv == TypeOK /\ LeaseHeld /\ ExclusiveRun`): nothing in `ExclusiveRun` says why a job that is
  being run cannot be claimed.  `LeaseHeld` does: a job none of whose heartbeats was late and that a
  process runs has a RUNNING row owned by that process's id, a timely heartbeat, and
  `age + left <= BeatEvery`, so its lock is renewed before it expires (`HeldNotClaimable`).
  `TypeCorrect`, `RunIsExclusive` and `FinalIsFinal` follow, the last since only an end by the process that
  runs the job writes a final row.
* `AttemptsAreCharged`: `Charged` counts what a row may still cost.  Every execution that could reopen it,
  plus one if it may be claimed now, is covered by the faults it suffered and the attempts it has left
  (`AttemptsPaid`); that needs `LatestHeld`, that the last execution of a running row owns it and renews
  its lock until it is late, and `RowsKept`.
* `TwinsAreBounded`: rows waiting with a key and intentions to insert one are counted together, since an
  insert turns one into the other, and an intention arises only in a moment without a waiting row.  The
  hard case is `CommitEnd`, where the rows a handler flushed become visible with the end of its job.

*ReleaseControl* assumes `ReleaseAssumption` and `NoReleaseAssumption`.

* `ControlInvariant` adds `GrantsKept` to `VisibleWasGranted`: the mode an incident on a row would restore, or
  a handler would write to a row, was granted to that row.  Row ids never recur (`rowsMade`), so a grant
  cannot pass to another row.  `ControlTypeCorrect` and `VisibilityIsGranted` hold for any number of
  overlapping administrators.
* `SerialInvariant`, under `OneAdministrator`: a handler holds what the tables still say (`StillAsRead`), an
  open incident is on a row (`OpenIsOnARow`), and a gate that has seen no moment without an open
  incident still finds one on the row it read (`NoticedOrOpen`).  `RegistryAgrees`, `IncidentsAreFound` and
  `KillSwitchHolds` follow, for any number of viewers, who do overlap.

*Scenarios* assumes `ScenarioAssumption` and `NoneAssumption`.

* `ScenarioInvariant`, for any number of overlapping requests: each request is looked at on its own first
  (`RequestedEffect`: what it leaves of the rows it loaded), then its commit over rows that have changed
  meanwhile.  `SessionOK` says what makes that safe: the request has noticed every change of geometry
  since its load, and in between no row outside `exposed` has come to life on another geometry, so that
  a column it writes and a column it leaves cannot together make a row that nobody marked.  `RowsTyped`
  and `CarriedForwardOnlyByOverlap` follow.
* `SequentialInvariant`, under `Sequential`: what a request loads is in order (`Found`: one headline, one
  machine suggestion per template), and every request leaves it so.  `OneHeadline`, `NoTwinSuggestions`
  and the action property `AssessedStay` follow.

*Listings* assumes `ListingsAssumption` and `NoneAssumption`.

* `PipelineInvariant`: a run that has stored its page finds it there until it commits (`StoredKept`); a build
  that has looked the site up found one of its cluster, and sites are never deleted (`FoundBuilt`); every site's
  cluster has its row (`SitesPlaced`).  A rebuild's commit is right because it read the listings alone or
  names the listings it missed in `behind`.  `SnapshotsAreStored`, `SitesFollow`, `ClustersAreCurrent` and
  `TypeCorrect` follow, for any sources, workers and clerks and any clusters.
* `OpenAreServed`, from the property itself on top of that invariant: a rebuild leaves a build to come for
  every open cluster (`BuildsWanted`); a build that is given up is recorded; and one that commits writes
  the newest listing as it read it, or is `dated`, or has gone astray (`CommitBuildServed`).

*Assessments* assumes `ParameterAssumption`.

* `DraftsStand` (`LockHeldOnce`, `DraftStands`, `Readers`): one session at most holds the lock of the run row, and
  what any session has read or drafted as a finished valuation is not contradicted by the table.
  `TypeCorrect` and the refinement `ValuationsImplementWriteOnce` (`Spec => ValuationTable!Spec`) follow.
* `EffectiveStands`: by `Chained`, an override row points to an earlier row of its type, or none.
* `FreezeInvariant`: until a failure goes over a finished run, nobody who can still commit works on rows that
  have a ledger (`Freezing`); what a builder has flushed is its own, and its result was computed from it
  (`Drafting`); the valuation a ledger names is finished and computed from what was frozen (`Frozen`).
  `FinishedReplay`, `LedgerBinds` and the action property `CapturesAreFinal` follow.

*Registers, labels and the site* assume `PlanningAssumption`, `ScreeningAssumption` (no borough is the
value for "none", a red line covers finitely many cells and its confidence is one of three),
`LabelsAssumption`, `SuggestionAssumption` and `EvidenceAssumption` (dates are numbers).

* `RegistersInvariant`: every row of a table is one of a file with a snapshot, and the file whose import
  spoke last of a family in a borough is the last one captured, unless it had been there before
  (`Heard`).  `PassesAreCovered` follows.
* `ReviewsAlwaysStand`: a rebuild that no commit fell into has seen every application with a label (imports
  take none away) and has read the rows there are, so that it deletes none and writes no review.
* `LabelsInvariant` adds that the rows, apart from their reviews, are those computed from what the last
  unmixed rebuild read (`LabelsComputed`).  Then the properties are about two computations:
  `CasesCountOnce` about the two priorities of the registers, `TrainingNeverLooks` about features before and
  after one outcome is turned round, `FeaturesWithoutHindsight` about features of the registers as they are
  and as they stood.  All three compare features by what each count depends on (`FeaturesAgree`).
  `FeaturesWithoutHindsight` needs `DecidedOnceValid`, that no register dates a decision before the case was
  validated: the rates of a borough count cases by their decision and take no date of validation, so
  such a case would be counted on a date on which it was not known.  The code does not check it.
* `EvidenceInvariant`: a transaction no commit has fallen into still has the site and the links as it read
  them, and the rows it will insert are measured on the line it will write (`LoadedStands`,
  `MatchedStands`); the borough is the line's unless borough reads overlapped (`BoroughStands`); status,
  review and warnings are of one look at the registers (`ContextStands`); the links are those of the
  applications as last read (`LinksAsRead`).  The hard step is `CommitKeeps`, over what `Written` makes of a
  row that has changed meanwhile (`WrittenRow`, `MergeAlone`, `MergeKeeps`).  `LinksAreOfOneGeometry`,
  `ActiveSitesWereScreened`, `ConfirmationsAreInOneBorough`, `PassesMissOnlyNews`, `ConfirmationsAreOnHistory`
  and `ComparedWithOthers` follow, for any number of overlapping refreshes, any registers and any geometry.
* `TablesTyped`: a table of the site never holds two rows for one feature, because a commit that would
  insert a second one is refused (`Clash`), whoever inserted the first (`TablesInv`).

Model-checked only: `EveryJobEnds`, since liveness under fairness is outside this prover; and the two
counterexamples, which are no theorems.  Attempts at proofs changed three models, each towards the code:
the snapshots of the registers became a function from a file to its time of capture; their priorities
the two that the code gives; and a site build writes the columns that differ from what it found.  The
last came of `OpenClustersServed`, whose earlier form failed for four events, one more than `pipeline`
allows, as a directed run of TLC confirmed: a build that a rebuild overtakes can write the site of
another cluster.  The property now names that exception.

## What the runs found

Two runs end in a counterexample to something the repository says of itself.

* `orphan`: two administrators, one opens an incident while the other retires the release.  The
  scope row is deleted and the new incident keeps status OPEN with a NULL scope id;
  `get_open_incident_for_scope` looks by scope id only (`review/visibility.py:107`), so after the next
  activation the probability is shown and nobody can resolve the incident.
* `overtaken`: a worker looked the assessment up before another build finished; it waits for the lock of
  the run row, does not look again, replaces features and evidence, raises, and commits FAILED over a
  READY run (`assessments/service.py:314`).

What the models allow and no run refutes, because no document says otherwise or because the passing
property names it as its exception:

* A suggestion finds a scenario by its id whatever has become of it (`scenarios/suggest.py:594`).  A rejected
  one is made current again; and where a save or a cluster refresh makes an earlier geometry revision
  current once more, a row an analyst has confirmed and an assessment anchors to is the machine's
  again, on the other line.  The Phase 8A plan asks to "supersede instead of mutating" such rows, of the
  confirmation; the confirmation does.
* An application that backs an automatic confirmation is read as it is now, the screening reads what the
  links froze: until the next refresh a linked application that has become a live permission is strong
  support, and the site still passes (`suggest.py:727`).
* Automatic confirmation looks at neither the site's status nor its review (`suggest.py:757`).
* Two candidates at one distance are compared by date, and a missing date cannot be (`suggest.py:746`).
* Two confirmations that overlap leave two headlines; a site's only scenario, edited, gets none
  (`normalize.py:331,339`).
* `retire_model_release` takes any release to RETIRED and `activate_model_release` refuses NOT_READY only: a
  release that failed validation goes into force in two legal calls (`scoring/release.py:297`).
* The borough and title jobs set review and status without the registers, so that they clear a review the
  registers asked for, until the next refresh (`sites/service.py` `refresh_site_links_and_status`).
* Coverage that goes from A to B and back to A stays at B: the file imported again keeps its old time of
  capture (`import_common.py:57`).
* A decision taken on the as-of date itself counts as known; a stronger register's later report takes an
  earlier case out of point-in-time counts.
* A site build that has looked its site up when a rebuild moves the site to another cluster writes that
  cluster's site.  The rebuild asked for no other build, as the one at work counts as a duplicate: its own
  cluster has no site until the next rebuild (`sites/service.py:101`, `jobs/service.py:93`).
* Two sites whose listings end in one cluster, or a new site whose id is taken, fail at every retry
  (`listings/service.py:573`).

## What is left out

* Text, HTML and PDF parsing, computational geometry, floating-point scoring and valuation arithmetic:
  pure functions whose results enter the models as free choices or as data of the constants.
* Evidence assembly, readback services, monitoring, audit export and the web front end: they change no
  state another part reads.
* Authentication: a signed cookie checked per request.
* Market-data imports, boundary-file imports, the remote object store's refusal of an existing key, the
  provenance of features, event rows.
* Migrations and deployment scripts, but for the constraints and restart policies the modules use.
* Database errors other than the refused statements above.

## Plan

Done: `JobQueue`, `ReleaseControl`, `Scenarios` (first), then `Assessments` with its refinement, `Listings`
with the scheduler, `PlanningData` to `Evidence`, and the proofs above.  Next:

1. Valuation as pure operators: residual, quality and ranking over bounded inputs against a reference
   definition, and the market imports that feed them.
2. `Listings` over `JobQueue` instead of its own queue, for liveness of the pipeline.

## Running

```
tlc -workers 2 -config MCJobQueue_lease.cfg MCJobQueue
tlapm JobQueue_proofs.tla
```

On two cores `pipeline`, `lease`, `serial`, `history`, `overlap`, `override` and `evidence` take two to
four minutes, the others about a minute or less.  The proofs of a module take from half a minute to
three minutes from nothing.
