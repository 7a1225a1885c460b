# A verification development for video-media-catalog

TLA+ models of the control logic of `video_media_catalog`, TLC configurations
that check them on small instances, and proofs that TLAPS checks for every
instance. The program is a batch data plane: it captures sources, writes Silver
assertions into Iceberg, resolves identities, builds a Gold release, projects it
into OpenSearch, and later archives the previous index. Almost no step of it is
transactional beyond one table or one object, so what the models are about is
what happens between two such steps.

Paths below are relative to `src/video_media_catalog/`.

## 1. The system

| Component | State it keeps | Operations | Interacts through |
|---|---|---|---|
| Silver ingest (`community_iceberg.py`, `iceberg.py`) | Iceberg data tables, run manifests, commit markers, snapshot histories | `stage_and_commit`, `create_tables`, `read_commit`, `read_run` | Iceberg snapshots; readers join heads with the commit table |
| Failed-run rollback (`iceberg_maintenance*.py`) | snapshot heads, rollback tags | plan, execute, verify `rollback-failed-run` | the same tables, while ingest goes on |
| Gold release (`gold_iceberg.py`, `gold_ingest.py`) | Gold tables, plan rows, commit rows | `stage_and_commit` of a release | pinned snapshots read by the index builder |
| Index retention (`gold_index_gc.py`) and promotion (`opensearch_index.py`, `gold_index_promote_cli.py`) | indices, read alias, snapshots, receipts | archive-delete, restore-drill, compact-snapshot, promote | OpenSearch, Kubernetes Jobs, receipts in S3 |
| Catalog execution (`temporal/workflows/catalog_execution.py`, `spark_backend.py`) | workflow status, checkpoint, provider job, completion receipt | submit, reconcile, observe, cancel, rollback, complete | Temporal activities and signals, Spark provider, object store |
| EMR stages (`emr_serverless_cli.py`, `temporal/workflows/golden_build.py`, `tmdb_pipeline.py`) | jobs, activity attempts, stage results | the four stages of a Golden Build, the Silver batches of TMDB | EMR Serverless, driver logs in S3 |
| Golden evidence (`temporal/activities/golden.py`) | immutable control documents | verification of stage summaries | S3, driver summaries |
| Research domain (`temporal/workflows/research_domain.py`) | completed and failed sources | child workflows, continue-as-new | child workflows, Golden Build |
| Index build (`gold_search_index.py`, `gold_index_cli.py`) | concrete indices, build manifests, validation receipts | build, resume, validate | OpenSearch, Gold commit |
| Wikidata capture (`wikidata_sync.py`) | multipart uploads, staging and final objects | `sync_official_dump` | dumps.wikimedia.org, a versioned bucket |
| Wikidata backfill (`wikidata_backfill*.py`, `wikidata_spark.py`) | normalized Parquet of a dump and its marker, a record set of shards, partitions and epochs, commit | profile, backfill, reuse of a commit | a published dump, Spark, object store |
| IMDb capture (`imdb_sync.py`, `connector_publish.py`) | raw files, batch manifest, record shards, partition checkpoints, record set | partitioned capture in a process pool, resumption | worker processes, object store |
| Europeana capture (`europeana_oai.py`, `connector_publish.py`) | raw pages, batch, record set, watermark, receipt | bounded capture of a window, resumption from a watermark | OAI endpoint, object store, the operator |
| EIDR lookups (`eidr_backfill*.py`, `eidr_public_provider.py`, `temporal/workflows/eidr_public_research.py`) | pages and manifest of discovered identifiers, batches, captures, receipts, watermarks, run manifest, summary | discovery, bounded lookup, resumption from a watermark, research workflow | public resolver, object store, Source Silver |
| TMDB capture (`tmdb_sync.py`, `tmdb_capture_cli.py`, `temporal/activities/capture.py`) | window plans and cursors, batches of a day | exports of a day, changes of a day in window shards | the change index, the Silver half of the workflow |
| TVmaze capture (`tvmaze_sync.py`, `tvmaze_delta_sync_cli.py`) | batches, window plans | snapshot of the show index, delta windows | the TVmaze API, object store |
| Object store (`object_store.py`) | immutable objects | conditional publication, verified reads | every other part |
| Source Silver jobs (`community_cli.py`, `source_silver*.py`, `record_shard_materialization.py`) | staged shards, mapped outputs, group receipts | a plan of batches: stage, map in groups, land | object store, Silver ingest |
| Epochs and releases (`research_silver_cli.py`, `community_snapshot.py`, `community_release.py`) | snapshot handoffs, epochs | publish-snapshot, resolve-identity, publish-epoch | committed runs |
| Identity resolution (`identity_spark.py`, `source_lifecycle.py`, `identity_curation*.py`) | entity ledger, memberships, external-ID index, redirects, conflicts | full and incremental resolver runs, review manifests | committed source runs, the Identity tables |
| Gold transformation, source policy, adapters | none of their own | pure functions over rows | inside the Spark drivers |

`PROJECT.json` lists every component with its status; `not_modelled` ones name
the reason or the place in the plan.

What is hard in it:

* **No isolation between writers.** An insert-only `MERGE` ends in an Iceberg
  append, which is not checked against rows that came in after its anti-join.
* **Death between any two calls.** Spark drivers, operator commands, Kubernetes
  Jobs and Temporal workers die, and a retry finds what they left.
* **Check, then act.** Heads, aliases, Job lists and objects are read and then
  acted upon by a call that is not conditional on what was read.
* **Lost, late and repeated calls.** An activity that was given up may still
  perform its call; an answer may be lost; a token must make a retry harmless.
* **Budgets.** Observation counts, retry policies and deadlines must end what a
  provider never ends.

Per component, correctness means: a run or a release becomes visible in one
step, whole and for good, behind exactly one marker that pins exact snapshots
(ingest, Gold release); an undo removes the rows of its run, of no other, and
can be repeated (rollback); a manifest that holds an Identity run holds those it
extends, and a release has its sources resolved once, under a contract that
admits them (Silver commands, Golden builds); what is deleted is archived behind a receipt and the
serving index is never it (retention); one provider job per execution, a true
and immutable receipt, and an end (execution); at most one live job per build,
no result without a job that succeeded, no job left running (EMR stages); what is
published is the official, whole and unchanging content, whoever shared the work
or died, and a committed page is committed once (captures).

## 2. Modules

| Module | Models |
|---|---|
| `AtomicRuns` | the abstract specification: runs appear in one step, whole, and stay |
| `OwnedSnapshots` | an Iceberg table as its snapshot history, and `find_owned_snapshot_id` |
| `CommunityIngest` | `CommunityIcebergTables.stage_and_commit`: one action per catalog call or check; writers for source, full, incremental and curation runs |
| `CommunityIngestProps` | what its marker promises, the refinement of `AtomicRuns` |
| `CommunityIngestProofs` | proofs about `CommunityIngest`, among them that runs are atomic when stale appends are refused, about Identity runs and `FailedRunRollback` |
| `GoldReleaseProofs` | proofs about `GoldRelease`, and about `SilverLineage` and `GoldenBuild` as `MCGoldRelease` composes them with it |
| `SourceSilverProofs` | proofs about `SourceSilver`: checkpoints, and what is landed from them |
| `CatalogExecutionProofs` | proofs about `CatalogExecution` |
| `GoldIndexGcProofs` | proofs about `GoldIndexGc` |
| `GoldIndexProofs` | proofs about `GoldIndexBuild` and `GoldIndexProjection` |
| `PipelinesProofs` | proofs about `EmrPipeline`, `ResearchDomain` and `CatalogExecution` as `MCPipelines` composes them |
| `CaptureProofs` | proofs about `WikidataSync`, `ConnectorPartitions`, `EuropeanaCapture` and `WikidataBackfill` as `MCCapture` composes them |
| `SourceSilver` | the Source Silver job: staging of shards, mapped groups behind receipts, the run that is landed; uses `ImmutableStore` |
| `FailedRunRollback` | `rollback-failed-run` composed with `CommunityIngest` on the same tables |
| `SourceLifecycle` | what committed source batches say at an instant: lifecycle events, current assertions, inactive records |
| `IdentityResolution` | one resolver run: components, parent-constrained children, conflicts, closings |
| `IdentityRuns` | the runs and review manifests of a generation over source runs that keep being committed |
| `GoldRelease` | `CommunityGoldTables.stage_and_commit`; uses `OwnedSnapshots` and `AtomicRuns` |
| `SilverLineage` | publish-snapshot, publish-epoch and resolve-identity of `research_silver_cli.py`, several of them beside an ingest |
| `GoldenBuild` | the Golden Build over `SilverLineage`: preflight, the evidence of each stage, reuse of an Identity run, source policies |
| `GoldReadAlias` | promotion of the read alias and its activation receipt |
| `GoldIndexGc`, `GoldIndexGcProps` | the three Jobs of index retention composed with promotion |
| `ExecutionInputs` | what an execution may be asked for: provider profiles, ObjectRefs, transfer plans, data locality, the locks of an image |
| `CatalogExecution`, `CatalogExecutionProps` | the execution workflow, its activities, provider and receipt; uses `ExecutionInputs` |
| `EmrPipeline` | the stages of a Golden Build or of the TMDB Silver batches as Temporal activities over EMR jobs |
| `ResearchDomain` | `ResearchDomainWorkflow`: captures, Silver children, the failure budget, continue-as-new, the Golden Build |
| `GoldIndexBuild` | the index build Jobs: launch, adoption, plan, resumption, bulk, repair of an affected projection, validation, receipts |
| `GoldIndexProjection` | what a correct projection of a release is, for `GoldIndexBuild` |
| `ImmutableStore` | conditional publication of an object: the outcomes of one call |
| `WikidataSync` | `sync_official_dump`, several of them, over S3 calls |
| `ConnectorPartitions` | the partitioned IMDb capture: pool, shards, checkpoints, record set; uses `ImmutableStore` |
| `EuropeanaCapture` | `capture_europeana_oai` and the commit of a window; uses `ImmutableStore` |
| `WikidataBackfill` | the full-media backfill of a published dump: selection, layout, record set in epochs, commit; uses `ImmutableStore` |
| `EidrBackfill` | discovery of EIDR identifiers, bounded lookup commands, and the end of the research workflow; uses `ImmutableStore` |
| `CaptureWindows` | `CaptureWindowPlan` and `plan_bounded_capture_windows`: windows over sorted identifiers, the cursor, the selection |
| `TmdbCapture` | the capture half of the TMDB workflow over an index that moves while it is listed; uses `CaptureWindows` |
| `TvmazeCapture` | the snapshot and delta commands of TVmaze over shows that change; uses `CaptureWindows` |
| `MC*` | instances for TLC |

### Correspondence

*Ingest.* A writer's `pc` is the place in `stage_and_commit`; `tbl[t]` is a
table's history with its head, `markers` the commit table, `pins` the lineage an
Identity plan was computed from. Each read of the catalog and each write is an
action. A `MERGE` is two actions, `ReadBase` (the anti-join) and `Land` (the
append), because other commits land between them; a table whose head moved may
accept or refuse the append (`StaleAppend`). A `MERGE` may land although its
call raises; the code then reads what is there. Rows are keys; a row remembers
the snapshot that added it, so that two copies of one logical row differ. The
manifest's expected counts are part of a run's identity, as they are part of
the digest `run_id` (`community_ingest.py`).

*Source Silver.* `job[j]` is a driver at the batch `n` of its plan. `store` has the
staged shards, by the checksum of their content, and the receipts of groups;
`outputs` what an attempt has written of a group, table by table. A row of the
table `field` remembers the mapper that made it. A shard is staged in one step
with the outcomes of `PublishOutcomes`. `images` is the pair of images before and
after an upgrade, with a mapper and the policy of its registry.

*Rollback.* An invocation plans actions over `Eligible` tables in
`RollbackOrder`, and for each table reads the state, re-reads the head, moves it
and verifies, every one a separate action; it dies between any two. `refs` are
protecting tags. `Drive` and `Invoke` say who may start: Identity drivers one at a
time and never beside an invocation, as the Golden workflow and the operator run
them, source drivers whenever they like; they share the run table only, since a
generation's tables take Identity runs alone and those write no source table
(`_validate_identity_run_mapping`, which is `RollbackConstants`).

*Identity.* `mem`, `idx`, `led`, `red` and `conf` are the tables of a generation.
`CommitBatch` commits a source run, `Resolve(D, c)` is a resolver run over the
source runs `D` under the configuration `c`, `Curate` a review manifest of one or
two operations. `SourceLifecycle` and `IdentityResolution` are functions of a
delta and the tables, written as the Spark plan is: `Labels` propagates the least
label for a bounded number of rounds, `Decide` is the resolution mode of a
component, `Binding` the choice of a child's parent. An entity is named by the
node and the instant it was allocated for, as its key is derived from them. A run
is one step: its landing is the subject of `CommunityIngest`.

*Gold release.* As for ingest, but a builder never inspects partial rows; the
owned-snapshot check decides.

*Silver commands.* `runs`, `marks` and `rows` are the run, commit and data
tables as sets of runs, `man[u]` the manifest stored at an URI with the heads it
pins, `cmd[a]` what an actor runs. Reading a head, publishing, and the manifest,
rows and marker of an Identity run are actions of their own; the checks between
two of them are one. A run names what its `pinnedInputs` hold: mode, generation,
input manifest, source runs and policy. Rows of one run land in one step, since
`CommunityIngest` has the tables one by one. `legacy` names manifests published
before publications were closed over Identity lineage.

*Golden builds.* `gold[b].pc` is the place in `GoldenBuildWorkflow.run`. A stage
submits a command of `SilverLineage` as actor `b` and compares its result; one
EMR activity runs at a time (`Fence`), as `golden_worker.py` demands, and
`EmrPipeline` has what attempts and timeouts do to a stage. Any build whose
Identity has succeeded may be named by the reuse receipt of another. `policy` is
the contract in the deployed image.

*Index retention.* A Job's `jpc` is its place; every OpenSearch or object-store
call that changes state is an action; the checks before a call are evaluated in
the action that decides on it. `made` numbers the snapshots ever started and
stands for their UUIDs. Promotions are not Jobs and interleave freely.

*Execution.* `wf` is the workflow instance (deterministic between activities),
`act` its pending activity, `late` what given-up attempts may still do. Every
activity is an action of its own; one given up may still submit or cancel a job
at the provider, while a late observation or receipt read changes nothing and is
not kept. The input and the image's locks are chosen at the start, valid or not,
and validated by the workflow, by the activities and by the runtime, each as its
own code does; a digest stands for the document it is taken over.

*Index build.* `at[r]` is the place of operator `r`, whose launcher adopts or
creates the Job, `run[j]` the Job. Documents of an index are numbered by what
they were projected from, so a document of the baseline differs from its
revision. A batch of the `_bulk` API is one action; a Pod dies between any two.
The build ID is a function of release and baseline as in the code, which is
why a run casts full or incremental builds and never both. Manifest and receipts
are records with the fields the code compares; a receipt is believed as
`ReceiptValid` says. A submission with one of nine `Flaws` is refused where the code refuses it, and so
is a manifest of affected entities that was made for another release. All runs
have one index configuration.

*Research domain.* The workflow is deterministic between activities: `Poll` takes
one completed child, `Take` and `GiveUp` are the two ends of a failed one, and
`Fire` is the execution timeout. A child is a `Silver` child workflow with its
attempts, as `EmrPipeline` has it in detail, or the capture that precedes it.

*EMR stages.* `att` are the attempts of a stage's activity, the given-up ones
included; `jobs` are what EMR holds; `phase` is the server's view.

*Captures.* A dump, a shard or a page is the number of what it was read from:
bytes have a SHA-1 when all their ranges come from one edition. A key of the
object store is a tuple of what the code builds its path from, so a batch whose
identity holds its raw references is a tuple that holds them. A harvested page has
the records that its listing puts there, with the revision it was read at as their datestamps;
what a record says is left out. One publication is
one action with the outcomes of `PublishOutcomes`: refused, stored with its
reply lost, stored, or the same bytes found. `sy[s].out` is what a Wikidata sync
returns or raises once its `finally` blocks are through; `cap[c]` is a capture;
`task[c][p]` outlives the capture, as worker processes outlive it.

*Wikidata backfill.* `run[r].pc` is the place of a driver: the verified dump, the
commit that may be there already, the normalized staging that all runs of a
dump share, the build, then `publish_full_media_backfill` from shards to the commit, one publication a step.
What a build holds is a function of the lines (`Builds`), computed once in `dump`;
`Scope` is what it is to be, by least fixed points. A Spark job is one step; the
staging of normalized rows has the check for the target and the write apart,
since `errorifexists` is no lock. Shards that a run stages for itself carry the
attempt in their path and are left out. The digest of a build stands for its
dump, configuration and image, of which only the image differs between runs.
Sizes are small numbers, and a watermark's reference version is left out.

*EIDR lookups.* `look[l]` is a lookup command, `apart` whether commands share a
process and with it the semaphore of one batch. The store maps the content of an
object to it, since every key of `eidr_backfill.py` is the digest of what the
object says; `Says(ref)` is what a reader gets. `from` and `at` are the watermark
the command was given and the one it has reached; `registry` grows while
commands run.

*TMDB and TVmaze.* `live[k]` is the change index of a kind, in its own order, page by
page; `day` is the activity with the windows still to be captured, `sync` its running
call, which fetches one page or one detail in a step. A cursor holds the digest of
the ordered identifiers, here the identifiers themselves. `updated[s]` is the
time of the last change of a show; a command reads a page, the updates table or
one show in a step, and the batch it publishes holds what it read.

## 3. Runs

| Run | Instance and bounds | Shows |
|---|---|---|
| `source_ingest` | two runs over two tables, one of two keys shared; `cast` chooses two exact duplicates, two different runs, a resubmission after the first submitter stopped, or two Source Silver jobs over two record sets of three shards and one, three captures, two upgrades | `OneMarkerPerRun`, `MarkerPinsExactRows`, `RefinesAtomicRuns`; `CommittedIsRecordSet`, `CheckpointsAreWhole`; `ResumedRunCommits` under fairness |
| `source_marker_race` | two exact duplicates, stale appends land | **violated** `OneMarkerPerRun` |
| `identity_runs` | `cast` chooses one generation with a full, an incremental (submitted twice) and a curation run that land table by table; a rollback with two invocations; a rollback beside source runs; or the decisions of runs over five stories of source batches, three configurations, three reviews | `IdentityOnPinnedLineage`, `RollbackResumable`, `CommittedRowsExact`, `DoneMeansClean`, `RollbackSparesOtherRuns`; `OneEntityPerNode`, `RedirectsResolve`, `OpeningsJustified` |
| `resolver_closes_active` | the decisions alone | **violated** `ActiveIsKept` |
| `gold_gc` | three indices, promotion and its rollback, two archive-deletes, a drill, a compaction; one death, three snapshots, which may fail | `ServingIndexSurvives`, `ArchiveHolds`, `FallbackCleansUp` |
| `gold_gc_progress` | one promotion, two deaths, snapshots succeed | `CompactionCompletes` |
| `gold_release` | `cast` chooses one of: two drivers of one plan and one of another, one table stays empty; two operators with two commands over two or three sources beside an ingest, the history with and without a legacy snapshot; two Golden builds over two baselines, two generations, four sources, one policy upgrade | `CommitPinsExactRows`, `ReleasesAreAtomic`, `MixedAttemptsStayHidden`; `ManifestsAreWhole`; `ReleaseIsResolved` |
| `pipelines` | `cast` chooses a Golden Build or the TMDB batches: two stages, two attempts each; or a research domain: two sources, a failure budget, one continue-as-new; or a Catalog execution: ten inputs and five images, three observations, two attempts, two starts, with signals and evidence that grows; or a TMDB day: one kind, two identifiers, one on a page, one a capture, three shards, two requests a fetch, one move of the index | `OneJob` (of a build, of the Silver children, of an execution attempt); `ResultsAreWhole`, `NoJobLeaks`; `GoldenOfAllSources`; `ReceiptIsTruth`, `NoRunawayJob`; `WorkflowsEnd` |
| `silver_retry_adopts_failed` | the same | **violated** `RetryRunsAgain` |
| `gold_index_build` | three keys, two of them in the baseline, two partitions, one entity changed or replaced; two submissions of one projection, two projections of one release, or three builders by hand, full or incremental; two launch attempts and two validation attempts | `ResultIsRelease`, `ServedIsRelease`; `ProjectionEnds` |
| `index_stale_receipts` | the same, receipts outlive the index they were written for | **violated** `ResultIsRelease` |
| `capture` | `connector` chooses one of: two Wikidata syncs, two editions, two ranges, two attempts, a validator the editions share; two IMDb captures of two datasets, two shards, two workers; two Europeana captures, two sets, three pages, two pages and three records a capture, two records a shard, two revisions, nine listings; two EIDR lookups over three discovered identifiers in three pages, one of which is registered late, two at a time and three or two batches a command; three commands over three shows of TVmaze, one on a page, one update a window, one change of a show; two Wikidata backfills of one of five dumps of up to seven lines, official or not, two images, three rounds of a closure, shards of two bytes, two shards a partition, one partition an epoch, two epochs | `PublishedIsOfficial`, `SyncsCleanUp`; `RecordSetIsWhole`; `ResultsAgree`; `ChainHasNoGap`, `PagesCommittedOnce`; `CommandsEnd` |

Every property is accompanied in `PROJECT.json` by a mutant of a modelled
definition that violates it under the same configuration; the mutants stand
before the definitions they mutate and are marked so.

Several `MC` modules add a variable (`cast`, `regime`, `connector`) that is chosen once and
decides who takes part in a behaviour. It keeps instances small without giving
up a scenario: the duplicate cast of `MCSourceIngest` needs no third run, and a
rollback beside source ingestion needs no second invocation. Where a cast
excludes an interleaving, it is one the violated run shows to matter, or an observation below describes:

* `identity_runs`, `NoRace`: nothing lands between the last head check of
  a rollback and the move.
* `identity_runs`, cast `decisions`: a behaviour tells one of five stories of
  source batches, since sources that share no identifier, relation or scope do not
  interact. The last story asks for chains of redirects, its reviews only redirect.
* `source_ingest`, cast `duplicate`: a stale append raises instead of landing.
  `source_marker_race` lets it land.
* `source_ingest`, cast `mapping`, `QuietDeploy`: an image is deployed while no job
  runs and no run has landed in part.
* `gold_gc`, `QuietDelete`: the alias does not move between the final check and
  the deletions.
* `gold_gc` and `gold_index_build`, `LaunchRace = FALSE`: launchers list the Jobs
  one at a time.
* `gold_index_build`, `StaleReceipts = FALSE`: a run does not believe receipts of
  an index that was deleted. `index_stale_receipts` lets it.
* `gold_index_build`: full and incremental builds of one release exclude each
  other, and an execution that was given up does no late reindex. A reindex or an update by query, which the code starts
  as a task of OpenSearch and polls, ends with the run that started it.
* `capture`, EIDR: lookups in processes of their own run one after the other, a
  later one from a watermark. Lookups of one process overlap.
* `pipelines`, `OneJob`: of Silver children asked while no worker died on a Silver job.
* `gold_release`, cast `landing`: `ReleasesAreAtomic` is not asked of duplicate
  drivers whose stale appends land; `CommitPinsExactRows` is.

* `gold_release`, cast `commands`: the second operator starts while the first
  one's command runs, and asks for all committed runs but at most one, or for the
  source runs; what is asked for in vain ends in the same refusals.
* `gold_release`, cast `builds`: no operator's command and no ingest comes
  between two stages of a build; `commands` has those against each other. Build
  `b` is prepared after `a`, which loses the renaming only.

The bounds are small because the conflicts are between two actors: two
submitters, an operator and a submitter, a promoter and a Job, two attempts of
one activity. A third actor appears wherever a check looks at "everything else"
(other runs in a table, other Jobs). Two tables separate the first, the last and
the shared run table; two keys separate "own rows" from "rows of both runs".
`MaxAttempts = 2` has a given-up and a current attempt; `MaxObservations = 2`
a first and a last round. `MaxMade` and `MaxDeaths` bound snapshots and deaths;
at the bound of snapshots a Job may always die, or the bound itself would stop
it. Captures are numbered in the order in which they start, the editions of IMDb
files and the sets of Europeana in the order in which they are first seen, which
loses no behaviour up to renaming. Two ranges, shards or datasets have a first
and a last with a death between them. Three pages at two a capture make a window
that one capture cannot finish; of the nine listings one goes forward, three
hand out a token again, within a capture or only after a resumption, one is empty, and four
have a record twice, in one page or in two, a deleted one, or a page that would cross
`max_records`. Of the dumps of a backfill one has a chain of parents
and credits, one is deeper than the closure, two lay their records out unevenly,
so that a partition and an epoch stay empty or a shard is too large, and one has
no item. The index build is submitted sound or with one of nine flaws, over one
of three manifests of affected entities, and its projections have a cast of one credit.

Deadlock is checked where the system is to go on for ever (retention, EMR
stages with their `Quiet` step) and not where every participant may have
finished or died.

### Fairness

* `ResumedRunCommits`: submitted drivers run until they return or die. The
  resubmission does not die and its `MERGE`s do not raise, so the property says
  that every partial state it may inherit can be resumed. So does the second of two Source
  Silver jobs, whose publications succeed or lose to an equal object.
* `WorkflowsEnd`: workflow tasks run and `start_to_close_timeout` ends attempts; no
  worker and no job has to move, and an activity may fail each time. A research
  domain is ended by its execution timeout at the latest, a Catalog execution by
  its observation budget.
* `ProjectionEnds`: the Temporal server goes on and ends attempts; Jobs have a
  deadline and may die or raise anywhere.
* `NoJobLeaks`: under the premise that no worker died and EMR answered, live
  workers go on, given-up attempts included.
* `CompactionCompletes`: Jobs and promotions are submitted again until they
  succeed, deaths are finitely many (a bound), snapshots succeed. Strong
  fairness is asked of the listing of Jobs, which others disable for a while,
  and of a promotion's own steps, so that it does not die at one step for ever.

* `CommandsEnd`: one weak fairness condition for each connector: a started command, its pool and the workflow behind it go on
  until they return or die; every request may be refused. It says that from some
  point on nothing is in the middle, and each command starts once.

`SyncsCleanUp` is asked of syncs to which S3 answered. A lost reply to the
creation or the completion of a staging upload leaves an upload or an object
behind, which `WikidataSync` records in `lost`.

### Findings

1. *Duplicate markers* (`source_marker_race`): two exact submitters may append a
   marker each, after which every reader of that run raises.
2. *Retries that adopt the failed job* (`silver_retry_adopts_failed`): the retry
   classification of Source Silver has no effect on a job that has failed.
3. *Receipts without their index* (`index_stale_receipts`): a projection receipt
   says of a partition that its documents were written, not into which
   incarnation of the index.

4. *Closed while asserted* (`resolver_closes_active`): the contract calls active
   memberships immutable inputs of incremental resolution; the code closes the
   membership of a node when any one record of it disappears, and the node stays
   unassigned although another current record types it.

These observations have no run of their own.

*Source Silver.* Neither the run ID nor the checkpoint holds the image of the Silver
job: both hold the connector's, and the checkpoint the mapper's version. Without
`QuietDeploy` two jobs of one batch, or two attempts with a deployment between them,
may land tables of one run from two mappers when the counts agree; a resubmission
after a new mapper with equal counts returns the old commit. That a plan misnames a
batch is noticed after the batch was committed (`community_cli.py:849`).

*Rollback and retention.* `rollback_to_snapshot` moves the head unconditionally
after the last check (`iceberg_maintenance.py:1055`); a manifest that another
run appended to the shared run table in between is lost. The final check of an
archive-delete ("Final fail-closed CAS", `gold_index_gc.py:1551`) and the
deletion (`:1570`) are not one operation, and promotion is outside the exclusion
of Jobs: the alias may come back to the index between them. Without `NoRace`
and without `QuietDelete` TLC finds behaviours that violate
`RollbackSparesOtherRuns` and `ServingIndexSurvives`.

*Identity.* An incremental run reads the lifecycle of its delta only. A deletion
whose upsert came in an earlier delta is therefore unmapped and raises a conflict
over a synthetic candidate that no review can act on, and the membership stays; a
full run has no memberships to close. An episode whose series came in an earlier
delta has no parent type and gets `PARENT_TYPE_INCOMPATIBLE`; conflicts are not
looked at again, so a review has to assign it, and children of one parent that
are resolved in different runs become two entities. Two records of one node that
disappear in one delta at one time give one membership two closing rows with the
same key, which the next `expected_counts` check refuses; at different times they
give it two closing times, after which every run of the generation raises
("membership has conflicting closure times"). A closing before `valid_from`
raises as well. Redirects do not apply to candidates: after a merge, the index
still names the entity that was merged away.

*Index build.* The build ID holds neither the mode nor the manifest of affected
entities, so that a full and an incremental run of one release share index and
receipts. `check_baseline` and a promotion are not one operation: the baseline
may start to serve after it was checked. Two launchers list the Jobs before
either creates one. Death between the manifest of a build and the upload of its
result, or a resubmission after it, meets an immutable manifest that it would
write differently, and conflicts for ever; a full build with receipts of an
index that is gone fails closed for ever. Reindexing and updates are tasks of
OpenSearch (`wait_for_completion=False`, `gold_search_index.py:1798`); they go on
after a run that raised or was killed, since the cancellation of a task may fail
silently, and a late copy may overwrite what the next run has written. A promotion
whose target was among several expected indices is refused by its activation
receipt (`gold_search_index.py:2344`) after the alias was switched
(`gold_index_promote_cli.py:150`).

*Research domain.* The last `RuntimeError` is no Temporal failure, so the
workflow task is retried until the execution timeout of seven days. A
cancellation that reaches an awaited child below the failure budget counts as a
failure of that source and the workflow goes on. After the death of a worker
and the last attempt, the next Silver child may start beside the job that EMR
still runs.

*Identity and releases.* A full generation that was rolled
back completely leaves snapshots in its tables, so its resubmission is refused
as not pristine (`assert_identity_tables_empty`). Two promotions from one
previous index may both pass the expected-old check and leave the alias on both
targets (`switch_read_alias`). Preflight of a full build accepts a
Gold-contributing source outside the Identity spine once it is among the
baseline's source runs (`_normalized_source_run_states`), whereas the message it
raises otherwise speaks of coverage by the baseline Identity; `ReleaseIsResolved`
therefore asks of a full build only that its spine is resolved.
`_explicit_silver_run_ids` rebuilds the runs of an epoch from its chain of deltas,
so a root epoch that was published without a delta can be resolved over, but the
Identity run that comes of it can be published neither in a snapshot nor in a
parentless epoch. Preflight wants the baseline to hold exactly its
source runs and one Identity run, so a baseline with an incremental Identity run
can only be a snapshot from before publications were closed over their lineage.

*EIDR lookups.* The run manifest is written when a limit is reached. A command
that raises in a later batch leaves captures that no run manifest lists; a
resumption from the last watermark does not hand them to Source Silver, only one
from the watermark before does, with the answers of that day. The document says
that the workflow "does not accept a watermark and performs no continuation"
(`docs/sources/eidr-public-research.md`), whereas its input has `lookup_watermark`
and the activity passes it on. Lookups that start from one watermark while the
registry changes make two chains of watermarks, each whole.

*Wikidata backfill.* A run that dies after it has begun to write the normalized rows
and before their marker leaves data that make every later run of that dump fail
(`errorifexists`, `wikidata_spark.py:204`, without a marker
`wikidata_backfill_io.py:240`) until an operator removes them. Two runs that both
pass the check for the target double the rows, and later runs fail on their
count. A shard above `max_shard_bytes` passes the profile and fails at its
publication.

*TMDB and TVmaze.* An index that shrinks between two requests of one listing moves an
identifier to a page that was already read; the capture does not see it and still
calls itself complete (the comment at `tmdb_sync.py:604` speaks of the opposite
case, an index that ends before the announced page count). `WindowIsCovered` therefore
asks for the identifiers that were listed. A cursor that no longer fits the index
is a `ValueError`, hence final for the activity: a move of the index between two
windows of a day fails the whole workflow, although a new attempt would list again.

### Hazards without a property

`PROJECT.json` lists the hazards the properties are about. These were met while
modelling and are left to observation, because the repository promises nothing
that a property could state, or what it promises is stated for the rest only:

* `gold_index_gc.py:1305`: an archive-delete dies between its deletions and its
  result, a compaction then retires the source snapshot, and the retry fails on
  its receipt for ever. The data stay archived (`ArchiveHolds`).
* `gold_index_gc.py:796`: a snapshot that ended `FAILED` keeps its name, and
  every retry adopts it.
* `gold_index_promote_cli.py:174`: the activation receipt records the expected
  previous index, which the alias may never have pointed at.
* `temporal/activities/catalog_execution.py:112`: a provider that refuses to
  cancel a job that has just ended spends the attempts.
* `emr_driver_logs.py:114`: the driver log is not in S3 yet when the job has
  succeeded; the stage has committed and fails for good.
* `wikidata_sync.py:893`: the reply to the completion of the staging upload is
  lost before the cleanup is set up, and the staging object stays.
* `connector.py:515`: the slot of a receipt does not hold the `setSpec`; the
  terminal receipts of two sets of one window under one prefix exclude each
  other.
* `europeana_oai.py:1308`: a page that would cross `max_records` fails every
  capture under the same bound.
* `temporal/activities/gold_index.py:458`: two launchers list the Jobs before
  either has created its own (`LaunchRace`).
* `temporal/workflows/research_domain.py:225`: the final `RuntimeError` retries
  the workflow task until the execution timeout.

## 4. Proofs

`CommunityIngestProofs` proves for all writers, runs, keys, tables and both
values of `StaleAppend`:

* `TypeCorrect`: `Spec => []TypeOK`. Type correctness includes that snapshot
  parents are older than their children and that heads exist, on which every
  walk over ancestors in `OwnedSnapshots` rests.
* `MarkersAreExact`: `Spec => []MarkerPinsExactRows`. A marker, once written,
  pins for every non-empty table a snapshot that added exactly the declared
  rows. The inductive invariant strengthens it with what a writer between
  `PinSnapshots` and `Publish` carries: its counts equal the manifest's and its
  pins satisfy `OwnsExactly`. It is stable because histories only grow: a
  snapshot, its parent and its rows never change (`Commit` appends), whatever
  other writers do. The lemmas state that of `OwnedSnapshots`.

The assumption is `CommunityIngest`'s own on its constants. The theorem shows
that pinning does not depend on mutual exclusion of writers or on conflict
detection by the catalog: finding 1 breaks the uniqueness of the marker, never
its contents.

It also proves, for a catalog that refuses the append of a MERGE
whose base moved (`Optimistic`), what finding 1 shows to fail without it:

* `MarkersAreUnique`: `Spec => []OneMarkerPerRun`. A marker that is appended was
  looked for in the whole commit table (`PublishStep`).
* `CommittedRunsAreExact`: `Spec => []CommittedRowsExact`, and `RunsAreAtomic`:
  `Spec => RefinesAtomicRuns`, for runs that are not incremental (`NeverRenamed`;
  `Strip` gives those another run id, and runs of one id another set of keys).
  `WholeInv` adds to the markers that every row is a key of its run, once
  (`RowsStayOK`), and that a run has all its rows at the heads from the moment they
  were counted. Then all its keys are there (`AllKeysPresent`, by counting), so a
  duplicate submitter's MERGE finds nothing to insert, and those of other runs touch
  no row of it (`WholeRunsKept`): only the step that appends a marker changes what
  readers see (`QuietStep`, `MarkerPublishes`).

The same module proves of `RollbackSpec`, for any number of submitters, invocations, runs,
tables, tags and deaths, and both values of `StaleAppend`:

* `IdentityRunsOnBase`: `RollbackSpec => []IdentityOnPinnedLineage`. `OnBase` says that while
  a run is staged the rows of others at the heads are those of the lineage it was planned
  on; `Guard` establishes it, and no other Identity driver nor an invocation may take it away
  before the run is counted and pinned (`Exclusive`).
* `RollbackCanResume`: `RollbackSpec => []RollbackResumable`, and `RollbackCleans`:
  `RollbackSpec => DoneMeansClean`. `InvocationOK` says that the actions an
  invocation has left are those of all tables that may still hold rows of the run, the
  run table among them, which comes last (`Place`, `OrderFacts`). It holds however many
  invocations of the run died before, at any call, and whether tables were moved back or
  had rows deleted.
* `RollbackSparesOthers`: `RollbackSpec => RollbackSparesOtherRuns`. The
  snapshots between a tip and its target are all of the run (`Stretch`).

Their inductive invariant `IdentityInv` (TLC finds it to hold in the instance of `identity_runs`
too) rests on what a table's history is, `History`: ancestors form a chain, and a
snapshot has the rows its ancestors added unless a later ancestor has undone their run.
Appending, undoing and moving the head back keep it (`HistoryAppend`, `HistoryUndo`,
`HistoryBack`). From it follows that a plan accepted by `Sound` leads to a snapshot without
rows of the run (`SoundChain`) even when parts of the run were rolled back and staged
again: what precedes the latest rollback marker is undone (`CleanByUndo`). The assumptions are `IngestConstants`,
`RollbackConstants`, the fence of `Drive` and `Invoke`, and `NoRace`, which section 3
shows `RollbackSparesOtherRuns` to need.

`GoldReleaseProofs` proves for all drivers, plans, tables and keys, and both
values of `StaleAppend`:

* `GoldTypeCorrect`: `Spec => []TypeOK`, by `TypeInv`, which adds that heads
  exist, that parents are older, and that a driver in an `Early` phase has a table
  at hand.
* `CommitsAreExact`: `Spec => []CommitPinsExactRows`. `ExactInv` adds what a driver
  carries between its calls: at `PinSnapshots` its counts are the planned ones, and
  from there to `Verify` its pins are exact. `PinStep` says which calls lead into
  these phases, `PinsAreExact` that the snapshot `_release_snapshot_id` returns is
  exact, `ExactStable` that no MERGE of any driver changes what a pin shows.
* `MixedStayHidden`: `Spec => MixedAttemptsStayHidden`. The only way into the
  commit MERGE is `PinSnapshots`, which finds in every table either no owned
  snapshot or a single one (`FoundIsAlone`).

Their assumption is `GoldReleaseConstants`, of which they use that plans are those
of the drivers, that the table order is not empty and that a plan's rows are finitely
many. So neither exclusion of drivers nor conflict detection is needed for
exact pins, as for the markers of Source Silver. `CastsRunDrivers` (`MCSpec => Spec`)
carries these three to the composition that the run checks.

Of that composition, which puts Silver commands and Golden builds beside the drivers, it proves for any
sources, policies, operators, builds, URIs and legacy history:

* `ReleasesStayAtomic`: `MCSpec => ReleasesAreAtomic`. `AtomicInv` says that a table has a
  row of a plan at most once, that a plan which is committed or past its MERGEs has all of them (`Filled`), and
  that a MERGE about to land saw those that are there (`Covered`). So a second driver has nothing to
  insert, and only the commit changes what readers see. It needs that a stale MERGE is refused, or that no plan
  has two drivers (`PlansApart`, which the cast that exempts builds meets).
* `ManifestsStayWhole`: `MCSpec => []ManifestsAreWhole`, and `ReleasesStayResolved`:
  `MCSpec => []ReleaseIsResolved`. `SilverInv` says what heads, rows and markers of a run
  exist by the time another may name it, that an Identity run's lineage is closed
  and has each source once, what a command holds between two reads of the heads, and at each place
  of a build which of its evidence is there. A marker comes last and nothing is taken
  away, so what a command has found stays found.

`HistoryAssumption` says that URIs are finitely many and where the initial history and
the builds' publications are among them.

`SourceSilverProofs` proves of `SilverSpec`, whose variables and steps `MCSourceIngest` takes into its own for
the cast that maps, for any captures, plans, images, jobs, group sizes and pools:

* `CheckpointsStayWhole`: `SilverSpec => []CheckpointsAreWhole`. `CheckpointInv` says of
  every output, receipt or not, that an attempt names the group and mapper it was made for and what it has
  written are their rows (`OutputsOK`), and that a receipt names a complete attempt at it (`ReceiptsOK`).
  Only its own job writes an attempt, and no longer once it is complete, although
  a job that fails in between may be submitted again by another.
* `CommittedStaysRecordSet`: `SilverSpec => []CommittedIsRecordSet`. `LandInv` adds for each job
  that the receipts it holds are those of its first groups in order (`ReceiptsFollow`), that a run under
  way has the tables its driver is past (`TablesFollow`), and for every landed table, marked or not,
  that it is the record set's by one mapper (`LandedOK`). That the groups' rows, put together, are
  those of the whole record set (`GroupsAreAll`) is arithmetic on where groups end (`GroupEnds`)
  and a lemma on flattened sequences (`PartSplit`): an induction over data, but
  one that the least counterexample (`LeastNumber`) makes first-order.

`SilverConstants` says that a plan is a non-empty list of captured record sets and that a group has a shard.
Neither exclusion of jobs nor `QuietDeploy` is used: what keeps the mappers of a
table apart is that the checkpoint's identity holds them.

`CatalogExecutionProofs` proves for every observation budget, retry policy, number
of starts, set of inputs and runtime locks (`Limits` only says that the budgets are numbers
and that an activity is attempted at all):

* `ExecutionTypeCorrect` and `OneJobExists`: `Spec => []TypeOK` and
  `Spec => []OneJobPerAttempt`. All submissions bear one token (`JobsOK`).
* `ReceiptsAreTrue`: `Spec => []ReceiptIsTruth`. The argument is stability: jobs
  never go away, their end is final and a job being cancelled does not run again
  (`JobsMoveOn`), so an observation of an end stays true (`TruthStable`), in the
  workflow, in the pending activity and in a publication whose attempt was given up
  (`KeptOK`). Whichever attempt publishes first, the stored receipt is never replaced,
  and a workflow only completes on one equal to its own observation.
* `NoJobRunsAway`: `Spec => []NoRunawayJob`. `Sound` carries that a job is stopping
  from the reply of `cancel_job_run` on, to the flag `cancel_sent` and to the end
  of the budget.

The inductive invariant is `Inv`: `Sound` of the workflow record, `ActivityOK` of what
a replied activity returns, `KeptOK` of heartbeat, late calls and receipt.

`GoldIndexGcProofs` proves for any number of archive, restore and compaction operations,
promotions, indices, snapshots and deaths, snapshots that fail and clones that carry
cluster state, under the bound that launchers list Jobs one at a time (`OneLauncher`):

* `ArchivesHold`: `Spec => []ArchiveHolds`. `GcInv` says which receipt covers every
  index that is gone (`StoreOK`) and what an operation knows in each phase
  (`PhaseOK`): an archiver past the receipt has its targets in it, a compactor that
  remembers a replacement has one that ended well, and one that restored the old index
  has it covered. `Lasting` says why others do not take that away: a receipt is never
  replaced and no operation drops a replacement that ended well. Jobs
  exclude one another (`Alone`), so that what one has read, such as a missing receipt or
  a removed index, stays true until it acts.
* `FallbacksCleanUp`: `Spec => FallbackCleansUp`, from the same invariant.
* `ServingSurvives`: `Spec => []ServingIndexSurvives`, also with the bound `QuietDelete`
  (`AliasQuiet`), which section 3 shows to be needed: whoever deletes found the
  active index alone behind the alias.

`GoldIndexProofs` proves for any entities, partitions, affected manifests, number of
invocations and launch attempts, for full and incremental builds, by hand or by the
workflow:

* `ResultsHold`: `Spec => []ResultIsRelease`, and `ServedHolds`:
  `Spec => []ServedIsRelease`; `GoldIndexTypes` is their type part.

They assume `Serialized`, what the run assumes too: launchers list the Jobs one at a
time (`LaunchRace = FALSE`), and a run meets no receipts whose index was deleted
(`StaleReceipts = FALSE`), which `index_stale_receipts` shows to be needed. The inductive
invariant `Inv` says that builders do not overlap (`OneBuilder`), that every document of
the index is the release's, or for an incremental build still the base's (`DocsOK`), that
a receipt of upserts is true and the baseline's receipt the first (`ReceiptsOK`), and for each
builder which partitions it has behind it (`Placed`). A builder that skips a partition
because of its receipt relies on `ReceiptsOK`, one that was killed leaves at worst
documents without a receipt, which are written again. `Promised` is the
consequence: from the first result on, the index stays as it is, since a later
run finds the result, and cleanup deletes no index that has one.

`PipelinesProofs` proves for any number of stages, sources, attempts, runs of the schedule and
observations, about the workflows as they are composed:

* `OneJobAtMost`: `MCSpec => []OneJob`. `BuildInv` has one job for each stage's token,
  and a stage begins after the ones before it succeeded; `DomainInv` has the child
  that is watched own the slot.
* `ResultsRestOnSuccess`: `MCSpec => []ResultsOfSuccess`, the EMR half of
  `ResultsAreWhole`: an attempt reads a result after it saw the success of the one job (`AttemptOK`).
* `GoldenGetsAllSources`: `MCSpec => []GoldenOfAllSources`. `Collected` says that what
  the workflow has gathered, and hands on when it continues as new, is of children
  that succeeded, and `DomainInv` that these are all sources it has passed.
* `ReceiptStaysTrue`, `NoJobLeftRunning`: what `CatalogExecutionProofs` proves of an
  execution holds in the composition, as every action of it is a step of the
  execution or leaves it alone (`ExecutionRuns`).

The assumption is `PipelinesConstants`: sources and budgets are numbers, and something is
attempted at least once.

`CaptureProofs` proves about the captures as they are composed, for any number of syncs, captures
and runs, of editions, ranges, partitions, listings, pages and records, with `CaptureInv`:

* `OfficialIsPublished`: `MCSpec => []PublishedIsOfficial`, and `SyncsLeaveNothing`:
  `MCSpec => []SyncsCleanUp`. `StagedIsOfficial` says that from the comparison on the
  staged bytes have the official SHA-1, whatever upstream does meanwhile, and `LeftBehind`
  at which places of the command an upload or a staging object may still be there.
* `CapturesReturnAlike`: `MCSpec => []ResultsAgree`. An object under a content or
  edition key is never replaced (`Keeps`), so what a capture holds after its
  conditional publication, its own or the one it found (`Outcomes`), is what all others
  hold: the object of a dump, the record set of an edition, the commit of a build.
* `PagesOnce`: `MCSpec => []PagesCommittedOnce`. Captures and receipts of a set are
  walks over the listing (`Walk`), from its start or from the cursor of a receipt, up to the bounds.
  In a listing that goes forward two finished walks from one page lead to one page
  (`SameWalk`, by the least counterexample). So a receipt is either the one already in
  its slot, or no receipt of the set begins at or after its first page (`NoneBeginsAfter`),
  and receipts stand apart (`ReceiptsApart`). `NeverBack` has a capture refuse a token it
  has been handed, which is the claim for listings that go round.
* `ChainsLeadBack`: `MCSpec => []E!ChainHasNoGap`, the Europeana part of `ChainHasNoGap`,
  from the same invariant: a watermark is handed over with its receipt, and a capture that
  resumes from one keeps it `Reached`.
* `PartitionsStayWhole`: `MCSpec => [](P!CheckpointsCover /\ P!RecordSetIsWhole)`, the IMDb part
  of `RecordSetIsWhole`. `PiecesInv` says what is under each key of the store (`PieceOK`), what a
  worker holds, also after its capture has died (`TaskOK`), and what a capture holds of
  its pool (`PoolOK`). The record set is a concatenation of the datasets' shards; where a
  shard stands in it is `FlattensAll`, a claim about each prefix, by the least one that breaks it.
* `MarkersAreHonest`: `MCSpec => []B!MarkerIsHonest`, the staging of the Wikidata backfill. `MarkedInv`
  has a run come to the marker only after a whole write.
* `ReceiptsStayBacked`: `MCSpec => []E!ReceiptsAreBacked`, the Europeana part of `RecordSetIsWhole`.
  `BackedInv` says, for each place of a capture, what it has stored (`BackedCapture`): its envelopes are
  those of its pages, each once (`Lists`), because a page that repeats a record fails the
  capture, and its shards are consecutive pieces of them (`CutInto`). A record set is published when
  no piece is left, so its shards reach the end (`SetOK`), and that their concatenation is the
  envelopes is `PiecesFlatten`, by the first prefix that is not. A capture that loses a
  publication has found the same content under its key, or has failed; what is stored stays (`BackedStays`).
* `SnapshotsStayWhole`: `MCSpec => []T!SnapshotIsWhole`, the TVmaze part of `RecordSetIsWhole`, and
  `WindowsStayAbut`: `MCSpec => []T!WindowsAbut`, the TVmaze part of `ChainHasNoGap`. `TvmazeInv` has a
  snapshot hold, after each page, every show of that page or an earlier one that has been there since it
  began (`CmdOK`); it ends where no show can be (`LastPageIs`). The inventory is sorted because an order
  of it exists (`InTimeExists`, by the least set without one). Each window is the one its index says
  (`IsWindow`), full unless the inventory ends in it, so the next one's first watermark is its last (`MarksMeet`).
* `LookupsStayWhole`: `MCSpec => []X!LookupsAreWhole`, the EIDR part of `ChainHasNoGap`, for any epoch,
  page size and limits, and with the other two parts `NothingIsSkipped`: `MCSpec => []ChainHasNoGap`. The rows
  of an epoch are its identifiers in one order (`RowsAre`, from `OrderedExists`), its pages cut them without a gap
  (`PagesAre`), so a selection over the pages is the rows from the watermark on (`SlicesFlatten`, by the
  first page that breaks it; `SelectedItems`). `EidrInv` says what stands under each kind of key
  (`EidrObjects`): a batch begins where its watermark ends, a receipt has one answer for each
  identifier of its batch, a watermark stands on its receipt, and the entries of a run lead batch by batch from the
  watermark it was given to its last (`Leads`); and for each place of a command what it holds of them (`LookupIs`), which a
  command that loses a publication or dies leaves to the next.
* `SummariesStayWhole`: `MCSpec => []X!SummaryIsWhole`, the EIDR part of `RecordSetIsWhole`: the Silver
  runs of the workflow are those of the first captures of the run manifest (`WorkflowIs`).

The assumption is `CaptureConstants`: numbers are numbers, at least one edition, range and
page, `record_shard_bytes` (`europeana_oai.py:1258`), `max_pages` and `max_updates` are positive
(`tvmaze_sync.py:294`, `:641`), and a response leads to a page other than the first, or to none; the
identifiers of an epoch are finitely many and in an order, the workflow's lookup is a lookup, and `batch_size`,
`max_ids` and `max_batches` are positive (`eidr_backfill.py:2518-2536`).

Only model-checked, because nothing about them has been proved yet: atomic visibility of incremental
runs; of `RecordSetIsWhole` the backfill commits (`CommitIsWhole`); and the index build under racing
launchers, which the code does not exclude but the run does. Outside
the prover's reach: folds over data, as the selection and layout of a backfill and the TMDB half of
`ResultsAreWhole` are; the Identity decisions (`OneEntityPerNode`, `RedirectsResolve`, `OpeningsJustified`), which are
recursive over the components of a graph; and everything about progress (`ResumedRunCommits`,
`CompactionCompletes`, `ProjectionEnds`, `WorkflowsEnd`, `CommandsEnd`, `NoJobLeaks`), which rests on fairness
and ENABLED.

## 5. Plan

Order of work, most important first:

1. `CommunityIngest`, `OwnedSnapshots`, `AtomicRuns`, first proofs (done).
2. `FailedRunRollback`, `GoldRelease`, `GoldIndexGc`, `CatalogExecution`,
   `EmrPipeline` (done).
3. Captures: `WikidataSync`, `ConnectorPartitions`, `EuropeanaCapture` over
   `ImmutableStore` (done).
4. `SilverLineage` and `GoldenBuild`: manifests, Identity lineage and the evidence
   of a Golden build (done); left are the documents of a release
   (`_validate_release_documents`).
5. `ResearchDomain`: failure budget, continue-as-new and child retries over an
   abstract Golden Build (done).
6. The EIDR backfill, the delta windows of TMDB and TVmaze, the Wikidata
   full-media backfill (done).
7. Source Silver checkpoints and shard materialization (done).
8. Gold index build and resume, composed with promotion (done); source removal.
9. Pure algorithms as operators checked against reference definitions: source
   lifecycle, identity resolution and curation (done), field resolution, freshness.
10. Proofs: `CommunityIngest` with its refinement of `AtomicRuns`, `GoldRelease`,
    `CatalogExecution`, `GoldIndexGc`, the index build, the long-running workflows, the captures,
    Identity runs and their rollback, Silver commands and Golden builds, Source Silver jobs (done);
    left is the commit of a backfill in `RecordSetIsWhole`.

## 6. Not modelled

Row contents, Spark transformations and JSON or digest formats: they decide
which rows a run has, and enter as sets of keys and counts. Network retries
below one call. Credentials and Kubernetes manifests. Manifests without an Identity generation,
curation runs in `SilverLineage` (they extend a manifest as incremental Identity
runs do), source watermarks, freshness and quality gates. Iceberg snapshot expiry,
file compaction and orphan removal. Of the captures: the counting and checking
of single records, byte and record bounds (they are failures), the windows of
`plan_full_media_epoch_windows`, which no command calls. What OpenSearch, EMR, Temporal and Iceberg
do is modelled from how the code uses them and marked external in
`PROJECT.json`.
