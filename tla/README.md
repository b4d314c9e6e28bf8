# Verification of the parking intelligence system

TLA+ specifications of the training pipeline, the model registry, the serving layer,
the dashboard and the settings of this repository, the TLC configurations that check
them on small instances, and TLAPS proofs of the properties that matter most for
instances of any size. Source paths below are relative to the repository root.

## 1. The system: inventory

| Component | Source | State it keeps | Operations |
|---|---|---|---|
| Training orchestrator | `pipeline/train_pipeline.py` | one job's progress, its baseline, MAE and verdict | `run_pipeline`, `_read_previous_metrics`, `_check_promotion_gate` |
| Model registry | `artifacts/` on a shared volume | run directories and `latest.json` | written by jobs, read by API replicas |
| Ingestion | `pipeline/data_gateway.py`, `pipeline/validation.py`, `schemas/domain.py` | list of chunk reports | `iter_clean_chunks`, `validate_and_clean_chunk`, `merge_reports` |
| Partitioned storage | `pipeline/storage.py` | part counters per jurisdiction | `write_chunk`, `list_partitions`, `read_partition` |
| Clustering | `pipeline/geospatial.py` | assignments on disk | `run_partitioned_clustering` (threads, one per partition) |
| Features, scoring, dispatch | `pipeline/temporal.py`, `impact_scoring.py`, `enforcement_engine.py` | none (pure) | formulas, leaderboard |
| Forecasting | `pipeline/forecasting.py` | none (pure) | `train_forecast_model` |
| Heatmap | `pipeline/heatmap.py` | one file | `generate_heatmap` |
| Artifact store | `inference/artifact_store.py` | cached bundle, its load time, a lock, per process | `get`, `is_ready`, `get_artifact_store` |
| HTTP API | `inference/api.py`, `inference/service.py` | none besides the store | eight routes, start-up warm-up, metrics middleware |
| Auth, rate limit, gauges | `inference/auth.py`, `rate_limit.py`, `metrics.py` | counters and buckets per process | `verify_api_key`, limiter key, `update_from_metrics_dict` |
| Dashboard | `dashboard/app.py` | Streamlit's answer cache, shared by sessions; each session's page | `fetch_json`, `fetch_health`, the forecast and map requests, `_get`/`_post` with retries |
| Settings and secrets | `config/settings.py`, `config/secrets.py` | a cached singleton per process, the loader's fetched secrets | environment, secrets backend, rules file |
| Logging, packaging, CI, tests | the rest | none | not modelled |

How they interact. A *job* is a process (a cron job or a container run) that executes
`run_pipeline` once. It writes into its own run directory and, if the gate lets
it, points `latest.json` at it. A *replica* is an API process. Each request handler
calls `ArtifactStore.get()`, which now and then re-reads `latest.json` and the files
it leads to. Jobs and replicas share nothing but the `artifacts/` volume: no lock, no
message. The dashboard only speaks HTTP to replicas, and its browser sessions share
one cache of answers. Every process resolves its settings once, from its environment,
a secrets backend and a rules file, and keeps them until it ends: what changes there
reaches it only by a restart.

Where it is hard. Several jobs may overlap (nothing prevents it); any job may die
between two steps and leave what it wrote; files and the pointer are written in
place, so a reader may see them truncated; a replica loads a pointer and five files in
six separate steps while jobs go on; several threads of a replica share one cache
under one lock; a run directory's name is a UTC second; the leaderboard is put together
from rollups that each see one partition; answers and errors stay cached while runs
change; secrets rotate while processes read them field by field. `PROJECT.json` lists these
hazards at the lines where they bite.

What makes each component correct:

- *jobs*: the published run is whole, was trained on its own feed after the quality
  gate, and never changes; no unforced promotion regresses beyond the tolerance; a
  pointer that a killed job left truncated is filled in by a later one;
- *store*: a bundle is of one published run; a replica never steps back to an older
  run and never answers with an error once it has served; loads end and release the
  lock; a published run is served in the end;
- *ingestion*: every row the validator sees is kept or counted under a reason; a valid
  row is in exactly one part file and meets its own cluster assignment; only feeds that
  lost no more rows than the rejection limit go on; a violation is counted once;
- *scoring*: what the partitions' rollups rank is what one pass over the whole feed
  would; a ranked hotspot can be forecast; a dispatch status is true of the feed; the
  heatmap stays within its limit;
- *API*: answers and gauges never go back to an older run; a 429 is earned by one's own
  requests; loop, workers and store never wait in a circle;
- *dashboard*: an answer or an error is shown for no longer than the TTL; only replicas that
  serve different runs throw a session back to an older one; every page ends; a forecast is
  for the hotspot chosen;
- *settings*: secrets are of one version; no outage opens the API, and keys that were
  written are asked for; a key rotation locks no client out; a replica comes up once its
  sources are right.

## 2. Modules

| Module | Models | Kind |
|---|---|---|
| `ArtifactRegistry` | the shared volume: files of a run, `latest.json` | vocabulary, variables `disk`, `pointer` |
| `TrainPipeline` | jobs executing `run_pipeline` | specification, properties, inductive invariants |
| `TrainPipelineProofs` | | proofs about jobs, and of the gate's promise |
| `ArtifactStore` | replicas executing `get()` | actions |
| `ArtifactStoreProofs` | | lemmas about `get()`, for the next two |
| `Serving` | jobs and replicas together | composition, properties, refinement |
| `ServedModel` | what users are promised | abstract specification |
| `ServingProofs` | | proofs about `Serving`, with the refinement of `ServedModel` |
| `Ingestion` | one run's rows: validation, partitions, clustering, join | specification, properties |
| `Scoring` | the rest of that run: rollups, model, leaderboard, heatmap | composition with `Ingestion`, properties |
| `IngestionProofs`, `ScoringProofs` | | proofs about a run's data phases and the whole run |
| `ApiService` | one API process: event loop, worker pool, requests | composition with `ArtifactStore`, properties |
| `ApiServiceProofs` | | proofs about `ApiService` |
| `Dashboard` | browser sessions over one answer cache and the API | specification, properties |
| `DashboardProofs` | | proofs about `Dashboard` |
| `Settings` | processes that resolve their settings while these change | specification, properties |
| `SettingsProofs` | | proofs about `Settings` |
| `MCTrainPipeline`, `MCServing`, `MCIngestion`, `MCApiService`, `MCDashboard`, `MCSettings` | | constants for TLC |

**`ArtifactRegistry`.** A file holds nothing (`Absent`), an unfinished write
(`Open(j)`), the bytes of job `j` (`Done(j)`), or the remains of two writers at once
(`Garbled(j)`). `WriteOrder` is the order in which `run_pipeline` writes, `LoadOrder` that
in which the store loads. The pointer holds a run id, `NoPointer` (no file) or
`TornPointer` (truncated, not yet written: it does not parse).

**`TrainPipeline`.** `pc[j]` walks through `run_pipeline`; there is one action per step
another process could come between. `Start` names the directory; `ReadPointer` and
`ReadPrevMetrics` are the two reads of `_read_previous_metrics`; `WriteChunk` and
`QualityGate` ingestion; `Cluster`, `Features`, `Train` the phases that read and write the
intermediate trees; `OpenFile`/`CloseFile` the seven artifacts, with `Gate` between the
first and the others, as in the code; `Cleanup` both `rmtree`s and the branch;
`OpenPointer`/`WritePointer` the two halves of `write_text`. `Crash` stops a job anywhere.
The forecast error is a natural number and the ceiling `prev * (1 + pct/100)` is compared
without division. `promotions` is a history variable: the jobs that published, in order.

**`ArtifactStore`.** `Call` is a request; `Enter` takes the lock and judges the cache
(`Stale`); `LoadPointer`, `CheckRequired`, `LoadFile` (five times), `Install` are one load;
`Fail` is `ArtifactLoadError` with its fallback to the cached bundle. `Tick` is time:
only the age of a cache is ever compared, so `age`, capped at TTL + 1, replaces the clock.
`Restart` replaces a replica's process.

**`Serving`** extends both over the same `disk` and `pointer` and interleaves them.
**`ServedModel`** knows only a growing list of published runs and an index per replica that
moves forward or, at a restart, back to 0. `Serving` maps `published` to the run ids of
`promotions` and `served[r]` to the position of the cached bundle in it.

**`Ingestion`** takes the data phases of one run apart. A row is known by its position
`<<chunk, line>>`, so the counts of a report become the sets they count; a coordinate is
the class the masks can tell apart (`"null"`, `"inf"`, `"zero"`, `"out"`, `"in"`), a timestamp
an hour or none. `ReadChunk` is `iter_clean_chunks` up to its `yield`: read, validate
(`Rejected`, one mask per reason, apart from `Keep`), report. `WriteGroup` is one group of
`write_chunk`, `Report` merges the reports and judges the quality gate, `Cluster` is one
task per partition in any order, `AllClustered` the barrier of `dask.compute`, `Join` the
left merge on `id`. A run reads a CSV file (`DaskBatchGateway`) or a table
(`PostGISGateway`), or finds no file or no columns. A chunk's report counts all its rows
(`Reported`), also when none is left to `yield`. From the phase "train" on, a run is
`Scoring`'s.

**`Scoring`** extends `Ingestion` and takes its run to the end. `ScorePartition` is one turn of
the loop over partitions: the join and the three rollups (`Summary`, `Rates` and the hourly
counts) and the sample. `TrainModel` is the encoder of `train_forecast_model`, or its error
below two hotspots; `BuildLeaderboard` the inner join, the dispatch `Status` and the sort by
priority; `GenerateHeatmap` the second cap. Ratios are pairs of integers compared by
cross-multiplication, severities and rush hours count halves and an impact quarters, so
everything is exact. The sentences, names and coordinates of an entry are left out.

**`ApiService`** puts an event loop and a pool of `PoolSize` worker threads over one
`ArtifactStore`, whose threads the requests and the loop are. A request walks through
`Arrive`, `Accept` or `Reject` (authentication, then the body's validation), `StartHandler`
or `Limited` (`limiter.limit` decorates the handler, so it runs inside it), the store's
actions, `Finish`, `Send`. The loop calls `get()` itself at start-up (`WarmUp`) and, blocking
everything else, before a scrape (`Scrape`, `Scraped`). Runs are published in order by
`OpenNextPointer` and `WriteNextPointer`, an environment no stronger than what `Serving`
shows of jobs with distinct ids: whole runs, and a pointer that may be torn.

**`Dashboard`** runs the page's script once per load: `at[s]` is the section a session has come
to, from the health banner, which may end the page, over the cached paths to the forecast,
if the button was pressed, and the map. `CacheHit`, `Ask`, `ConnectionFails` (the retries) and
`Return` are `fetch_json` under `st.cache_data`, which computes a missing entry under a lock per
path; the other sections ask without cache. Behind the API's address is one replica or
several (`Deployments`), of which a load balancer chooses one for each request
(`README.md:164-166`). A replica is reduced to what `ApiService` shows of it: it answers from
no run or from one, and never goes back; but each takes up a later run by itself (`Refresh`),
so that successive answers may go back. `past`, `calm` and `united` are history variables
over `served` and `network`.

**`Settings`** has API replicas, which are started again when they fail, and jobs, which are
not. `Start` reads the environment, `GetKeys` and `GetDsn` the two fields of
`_load_from_secrets_backend` over the loader's `_cache`, `ReadRules` the rules file. `PCI_API_KEYS`
is unset, a JSON array, a JSON string or the bare comma-separated text (`Forms`), and what the
validators make of it is `KeysFromEnvironment`; `Written` is what operators meant by it. Around them
`Rotate`, `ChangeOver`, `BackendChanges` and `EditRules` change the world, and `Kill` stops a
replica. `Rotate` and `ChangeOver` follow the rotation described at `auth.py:11-12`: add the new
key, deploy, wait for clients, remove the old one.

In all modules of components, operators named for a fault (`GateAlwaysPromotes`,
`EnterWithoutLock`, ...) are mutations of the definition that follows them. No action uses
them; they exist to show that each property can fail.

### Abstractions worth knowing

- A feed has `NChunks` chunks that yield clean rows, and either passes the quality gate or
  not (`BadFeeds`) in `TrainPipeline`; what validation does to rows is in `Ingestion`,
  which has one run and no crash.
- Of the text columns `Ingestion` follows only `police_station`, which decides the
  partition; the others are cleaned by the same three lines and steer nothing.
- HDBSCAN may return any labelling whose clusters have `MinClusterSize` rows.
- What slowapi, FastAPI and Starlette do is modelled from how `inference/` uses them: a
  fixed window per route and caller, synchronous handlers on a bounded pool, the
  security dependency before the body's validation and both before the limit.
- An answer is the run its bundle is of; the response's fields are data of that bundle.
- `Cluster` and `Features` read and write a job's intermediate trees in one step each. For
  jobs with distinct run ids nobody else touches those trees, so this loses nothing; for
  colliding ids it can only leave out behaviours, so the violation found there stands.
- Reads of `latest.json` are atomic: it is smaller than a disk block and written by one
  `write` after the truncation.
- A bundle's file either deserializes (`Done`) or fails to load.
- Float rounding, in scores, rates and the median, is left out (`Scoring`): two priorities that
  differ only by rounding may be sorted either way in the code.
- A page is not reloaded while its script runs, and an answer reaches its page within the
  tick in which it was given. Streamlit's script runs and cache are external: an entry is
  computed once under a lock of its path and dropped at its TTL.
- Uncached sections ask and show in one step: nothing but their own session sees them.
- One rules file stands for the copies in all images, since no property relates two of
  them. A deployment is one record: the backend, how `PCI_API_KEYS` is written, the
  successive versions of the secrets, of which a text may also be blank. All settings that
  are plain values are CONSTANTS of the modules that use them.

## 3. Runs

| Run | Instance | Shows |
|---|---|---|
| `serving_threads` | 2 overlapping jobs, one forced, both may crash anywhere, errors 10 and 12, 1 replica with 2 threads and restarts, forced refreshes | published runs whole, immutable and within tolerance of the run found published (`ClearedWhatItRead`), the inductive invariant `TrainInv`; bundles of one run, matching map, no error once served, refinement of `ServedModel` |
| `serving_live` | 3 jobs one at a time, one may be killed anywhere, one has a bad feed, 2 threads, fairness | `TornPointerIsReplaced`, `NewRunEventuallyServed`, `PromotedRunTrainedOnOwnFeed` |
| `ingest` | files of 2 chunks of up to 2 rows, files with malformed lines, tables, missing files and columns, feeds of 6 or 7 rows in up to 3 partitions | accounting, storage, quality gate over the whole feed, barrier, join; leaderboard, forecastable hotspots, dispatch, heatmap |
| `api_reads` | 2 requests with a valid key, a wrong one or none, 2 scrapes, 2 workers, limit 1, 2 runs published | `AnswersNeverGoBack`, `LimitedByOwnRequestsOnly`, `ScrapeShowsCurrentRun`, types |
| `api_live` | 2 requests, 1 scrape, 1 worker, fairness | `HealthAnswers`, `EveryRequestIsAnswered` |
| `dashboard` | 2 sessions with 2 loads and 1, 1 cached path, TTL 1, 2 runs, 2 attempts; 1 replica with refused and failing requests, or 2 replicas | `ShownWithinTTL`, `SessionsGoForward`, `RecoveredPagesAreCurrent`, `EveryPageEnds` |
| `settings` | 2 replicas, 1 job, 2 kills, 7 deployments, a rotation of keys and DSN in three versions | `SecretsFromOneVersion`, `NoOutageOpensReplica`, `KeyRotationHasNoDowntime`, `ReplicaComesUp` |
| `train_overlap_regression` | 2 overlapping jobs, no crash | violation of `NeverPromotesRegression` |
| `train_zero_mae` | 2 jobs one at a time | violation of `GatedRunKeepsArtifacts` |
| `serving_collision` | 2 jobs started in one second, 1 thread | violation of `ModelAndEncoderTogether` |
| `dashboard_choice` | 1 session, 2 loads, all cached paths, TTL 2, no faults | violation of `PredictionIsForTheChosenHotspot` |
| `settings_open` | the keys as a JSON array in the environment | violation of `WrittenKeysAreEnforced` |

Bounds. Errors 10, 11 and 12 are below, at and above a 10% ceiling, 0 is the division by
zero; where the gate only has to go either way, 10 and 12 are enough. Two jobs allow any
race between a pair, and jobs interact only in pairs, through the pointer or a shared
directory; three in a row allow one to publish, one to be killed between the halves of
the pointer's write, and one to find it torn, in any order. Replicas share nothing but the
registry, which they only read, so one stands for all where the registry is the question.
TTL = 1 tick distinguishes fresh, at the limit and expired. Two threads are enough for a
race on one cache. The jobs of `serving_live` are serial since its liveness needs no overlap,
which `serving_threads` has, and the crash it is about needs a job that comes after it.
Deadlock is not checked because jobs run once: when all have ended the pipeline really
stops.

In `ingest`, two chunks of two rows are the least in which an id repeats within a chunk and
across chunks, a chunk is emptied by the masks, and a partition (`MinClusterSize` 2) can or
cannot hold a cluster; `MaxParts` 8 is never reached before every chunk could write every
station; `MaxClusters` 2 lets one partition hold two clusters. Two of its four stations have
names that collapse to one directory. A limit of 50% puts the verdict on either side of,
and at, the boundary. The feeds for scoring have four rows at one station and two or one
at others within 25 hours, which is the least to have two hotspots in one partition,
others in another, rows in both halves of the span, one hour on two days, a hotspot
seen lately and one not; `MaxPoints` 2 is below the number of partitions, at it and above it.

In the API runs a limit of 1 makes the second request of a caller the
one rejected, one worker makes requests queue for it, two let two handlers race in the store;
`MaxScrapes` bounds how often Prometheus comes, and every request is sent once.

In `dashboard`, two sessions race for one entry and three loads let one of them come back
after the other; its two replicas can serve different runs while a session asks one after
the other, and faults are there with one replica only, where they decide as much; two attempts have a retry and a last failure, as three have. `MaxLoads` is
finite on purpose: it leaves out users who reload without end while others wait. In
`settings` the versions are the rotation's three, in every form of `PCI_API_KEYS`, with gaps that
the environment fills or a text of blanks in some deployments; two kills put a restart of either replica between any
two of its steps.

Fairness. The steps of `run_pipeline` are weakly fair: a process that is not killed runs on. Being
killed is none of them, so a job that may be killed still may be, at any step. Loads and time are weakly fair. Requests keep coming to every replica
(`docker-compose.yml` probes `/health` every 15 s). `threading.Lock` gives no fairness between
threads, so only "some waiting thread of the replica enters" is assumed; in `api_live`, where
the store's threads are one-shot requests and a bounded number of scrapes, that is enough for
every request, since asyncio's ready queue and the worker queue are FIFO and a thread that
took the lock does not come back for it. In `Dashboard` only a script that can go on goes on;
in `Settings` only a replica that is not up is started and goes on
(`restart: unless-stopped` in `docker-compose.yml`). Nothing is assumed to make clients, scrapes, publications,
page loads, rotations or the end of an outage come.

### What the violations show

1. **Overlapping jobs defeat the gate** (`train_overlap_regression`). The baseline is read
   before training and compared after it; two jobs that read the same baseline publish one
   after the other, and the second may be worse than the first by any amount the
   first improved.
2. **A perfect model loses its artifacts** (`train_zero_mae`). The gate divides by the
   previous MAE before any model file is written.
3. **A shared second mixes two runs** (`serving_collision`). One second of resolution and
   `exist_ok=True` let two jobs write the same directory, and a replica loads a model and
   an encoder that do not belong together.
4. **A forecast for another hotspot** (`dashboard_choice`). The dashboard chooses an id on
   a leaderboard it has cached and sends it to the run that is served by then. Labels are
   numbered anew in every run, so the same id may be another place; the request succeeds.
5. **Keys in a JSON array open the API** (`settings_open`). pydantic-settings decodes the
   value of a set-valued field as JSON, so the form it asks for arrives at `_parse_api_keys`
   as a list; the validator knows sets and strings only and returns the empty set, which
   `verify_api_key` takes for development mode.

### Other divergences read in the code

They have no run of their own. Where a model contains them, it is named.

Training and data:

- A job killed between truncating and writing `latest.json` leaves a pointer that
  `_read_previous_metrics` maps to "no baseline": the next run is promoted
  unconditionally (`ReadPointer` models it). `NeverPromotesRegression` therefore needs the
  no-crash hypothesis of its theorem; `ClearedWhatItRead` is what is left without it.
- An id that comes in two chunks survives twice (`validation.py:101` sees one chunk), although
  `tests/test_validation.py:56` says "only one should survive"; two survivors in one partition
  make four rows in the join on `id`. `NoRowIsCountedTwice` is conditional on that.
- The first occurrence of an id wins even if the masks reject it, and a valid later
  copy is then dropped with it (`Keep` models it).
- A row with an infinite coordinate is counted under two reasons (`Rejected` models it).
- `read_csv(on_bad_lines="warn")` skips malformed lines before validation, although
  `validation.py:11` says every dropped row is in a report (`Arrives` models it).
- `_safe_key` maps "MG-Road" and "MG Road" to one directory, although `storage.py:4` speaks of
  one jurisdiction per partition (`SafeKey` models it; rows are still stored once).
- `validation.py:5` says that the masks apply the contract of `ViolationRecord`, which no code
  uses. The two differ: the record wants a string `id` (`domain.py:45`), parses dates by
  pydantic's rules (`domain.py:52`) where the masks use `pd.to_datetime`, and normalises a blank
  or "NULL" station otherwise. The record is therefore not modelled.

API:

- `/health` answers 200 (degraded) before the first run, which `tests/test_api.py` wants and
  `README.md:131` denies (`StatusOf` models it).
- A pointer that parses but lacks `run_id` raises `KeyError` (`artifact_store.py:66`), which `get()`
  does not catch. No job writes such a pointer.
- Rate limits count per process: with several replicas a key has a multiple of its quota.
- slowapi's default key counts each URL path, so the limit of `/hotspots/{cluster_id}` is one
  per hotspot; `Bucket` counts per route.
- The KPI "primary offense" (`service.py:119`) comes from the rules the API process read at its
  start, not from those the served run was scored with, although `business_rules.yaml:3` says
  that an edit needs "just a new training run".

Dashboard:

- `requests.ConnectTimeout` is a `ConnectionError`, so connect timeouts are retried, although
  `app.py:36` says timeouts are not ("refusing" stands for both).
- `app.py:60` says "every call is cached"; the health, forecast and map calls are not. Errors are
  cached like answers (`Return` models it), and the caption at `app.py:217` says "read live" of
  numbers that may be a TTL old.

Settings and secrets:

- `PCI_API_KEYS=key-a,key-b`, as `settings.py:55` and `auth.py:9` write it, is decoded as JSON by
  pydantic-settings before the validator that splits it, and raises: the process does not
  start, nor with the empty value of `.env.example`. The tests pass keys to the constructor
  and do not meet it. (`Begin` models it; pydantic-settings is not part of the repository and
  is modelled from its documented decoding of complex types.) What remains is a JSON
  string; for a JSON array see the fifth violation.
- A remote text of keys that holds only blanks or commas is not empty (`settings.py:216`), so
  the empty set overrides the environment's keys (217) and opens the API (`Overridden` models
  it; `WrittenKeysAreEnforced` fails there too).
- `vault_path.lstrip("secret/data/")` (`secrets.py:96`) strips characters, not a prefix, and so
  may strip the beginning of the path itself.
- A rules file that is valid YAML but whose mappings or numbers are none raises outside the
  `try` (`settings.py:243`), although `settings.py:237` says "a warning, not a crash". An API replica
  reads the file too: `settings.py:233` says that only the pipeline image carries PyYAML, but
  the API image gets it through `uvicorn[standard]`. A file cut short to nothing silently gives the defaults.

## 4. Proofs

Every invariant and action property of a passing run is proved by TLAPS for every value of
the constants, and so is the refinement of `ServedModel`. Only liveness is left to TLC. One
theorem is about a property that only a violation run names: `NeverPromotesRegression`, under the
hypotheses that the run breaks.

A component's inductive invariant stands at the end of its module. TLC found each of them true
on the instance of the component's safety run before it was proved (add its name under
INVARIANTS of that cfg to repeat it); the proof has one step per action. Hypotheses
other than the assumptions below are written into the theorems.

| Module | Theorems | Hypotheses |
|---|---|---|
| `TrainPipelineProofs` | `TrainTypeCorrect`; `TrainInvariant`, `PointerNamesCompleteRun`, `PromotedRunIsItsFeeds`, `PromotedRunsNeverChange`, `GateHoldsForWhatItRead`; `GateNeverPromotesRegression` | none; `DistinctRunIds`; that and `Scheduled` |
| `ServingProofs` | `StoreTypeCorrect`, `HealthyReplicasStayHealthy`; `ServingInvariant`, `BundlesAreNeverMixed`, `MapIsOfTheServedRun`, `ServingImplementsServedModel` | none; `DistinctRunIds` |
| `ApiServiceProofs` | `ApiInvariant`, `ApiTypeCorrect`, `ReadersSeeTimeMoveForward`, `LimitsAreOnesOwn`, `ScrapesAreCurrent` | none |
| `IngestionProofs`, `ScoringProofs` | `IngestInvariant`, `IngestTypeCorrect`, `NoSilentDrop`, `PartitionsHoldTheFeed`, `BadFeedsStop`, `JoinsComeAfterClusters`, `JoinsDoNotMultiply`, `ScoreInvariant`, `RollupsLoseNothing`, `RankedHotspotsAreKnown`, `HeatmapsKeepTheirLimit` | none |
| `ScoringProofs` | `DispatchesMatchActivity`; `ScoreTypeCorrect` | `ThresholdsAreMeant`; `ClipIsInterval` |
| `SettingsProofs` | `SettingsInvariant`, `SettingsTypeCorrect`, `SecretsAreNeverMixed`, `OutagesOpenNothing`, `RotationsLockNobodyOut` | none |
| `DashboardProofs` | `DashInvariant`, `DashTypeCorrect`, `OutagesAreForgotten`, `NothingOlderThanTTL`, `OnlyReplicasTurnPagesBack` | none |

Along which argument:

- *Jobs* (`TrainInv`). A promoted run is complete only because every file behind a job's
  counter is (`FilesInv`), its data its own because every chunk behind the counter is
  (`FeedInv`), and the pointer names a job that ended promoted (`PointerInv`). `OthersUntouched`
  shows that a step leaves every other job's counters and directory alone, so each clause
  is proved once, for the job that moves. For the gate, `BaselinesInv`: a job that found the
  pointer whole holds the error of the run it named, which `TrainInv` says is promoted and
  complete, whatever overlaps and crashes; and for jobs in series, `SerialInv`: that is the run
  it is about to replace.
- *Serving* (`ServingInv`, on top of `TrainInv`). A cached bundle is the `i`-th published run,
  files and all (`CacheInv`), and a load half way has read files of one published run, no
  older than what its replica serves (`LoadInv`); a pointer that parses names the newest
  (`HistoryInv`). So `Install` moves a replica forward, which is the step of `ServedModel` that it
  maps to; every other step is a publication, a reset by `Restart`, or a stutter. Types and
  the absence of errors need none of that, hence no hypothesis on run ids.
- *API* (`ApiInv`). `floor` is the newest run answered before a request came. What `get()`
  returned is between that floor and what is served (`ReplyInv`), and what a load has found
  between what is served and what is published (`LoadingInv`). A bucket counts at most what
  was let through (`LimitInv`), so a full one means `Limit` requests.
- *Ingestion* (`IngestInv`). Reports are a function of the chunks read (`ReportInv`), all of which were
  read once the gate has spoken (`QualityInv`), and then what is in no part file is what the
  gate counted (`GateSpeaksOfTheFeed`); a valid row
  is in the group that is about to be written or in one part file, never both
  (`WriterInv`); assignments cover a partition and a join is of a clustered one (`JoinInv`).
- *Scoring* (`ScoreInv`). The rollups hold exactly the hotspots of the partitions joined so far
  (`RollupInv`), in whatever order they were joined, and a hotspot's id names its partition, so
  the join of the rollups pairs every hotspot with itself. The heatmap needs that every
  listed partition holds rows (`PartsHoldRows`) and has the sample it is due (`SampleInv`); as
  long as there are no more partitions than points, the samples together are within
  the limit and none of them is cut.
- *Settings* (`SettingsInv`). A process holds what the code makes of one version, in whatever form the
  keys are written; the theorems do not say that it is what was written. Between `GetKeys` and `GetDsn` the loader keeps the version it fetched, and
  whoever is up holds the keys of one version up to the current one, which still admit
  the client, because `ChangeOver` waits for every replica to be started after the addition.
- *Dashboard* (`DashInv`). An answer on its way is no older than what its replica served a tick ago, a
  cached one as new as its age allows (`AnswerInv`, `EntryInv`). Neither is older than what any
  session was shown of that path, provided that it was fetched since all replicas served
  the same run (`united`), since the path's lock lets one answer through at a time. For a page
  that settled (`PageInv`), an entry younger than the calm is an answer that some replica
  gives now.

From which assumptions. `RegistryAssumption`, `PipelineAssumption`, `StoreAssumption`, `ApiAssumption`,
`IngestionAssumption`, `ScoringAssumption`, `SettingsAssumption` and `DashboardAssumption` say what
constants are: numbers, finite sets of stations and offences, sentinels that are not data. TLC
evaluates them on every run of their module. The hypotheses:

- `DistinctRunIds`: no two jobs start in one second. `serving_collision` shows that it is needed.
- `Scheduled` (`Serial` and an empty `MayCrash`): jobs neither overlap nor crash. `train_overlap_regression` and the killed job
  described above show that both halves are needed.
- `ThresholdsAreMeant`: growth is urgent only above 1, the lower clip does not exceed that
  threshold, and recency is high only within three hours. `ClipIsInterval`: the clip's ends
  are in order. The defaults (`config/settings.py:149-152`) meet both; nothing in the code
  validates either. `MCIngestion` has TLC check both on its instance.

Induction over data. The provers cannot instantiate an induction theorem, so what needs one
is proved by minimal counterexample (`WFMin` over subsets of a finite set): a finite set
of numbers has a largest one, and `Total`, a fold, is a number between its terms' bounds
(`TotalIsSum`, `SumsExist`, `EverySubset`).

Model-checked only: the liveness properties `NewRunEventuallyServed`, `TornPointerIsReplaced`,
`HealthAnswers`, `EveryRequestIsAnswered`, `EveryPageEnds` and `ReplicaComesUp`, since the prover has
neither ENABLED nor fairness; and that the violations above do happen.

## 5. Plan

1. Done: registry, pipeline, store, composition, `ServedModel`, proofs about the pipeline.
2. Done: `Ingestion`, `ApiService`, `Scoring`, `Dashboard`, `Settings`.
3. Done: the proofs of every component's invariants, action properties and refinement.
4. Left: the safety half of the liveness properties as theorems (a load, a request and a page
   take boundedly many steps: a measure that every step of theirs decreases), and what the
   five violations would need to disappear, as theorems under that condition.

Modules share runs where their instances allow it, so that the whole suite stays
short enough to be run on every change.

Not modelled: HDBSCAN and XGBoost (third-party numerics: any labelling and any error are
allowed) with the features they are fitted to; the drawing of the heatmap and the page;
the sentences, names and coordinates of a leaderboard entry; logging; the lineage snapshot
(read-only); the insides of AWS, Vault and pydantic-settings; packaging and CI; tests,
which are read as claims about the code; `ViolationRecord`, which no code uses.
