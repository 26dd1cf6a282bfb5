# TLA+ verification of the B3 quant platform

This directory is a verification development kept beside the code of the B3
multi-portfolio platform: TLA+ modules translated from its source, the TLC
configurations that check them on small instances, and theorems checked by
TLAPS. Paths such as `services/eod_reconciliation.py` are relative to
`src/b3_quant_platform/` of the repository.

## 1. The system

The platform is a FastAPI application (several Cloud Run instances, many
threads each), a PostgreSQL database, an object-store lake (R2, or a local
directory), a GCS/BigQuery analytics copy, and an edge worker that forwards
QStash messages. Nothing in the code takes a lock: all coordination is done by
the database transaction of each request, by unique constraints, and by
deterministic keys in the lake.

| Component | State | Operations | Interacts with |
|---|---|---|---|
| Edge worker (`edge/worker/src/index.ts`) | none | forward a QStash message to a job route with `x-request-id` and `idempotency-key` headers | QStash redelivers on any reply that is not 2xx |
| Job runner (`api/routes/jobs.py`, `core/idempotency.py`, `core/db.py`) | table `job_executions` | look up, insert, do the work, update, commit, reply | every service below |
| Job repositories (`repositories/jobs.py`) | `job_executions`, `system_jobs`, `audit_logs` | begin/complete execution, upsert job, append log | same rows as the job runner |
| Market data (`services/market_data.py`) | `market_eod_snapshots`, lake layer `raw` | ingest a batch of snapshots | read by the reconciliation |
| EOD reconciliation (`services/eod_reconciliation.py`) | `eod_comparisons`, `job_executions`, lake layer `curated` | reconcile a portfolio against the snapshots | reads the snapshots, repeats the job protocol |
| Historical ingestion (`ingestion/`) | lake `b3/bronze`, `b3/silver`, `b3/metadata` | parse, validate, enrich, deduplicate, write, manifest | feeds the analytics mirror |
| Analytics mirror (`services/analytics_mirror.py`) | watermark file, GCS objects, manifests, BigQuery tables | mirror the new silver objects | reads what the ingestion writes |
| Portfolio factory (`services/portfolio_factory.py`) | strategies, instances, constraints, positions | seed, create template, create instance | users and families |
| Event catalog (`services/event_catalog.py`) | events, mappings, profiles, scenarios, simulation runs | create, derive a scenario, run a counterfactual | scenario lab |
| Scenario lab (`services/scenario_lab.py`) | scenarios, simulation runs | create a scenario, run it | portfolios |
| Feature store, economic models (`services/feature_store.py`, `services/economic_models_engine.py`, `economic_models_engine/`) | features, snapshots, model outputs | compute and upsert | job runner |
| Model training (`ml/tensorflow_baseline.py`) | model artifacts, registry, training and prediction runs | train, register, predict | feature store, job runner |
| Portfolio optimizer (`services/portfolio_optimizer.py`) | none: reads the model tables | build the overlay of a portfolio | called at the end of a run of the economic models |
| Command line (`jobs/cli.py`) | none: a session per command | the services above, without a job row | every service |
| Repositories, schemas, dashboard, migrations, infrastructure | - | CRUD, validation, display, DDL, provisioning | - |

What is hard in each, and what makes it correct:

- **Job runner.** Two deliveries of one request overlap; a crash between the
  external write and the commit; a lost reply; a reply sent before the commit;
  a key that changes at midnight. Correct: one executor per key, work repeated
  only after a fault, one final result per key, every reply carries it, every
  delivered request is eventually recorded.
- **Analytics mirror.** The watermark must never pass an object that is not
  mirrored, whatever arrives, is rewritten or crashes while a run is under
  way; every object must get mirrored in the end; nothing new must mean
  nothing reread; a manifest's lineage must stay readable; the merge into the
  native table must neither lose nor double a row.
- **Market data and reconciliation.** The lake is written inside the
  transaction but is not part of it: the row and the artifact can disagree
  after a crash or a race; a comparison may be made with a snapshot replaced
  since; artifacts of two portfolios share a key.
- **Historical ingestion.** A dozen objects are written one by one; a manifest
  must only describe objects that exist, and a rerun must heal a partial one.
  The deduplication must keep exactly the preferred record of each key.
- **Portfolio factory.** The seed and the clients create the same templates;
  the rows of one flush reach the database one by one; a lost race ends in an
  IntegrityError for the whole request. Correct: what a client was told stays
  true, an answered seed leaves complete templates, a portfolio is never seen
  without its positions.
- **Scenario lab and event catalog.** A rerun returns the earlier run by
  (scenario, portfolio, date), whatever its other parameters were; a scenario
  is derived from rows read by several statements. Correct: runs price every
  position, an assumption-free counterfactual agrees with the simulation, a
  derived scenario knows what was committed before its request.
- **Feature store, economic models, training.** Upserts by natural keys with
  nullable columns, artifacts saved before their rows, paths that leave part
  of the key out, an overlay read table by table while others commit. Correct: a
  run's rows are all there or all replaced, a run replaces what was recorded
  before it, the registry agrees with a training run, an overlay does not rest on
  what its run replaced, and races only cost attempts.

The lists of components and of hazards, each at its line, are in
`PROJECT.json`.

## 2. Plan and state of the work

| # | Modules | About | State |
|---|---|---|---|
| 1 | `JobLedger`, `JobRuns`, `MCJobRuns`, `JobRuns_proofs` | the idempotent job protocol, which every other job runs under | modelled, checked, proved |
| 2 | `AnalyticsMirror`, `MCAnalyticsMirror`, `AnalyticsMirror_proofs` | the mirror of the silver layer, its watermark and the native table | modelled, checked, all safety invariants proved |
| 3 | `EodPipeline`, `MCEodPipeline`, `NaturalOrder`, `EodPipeline_proofs` | snapshots and reconciliation over database and lake | modelled, checked, all safety invariants proved (`CuratedAgrees` for one request) |
| 4 | `HistoricalIngestion`, `MCHistoricalIngestion`, `HistoricalIngestion_proofs` | parse, enrich, deduplicate, write, manifest | modelled, checked, all safety invariants proved |
| 5 | `ResearchTables`, `OrmSessions`, `PortfolioFactory`, `ScenarioLab`, `AtomicApi`, `ResearchApi`, `MCResearchApi`, `ResearchApi_proofs`, `AtomicApi_proofs` | requests of the research routes over one database | modelled, checked, all safety invariants and the refinement of `AtomicApi` proved |
| 6 | `ModelStore`, `MCModelStore`, `ModelStore_proofs` | the economic model runs with their overlay, the feature store and the baseline training | modelled, checked, all safety invariants proved |

The plan is carried out: every invariant of a passing run, both refinements and the
action property `SuccessIsFinal` are theorems. What is left to TLC alone is liveness.

`ResearchApi` composes `PortfolioFactory` and `ScenarioLab`, which both run in
the sessions of `OrmSessions` over the tables of `ResearchTables`. Two modules
are shown to implement an abstract one. `JobRuns` implements `JobLedger`, which
is what a job route promises: one result per key, recorded once, and every
reply carries it. `ResearchApi` implements `AtomicApi`, in which every call is
executed whole at one instant, against the rows that are committed then: what
sessions keep in memory, flush statement by statement, read by several
statements and roll back is not to be seen from outside. The other modules stand
alone: the mirror reads what the ingestion writes, but all that it needs to know
of the ingestion is that silver objects appear and are replaced, which
`PutSource` says.

## 3. The modules and the code

Each module's header says what it is about; `PROJECT.json` gives, for every
definition, the lines of the source that it stands for.

**JobRuns** (`api/routes/jobs.py`, `core/idempotency.py`, `core/db.py`,
`repositories/jobs.py`). A handler is a session with a phase: `Receive` (the
delivery and the key, which depends on the day when the payload has no date),
`Lookup` (`_get_execution` and the early return on SUCCEEDED), `Insert` (the
RUNNING row and its flush, with the unique constraint), `Work` (the service
call), `Update` (SUCCEEDED and the result), `Commit` and `Respond` in the order
that `commitFirst` gives, `Fail` (any exception or death: rollback). The
database is read-committed: a row in an open transaction is locked and unseen.
`BeginExecution` and `CompleteExecution` are the repository class, used on the
keys `orchestrated` of the same table with no lock. `commitFirst` is picked at the
start because FastAPI runs the exit code of a dependency before the response up
to 0.117 and after it from 0.118, and `pyproject.toml` allows both.

**AnalyticsMirror** (`services/analytics_mirror.py`). `Start` reads the
watermark file, `List` takes the objects of the prefix above it (sorted by time
in R2, by path in the local store, cut at `limit_files`), `Read` and `Write` copy
one object, `Publish` merges the copied objects into the native table,
`WriteManifest` writes the lineage under a name made of the prefix and the number
of objects, `WriteWatermark` moves the mark (or resets it when nothing was
mirrored), `Raise` and `Crash` stop a run anywhere, a crash of the host perhaps
in the middle of the watermark file. `PutSource` is the producers of silver
objects. Rows of the native table are matched by the merge keys (`SameRows`,
`Matched`): objects of one source file hold the same rows, a row with a NULL in its
key matches none (`HasKey`; the `isin` of an instrument may be NULL), and BigQuery
refuses a MERGE in which two source rows match one (`Ambiguous`). Where the watermark is
kept, how the listing is sorted, which payloads there are, whether there is a
native table and whether a disk survives a crash is a `deployment`, picked at the
start.

**EodPipeline** (`services/market_data.py`, `services/eod_reconciliation.py`).
Each session loads rows, keeps its changes in memory and flushes them one
statement at a time (`Flush`, or `Block` behind another session's lock).
`Ingest`, `StoreRaw` (ticker by ticker) and `Commit` are a batch of snapshots,
in which a ticker may be repeated; `Reconcile`, `Compare`, `LoadComparisons`,
`StoreCurated` and `Commit` a reconciliation with its job row, for one of several
portfolios. The UPDATE of the ORM writes the changed columns only (`Merge`).
`DeadlockVictim` is PostgreSQL breaking a cycle of waits.

**HistoricalIngestion** (`ingestion/`). `RowsOf` is all that a call computes in
memory, and the same in every call of a request: `Parse` with `Enrich` (asset
type and segment from market, specification and BDI code), `Refused` (the
validator), `Deduplicate`, `Instruments`, the reference date of the bronze names.
It is computed once, in the frozen variable `memory`. `Begin` a call, `Prepare`
parses and may refuse the file, `StoreRaw`, `StoreMetadata`, `StoreQuotes`
(partition by partition), `StoreInstruments`, `StoreManifest` write the objects
in the code's order, `Fail` stops a call between two of them. A request has an
optional `reference_date`, which dates the lines of a CSV file without a date and
names the bronze objects, but is not part of the ingestion id.

**ResearchTables** (`models/entities.py`, `repositories/events.py`, `schemas/scenario.py`)
has the tables that the research routes share: the natural keys of the rows
(`TemplateId`, `RunId`, ...), the rows that a call adds (`EventRows`,
`DerivedRows`, ...), and the arithmetic of shocks (`ShockVector`, `Applied`,
`Adjusted`).
**OrmSessions** (`core/db.py`, `repositories/base.py`). The session of a
request: `Keeping` and `Adding` are `session.add` with and without a flush,
`Flush` sends one statement of the flush, with locks and unique constraints,
`Commit` commits and replies, `Crash` rolls back. The order of the statements of
a flush (`Precedes`) is that of SQLAlchemy's unit of work: rows before the rows
that refer to them, UPDATEs of a table before its INSERTs. **PortfolioFactory**
(`services/portfolio_factory.py`) has the steps of the seed (`SystemUser`,
`DefaultFamily`, then `SeedExisting` or `SeedMissing` for each default template,
`SeedEnd`), of `CreateTemplate`/`AddTemplate` and `CreateInstance`.
**ScenarioLab** (`services/event_catalog.py`, `services/scenario_lab.py`) has the
events, mappings and profiles, the derivation of a scenario (`DeriveScenario`,
`ReadMappings`, `ReadProfiles`, `AddDerived`), and the runs
(`StartRun`, `RunScenario`, `RunCounterfactual`).
**ResearchApi** puts the calls of clients, their repetition after conflicts and
faults, and the properties on top. **AtomicApi** is the abstract specification of
the same routes: one action per route, which reads and writes the tables at one
instant and tells the client the row. Only which mappings and profiles a derived
scenario takes account of is left open there, since the code reads them by
several statements; `DerivedIsCurrent` says what holds of that.

**ModelStore** (`services/economic_models_engine.py`,
`repositories/economic_models.py`, `services/feature_store.py`,
`ml/tensorflow_baseline.py`). What a job writes are items, each at its
place (`EconomicItems`, `TrainingItems`) and about the rows of one scope: table,
owner, names, date with window. A session goes from place to place (`Place`). A
run without fundamentals for its multiples has no row to put for those it deletes. `Begin` opens a session for a job; `ReplaceRows`
selects the rows of a scope, to be deleted, and adds the new ones; `AddRow` and
`ChangeRow` are the two ways of an upsert. `Delete` and `Send` are the statements
of a flush, behind the locks and unique constraints of PostgreSQL (`Ready`,
`Block`, `KeyTaken`, `Conflict`, `DeadlockVictim`). A scope without a portfolio has
NULL in its unique constraint, which then excludes nothing (`Unique`). In a
training the changes of the registry and training rows wait for the next flush
(`lazy`), and `SaveArtifact` comes before all of them. The job's execution row is
left to `JobRuns`, `known` stands for it; a run from the command line, which has
none, is a job of its own.

## 4. What the runs show

| Run | Distinct states | What it checks |
|---|---|---|
| `jobs` | 454 034 | three handlers, both orders of commit and reply, with and without the repository class: no two executions of a key at a time (`OneExecutor`), repetitions are paid for by faults (`RepeatsNeedFaults`), with the commit first every reply is recorded (`AckedIsRecorded`), a result is never replaced (`SuccessIsFinal`), the table and the replies implement `JobLedger` (`LedgerSpec`), every delivered job is recorded in the end while faults are fewer than attempts (`EventuallyRecorded`), and the inductive invariant of the proofs (`IInv`) |
| `jobs_midnight` | violation | one message, one run (`OneRunPerMessage`): false for a payload without a date that is redelivered after midnight, since the documented idempotency key of the edge is never read |
| `mirror` | 173 332 | eight deployments (R2 or local listing, one or two hosts, overlapping runs, equal times, invalid objects, disks that survive or not, objects with the same rows one by one or in one batch, rows without a merge key): the watermark never hides an object that is not mirrored (`Covered`), lineage never claims bytes that were not published (`LineageIsPublished`), rows with a complete merge key are inserted once (`RowsAreUnique`), every object gets mirrored once producers stop (`EventuallyMirrored`); `Covered` and `LineageIsPublished` are about one run at a time (`Orderly`), `RowsAreUnique` about the rows of each object, and where runs take one object at a time about those of each source file |
| `mirror_prefixes` | violation | objects of a prefix are detected (`DetectsNewObjects`): false, payloads with different prefixes share one watermark |
| `mirror_reread` | violation | nothing is reread when there is nothing new (`NoReread`): false, after one object was written and mirrored an empty run resets the watermark and the next run mirrors it again |
| `mirror_lineage` | violation | every published object has its lineage (`LineageKept`): false, a later run of the day with the same number of objects writes over the manifest |
| `eod` | 356 020 | crossed batches with deadlocks, a batch that repeats a ticker, and a reconciliation: a row has its artifact (`SnapshotHasArtifact`), a SUCCEEDED job has its comparisons and a curated artifact that agrees with them (`CuratedAgrees`), batches get in, one that repeats a ticker if its tickers have rows (`EventuallyIngested`), and the artifact of a failed reconciliation does not stay without its job (`ArtifactGetsRecorded`) |
| `eod_shared` | violation | `CuratedAgrees` for two portfolios: false, the second reconciliation of the day writes over the artifact of the first |
| `eod_torn` | violation | the hash of a snapshot is that of its columns (`HashMatches`): false for two concurrent corrections, whose UPDATEs merge column by column |
| `ingestion` | 83 791 | 140 files in four plans of requests: manifests tell the truth (`ManifestIsTrue`) and their counts add up (`CountsAddUp`), silver follows bronze (`SilverHasBronze`), the deduplication keeps the documented record (`BestIsKept`), instruments span their quotes (`InstrumentsSpan`), calls complete in the end (`EventuallyIngested`) |
| `research` | 123 617 | five plans of calls by two sessions: answers hold (`AnswersHold`), seeds are complete (`SeedIsComplete`), runs price every position (`RunsCoverPortfolio`), neutral counterfactuals agree with simulations (`NeutralAgrees`), derived scenarios are current (`DerivedIsCurrent`), every call ends (`EventuallyAnswered`), and the whole implements `AtomicApi` (`ImplementsAtomicApi`) |
| `model_store` | 125 088 | three plans of three jobs by two sessions, some of them commands: replaced rows are there as a whole or not at all (`RowsWhole`), runs of a portfolio that share a factor never both stay (`OneRunPerScope`), a run leaves nothing of what was recorded before it began (`ReplacesEarlier`), the registry shows the metrics of a training run (`RegistryMatches`), an overlay has nothing of what its run replaced (`OverlayIsCurrent`), every job gets stored (`EventuallyStored`) |

Each property of a passing run has a mutant in `PROJECT.json`: a bug of the
kind the code could have (a dropped check, a wrong order, a missing reset)
under which TLC finds the property violated. Mutated forms (`LookupIgnoresStatus`,
`ReconcileReusesArtifact`, `SeedSkipsExisting`, ...) stand before the definitions they
replace and are used by nothing else. Every disjunct of every next-state
relation fires in the passing runs.

### Bounds

All bounds are constants in the `.cfg` files. Two sessions (three handlers in
`jobs`) are what races on one row need: the third adds a witness of
the first two's conflict. Three deliveries with two faults cover a fault during
a delivery, one during its repetition and a late reply. Two
objects and three writes give the mirror a rewrite, a new object and an object
behind the mark; deployments with two runs at once, with both objects of the same rows
in one batch and with rows without a key have two writes. The insertions of a row
are counted up to two. Two tickers
in opposite orders are the smallest deadlock. The
files of the ingestion are all those of up to two lines of eight kinds,
all orders of three lines that differ in date, market or measure, and COTAHIST
files of two lines of the kinds that the enricher tells apart; the requests have
one, two or no reference date, three calls and two faults. The plans of
`research` are the sets of calls that touch the same rows; all calls at once add
states but no row on which more of them meet. The jobs of `model_store` are three
runs over crossed factors (two insert in opposite orders, the third overlaps
both) with two market indices, three without a portfolio, three trainings of which
two have one dataset: the third job meets what a race of the first two has left.
Five attempts are those of QStash. Days go to one past midnight.

`mirror` and `ingestion` switch the deadlock check off: there the bounds
on writes, faults and attempts really end the behaviour. The other
specifications have a step `Quiescent` for the states in which everything is
done, and any other state without a step is an error.

### Fairness

Handlers, sessions and runs are weakly fair step by step: the server schedules
its threads, calls to the lake and to BigQuery return or raise, a lock is
released at the end of its transaction and PostgreSQL breaks deadlocks. Senders
are weakly fair: QStash redelivers what was not acknowledged
(`infra/terraform/providers/upstash/blueprint.yaml` allows five attempts), the scheduler keeps
starting the mirror, callers of batches, ingestions and research routes call
again; `ResearchApi` only asks that something happens while anything can, and
`ModelStore` that some job that is not recorded is asked for again.
Crashes, exceptions, lost replies, midnight and the writes of producers are
never fair. The eventualities of jobs and ingestion suppose fewer faults than
attempts (by the constants), the mirror's that producers stop and leave no
invalid object behind and no watermark file cut short, in the deployments of the run.

## 5. What is proved

TLAPS checks eight modules of proofs, for every value of the constants that
satisfies the named assumptions (`JobRunsAssumption`, `OrmSessionsAssumption`,
`ResearchTablesAssumption`, `PortfolioFactoryAssumption`, `ResearchApiAssumption`,
`EodPipelineAssumption`, `NoRowAssumption`, `AnalyticsMirrorAssumption`,
`HistoricalIngestionAssumption`, `NoRecordAssumption`, `ModelStoreAssumption`).
Most of them give types and bounds. These say more:

- shocks and bounds are numbers, also in the template of a profile (`IsTemplate`: the
  schema takes any dictionary, but a derivation that uses another one raises before
  it adds a row), and no profile is for nothing (`ProfileId(...) # None`);
- the default templates have different slugs, and their constraints are given keys
  in the order in which the seed adds them;
- the sections `capm` and `dcf` of an economic run have one row per scope, and a
  training names its model;
- a body of an event does not name an asset of one type twice (`ValidEvent`, see the
  end of section 6);
- `None` is neither a row, a record, a span, a job nor a call.

Every passing run evaluates those of its modules.

**JobRuns_proofs** (any handlers, messages, days, deliveries and faults, both
orders of commit and reply): `TypeCorrect`, `Exclusion` (`OneExecutor`),
`WorkRepetition` (`RepeatsNeedFaults`), `Acknowledgement` (`AckedIsRecorded`, if
the commit comes first), `Finality` (`SuccessIsFinal`), `Refinement` (`LedgerSpec`:
each initial state and step maps to one of `JobLedger`), all from `Invariance`
(`[]IInv`). None of them is inductive by itself. `IInv` adds what the handlers
know: `PhaseInv` (what each phase says of the session), `RowInv` and `InsertInv`
(an uncommitted INSERT excludes a committed row and any other such INSERT, which
is the unique constraint at work), `StatusInv` (a plain key is absent or
succeeded: RUNNING is never seen from outside), `ReplyInv` (a handler replies
what is committed or what it is about to commit) and `RunsInv` (work without a
fault is recorded or about to be).

**ResearchApi_proofs** (any sessions, calls, bodies, default templates and
faults): `TypeCorrect` (`TypeOK`) and `AnswersStand` (`AnswersHold`). A told row
could change if a commit wrote over it. `IInv` says why none does: what a flush
writes is a new row or a constraint (`FlushInv`), a row that a session holds is
not committed meanwhile since its INSERT found the key free and locks it
(`FlushInv`, `LockInv`), constraints are the only rows that are ever changed and
no reply names one (`ToldInv`), and what a session answers with is committed or
its own by then; for the seed, whose answer was added templates earlier,
`SeedInv` keeps that true across its loop. `SessionStep` is the argument for one
session's step; the handlers only have to show that they leave their session in
order, most of them through `AddStep`, `AnswerStep` and `RunStep`. TLC checked
this `IInv` as an invariant of the instance of `research` before it was proved.

**AtomicApi_proofs** goes on from there: `Refinement` (`ImplementsAtomicApi`),
`SeedComplete` (`SeedIsComplete`), `RunsCover` (`RunsCoverPortfolio`), `NeutralRuns`
(`NeutralAgrees`) and `DerivedCurrent` (`DerivedIsCurrent`). A call is carried out at its
commit, and every other step of a session is a stutter of `AtomicApi`. What has to be
shown is that the rows a session commits are those that the call would make of the
tables at that instant, although the session read them earlier and others have
committed since. `CInv` says so of every moment: no two sessions work on one call
(`CallsInv`), and what a session carries is `Content`, that is what it holds, has added
and has read agrees with what the call writes on the tables as they are now (`HeldInv`,
`DoneInv`, `ReadInv`, `RowsInv`). All of it is stated of tables given as an argument, so that one
lemma answers for the commits of others: rows are only added, but for constraints
(`Grows`), and what a commit adds is what its call writes (`Wrote`), which leaves the `Content` of
every other session true: they have flushed other rows, by the unique constraints.
`Tables` (runs are exact for their portfolio and vector, `RunsExact`) and
`SeedIsComplete` are part of the invariant. TLC checked `CInv` on the instance of
`research` before it was proved.

**AnalyticsMirror_proofs** (any objects, runs, hosts, deployments, writes and
faults): `TypeCorrect` (`TypeOK`, with `Clock`: nothing is stamped later than
now), `WatermarkIsHonest` (`Covered`), `LineageHolds` (`LineageIsPublished`) and
`RowsStayUnique` (`RowsAreUnique`: keyed rows once per object in any deployment, once
per source file where runs take one object at a time). `Covered` is not inductive since a run moves the
watermark at its end over everything it left out. `CoverInv` is about the one run
of an orderly deployment: what it listed is above the mark it read, and listed
with its current stamp or `Behind` it, that is rewritten since and therefore later
than anything the run has in hand (`QueueInv`, `CopiedInv`); each object there is
rewritten since, still to be copied, copied in its current version, or mirrored
before (`BatchInv`); and the limit leaves out later objects only (`LeftOutIsLater`,
from cardinalities), which is what a listing by path does not give. `LineageInv`
orders the versions of an object: in the table, in GCS, in the store
(`VersionsInv`), with what is being read between the last two. The rows do not
need an orderly deployment: a MERGE inserts an object only where no row matches
(`MergedRow`), so keyed rows keep one copy (`OneCopy`, `NextCopies`), and a run with
at most one object in hand (`RowsInv`) inserts its rows into a table that has none of
their source file.

**EodPipeline_proofs** (any sessions, batches, requests and faults):
`TypeCorrect` (`TypeOK`) and `ArtifactFirst` (`SnapshotHasArtifact`), both from
`Invariance`, and `ArtifactAgrees` (`CuratedAgrees`) for
one request only, which is where it holds: `eod_shared` is the counterexample for
two portfolios. `IInv` says that rows are of their tables and what a session has
loaded was committed, what each phase has loaded and wants to write (`WantInv`, with the
rows a task may own), which artifacts it has stored by then (`StoredInv`), that
a flushed INSERT still finds its key free (`NewInv`) and that the flushed rows of
two sessions are disjoint (`Apart`).

**NaturalOrder** has what these proofs and the next ones take of the order of numbers:
least and greatest elements, induction over a set of numbers (`NumbersByInduction`), and
that a recursion over the subsets of a finite set has a solution
(`RecursionOverSubsets`). The library's theorems of that kind are about a predicate
`P(_)`, which the provers here cannot instantiate; these are about sets and functions.

**HistoricalIngestion_proofs** (any sessions, files, requests and faults) has two parts.
The first is about the calls: `SilverFollowsBronze` (`SilverHasBronze`) and
`ManifestsStayTrue` (`ManifestIsTrue`). `BInv` adds which bronze objects a call has
stored by each phase. `MInv` says of an ingestion whose requests read the same records
that all its objects hold what any of these requests would write (`ObjectsInv`), which
silver objects are there once a call is past them (`CallInv`), and that a manifest is
only there with all of them. That equal records give equal rows (`SameRows`) is all
that this part uses of the pass over the file.

The second part is about that pass, for files of any length: `TypeCorrect` (`TypeOK`),
`BestIsStored` (`BestIsKept`), `SpansAreStored` (`InstrumentsSpan`) and `CountsAreRight`
(`CountsAddUp`). Its invariant `RInv` is short: every stored object is what an accepted
request writes under its name (`Written`), and a call that writes has an accepted file
and its own partitions to write (`Holding`). TLC checked it on the instance of
`ingestion` first. What the objects are made of is an argument about folds: a fold steps
from line to line (`Passes`, from `RecursionOverSubsets`), and each pass has its loop
invariant, that the first n records have left the best one of each key so far
(`SoFar`, `TakeStep`) or the span of each instrument so far (`Registered`,
`RegisterStep`). `BeatsIsPreferred` and `PreferenceOrder` make the code's two
comparisons an order, so that the line kept does not depend on the order of lines. That the
sorted sequence has all records kept (`Sorting`) is by the number of records before
each; the counts (`PartsAddUp`, `KeysAndDuplicates`) are by cardinalities.

**ModelStore_proofs** (any sessions, jobs, payloads, plans and faults): `TypeCorrect`
(`TypeOK`), `WholeOrGone` (`RowsWhole`), `RunsReplace` (`ReplacesEarlier`) and `OneRunStays`
(`OneRunPerScope`), all from `Invariance`. A commit takes away what its session has
deleted, so the rows of an item stay whole if each session deletes all that is left of it
or nothing (`WholeInv`): a session selects by scope, and what another commit takes from
its list was whole too. A session has written the rows of every item it is past and
deleted what jobs recorded before it began left in their scopes (`ItemsInv`), which is
`ReplacesEarlier` at its commit. What two sessions write never clashes (`Apart`, the row
locks), and beside a row that a session has written no other job's row of its key stays
committed (`KeyInv`, the unique constraint at work); from that and `RowsWhole` follows
`OneRunPerScope`.

`RegistryAgrees` (`RegistryMatches`) and `OverlayHolds` (`OverlayIsCurrent`) are about
columns, and rest on a second invariant, `CInv`, preserved beside the first. One column of
each table tells which job computed the row (`Stamp`): a committed row was computed by a
recorded job (`ComputedInv`), and a write that a session makes is about its scopes and says
whose it is (`WritesInv`). A session has a write in every upserted scope it has
reached (`ReachedInv`), and what waits in memory is of the lazy items (`LazyInv`); so
whoever commits a registry row commits its training row with it, and `KeyInv` lets
nobody else hold the registry row meanwhile. What an overlay reads in the scopes of its
own run is then its own, or of a run unknown when it began (`OverlayInv`). TLC checked
this `CInv` on the instance of `model_store` before it was proved.

Only model-checked: the liveness properties (`EventuallyRecorded`,
`EventuallyMirrored`, both `EventuallyIngested`, `ArtifactGetsRecorded`,
`EventuallyAnswered`, `EventuallyStored`), since fairness and ENABLED are outside the prover's reach. All
invariants of the passing runs (`CuratedAgrees` for one request, where it holds), the
action property `SuccessIsFinal` and both refinements are proved. `Kept`, `Parse` and the passes of the ingestion are written with folds and a
CHOOSE, which can be reasoned about, and not with `SelectSeq` and `SetToSortSeq` of the
libraries, which the prover cannot expand.

## 6. Abstractions

- *Database.* PostgreSQL at READ COMMITTED. Rows are known by their natural
  keys. In `JobRuns` a repository call with its caller's commit is one step; in
  `EodPipeline` the SELECTs of one batch are one step; in `ResearchApi` reads
  that the code makes in one handler between two flushes are one step, except
  the reads of an event, its mappings and its profiles. The rows of
  `ResearchApi` are immutable but for constraints, so a later read finds what an
  earlier one found.
- *Lake.* Puts and listings are atomic, as in R2. (The local store writes in
  place; its watermark file is modelled as such.)
- *Replies.* In `ResearchApi` the reply goes with the commit. Where FastAPI
  replies before the commit and the commit then fails, a client holds an answer
  with no row; `jobs` has that order too.
- *Flushes.* The UPDATEs of a flush go in the order of the rows' primary keys, the
  same for all sessions; the model takes the order of the constraint keys.
  `EodPipeline` and `ModelStore` also give a released row to the session that
  waited for it before any newcomer. DELETEs go in the order of primary keys,
  which are random: `ModelStore` takes the order of row keys and of `Rank`.
- *Rows of the models.* The computed columns of a row are represented by the job
  that computed them, so no two jobs compute the same values; strategy and
  objective of a registry row are left out. Of the optimizer's overlay the model has
  which rows it reads and uses, not the scores. A run's portfolio exists.
- *Time.* `ResearchApi` has one `active_from` date. It is part of the unique
  constraint of constraint rows, so two sessions that add the same constraints on
  either side of midnight would both succeed. `EodPipeline` has one reference
  date, market and slug; `HistoricalIngestion` one processing date.
- *Bodies.* Names, payloads, texts are members of small sets. Shocks are
  integers in units in which 5/4 of a base is whole. Sector and index overrides
  of a shock vector are computed but never applied to a portfolio by the code,
  and the model says the same. The order of mappings and of profiles is not
  given by the query: any of them may win.
- *Clients.* A call names a template, event, portfolio or profile only once it
  is committed; a 404 changes nothing and is no step. A creation of an instance,
  mapping or profile that is repeated after its reply was lost meets its own
  row and gets 500 for ever: the model counts it as given up (`refused`).

Facts met on the way that no run checks, first about the mirror. With a path-ordered
(local) listing and a limit, a run can move the watermark past an object that it left
out, which may then never be mirrored; after a watermark file cut short on
a disk that survives, no run starts until the file is repaired. `mirror` has no
deployment of the first kind, and `EventuallyMirrored` supposes that the second is over.
The native table is not free of duplicates, although
`docs/modules/analytics_mirror.md:66` says "O job é reexecutável sem duplicar carga
lógica.". First, the key of `instruments` names `isin`, which may be NULL
(`ingestion/models.py:66`), and `T.isin = S.isin` (`services/analytics_mirror.py:488`)
is not true of two NULLs: with a native table of instruments each mirroring of such a
row inserts it again. Second, if both objects of one source file (of two processing
dates) are in the first batch that holds its rows, both are inserted. Once its rows are
in the table, a MERGE with both objects is refused. The deployments `NullKeys` and
`TwinBatch` do these things, and `RowsAreUnique` is restricted to what remains true:
rows whose key has no NULL are inserted once from each object, and once from all objects
of a source file if runs take one object at a time.

Others: a body of an event that names an asset of one type twice is let through by the
schema and fails on every attempt, at the flush of the second mapping
(`services/event_catalog.py:107`, `models/entities.py:271`), where the model has no such
body; a comparison keeps the close that was read for it, whatever corrections are
committed meanwhile; of two requests for one file with different reference dates, either
may be the one whose quotes a partition holds; a batch that changes no row holds no lock
while it writes its raw artifacts and may put them over those of a later correction; a
client's template of a default slug keeps its own `constraints_json` while the seed
changes its constraint rows; a counterfactual asked for with other assumptions on the
same day gets the first one's result. In `ModelStore`, two concurrent runs without a
portfolio both leave their rows, so that such a scope then has two of each
(docs/test-plan.md only promises uniqueness where a constraint gives it); after three
runs a snapshot or prediction row may combine columns of two of them; an overlay may
prefer an older row of another market index or model family to its run's own, or mix
rows of runs that commit between its statements (in scopes that the run writes,
`OverlayIsCurrent` excludes only what it replaced); an artifact may be that of a
training that was rolled back, and is gone with the disk of its instance.
The hazards in `PROJECT.json` say where each bites.

## 7. Not modelled

The numerics of the models and the score of the overlay (regressions,
ARIMA, GARCH, DCF, TensorFlow) are outside TLC's reach: what can be modelled of
them is when their results are stored. Settings, logging and most schemas keep no
state, and the dashboard only displays. `repositories/users.py`,
`repositories/portfolio.py` and `repositories/ml.py` are called by
`tests/test_persistence_integration.py` only: the services write the same tables
by themselves, and it is their code that is modelled. Of the command line,
`apply-migrations` is left out, and `seed-templates`, `ingest-snapshots`,
`reconcile-eod` and `analytics-mirror` are calls of modelled services that add no
state to them (`train-model`, `economic-models` and `ingest-historical` are entrances
of their models). `mirror_rows` of the mirror is one overwrite of an object whose
name is made of the payload. The edge worker is a stateless forwarder; `Receive` in
`JobRuns` stands for it and QStash. Migrations and deployment files were read for
constraints, retries and concurrency, and are not modelled.
