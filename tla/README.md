# Verification of the stock_quant platform

TLA+ modules, TLC configurations and TLAPS proofs for the parts of this
repository that keep state through concurrency, failure and long sequences of
steps: the PostgreSQL record store and the request boundary above it, the paper
decision ledger and the daily allocation runs that write to it, the point-in-time
observation repository, the daily mainline, the migration of the market-data
table, the batch build of the company database and the executor of workflow definitions. `PROJECT.json` lists the runs, the mutants
that show each property can fail, the lines every definition translates, the
hazards and the theorems.

## The system

The repository is a local-first research platform: an HTTP server on a record
store, a large service layer that computes on the records, and a separate
"dynamic allocation" part that takes public data to a paper-only decision.

| component | state | operations | hard behaviour | correct when |
|---|---|---|---|---|
| `app/store.py` PostgreSQLStore | records in dictionaries, payload-hash cache, dirty collections, audit log and its persisted ids; rows in PostgreSQL | `_load`, `mark_dirty_for_resource`, `commit`, `commit_all`, typed bars | scoped against full commits, roll-back of a failed one, restart | cache = rows; acknowledged = durable; audit trail a prefix |
| `app/api.py` ApiRouter | dispatch lock, allocation lock | `dispatch`, `_dispatch_locked` | threads, refusals that write, lock tried but not waited for | commits do not overlap; allocation requests are answered |
| `app/services.py`, `app/service_modules/*` | none of their own (records of the store) | about 400 handlers; `_audit`, `record_permission_denied`, `record_usage` | raise half way; many commits in one handler; rely on the boundary to persist | what they stored is durable when they answer 200 |
| daily mainline | stage records, candidates, queue items, a run record | `run_stages`, four stages, `derive_run_status` | one time budget, shared among model calls; cascades | nothing dropped or misreported; the run always ends |
| company database build | records of five layers, run records | `build_company_database_batch`, `retry_company_database_build_run` | many commits, failures between them, resumes of resumes | a run record attests only what is durable |
| workflow definitions | runs, task states, lineage events | register, execute, retry | task order, skips, commits that fail inside a task | nothing runs on missing inputs or is called succeeded without them |
| market-data storage and its migration | bars, shadow table, legacy table, control rows | prepare, copy, repair, validate, cutover, rollback, cleanup | commands that die and are repeated, copies that go on without a client, several runs | the application sees only its own writes, and none is lost that was made before the validation |
| `app/server.py` | - | one thread per request | - | - |
| `dynamic_allocation/paper` | a JSONL file | `append`, `replay` | processes, kills, short writes, power loss | hash chain whole; acknowledged runs replayed |
| `dynamic_allocation/data` | table `economic_observations` (SQLite) | `collect`, `ingest`, `ingest_strict`, `upsert`, `upsert_with_revisions`, `history_available` | overlapping refreshes, reads before the write lock, constraint conflicts | append-only revisions; as-of answers stable |
| `dynamic_allocation/application.py`, `records.py`, daily scripts | immutable decision records, reports | `evaluate`, `append`, daily run, paper run, operations report | crash between two of the stores, two processes that come to one decision | no decision in the ledger without its record, none twice; reports are true |
| factors, models, risk, portfolio, backtest | - | pure floating-point calculations | numeric edges | - |
| research-report clone scripts | clone databases, manifests | prepare, execute, promote, recover | crash, retry | insert-only, once |
| knowledge graph, connectors, search, LLM gateway, object store, UI, backups | files, records | input and output, data-dependent inference | timeouts | - |

They interact by direct calls: server thread -> `dispatch` -> handler -> store ->
PostgreSQL. All threads share one service and one store object; the daily
mainline, company builds and workflow executions are handlers that hold the
dispatch lock from beginning to end and commit many times on the way. The
allocation application does not touch that store; it meets it only where a request
to `/api/dynamic-allocation` is refused (audited through the shared store) or
counted (usage metrics). The daily scripts are processes of their own and share
the SQLite file and the ledger with the server: the decision records and the ledger
are two stores that a run writes one after the other, and then it reports. The migration runs against the
same database with the application stopped, or nearly.

## Modules

| module | what it is | code |
|---|---|---|
| `RecordCommit` | one commit as operators on (memory, hash cache, dirty set, rows) | `store.py` `_load`, `commit` |
| `RecordStore` | requests one at a time on the store, with failures and restarts; uses `RecordCommit` | `store.py`, `api.py` `_dispatch_locked`, `services.py` `_audit`, `usage_metrics.py` |
| `AcknowledgedStore` | abstract contract: what the service holds, what is stable, what was promised | - |
| `DispatchThreads` | request threads, the two locks, commits in steps; uses `RecordCommit` | `api.py` `dispatch`, `store.py` `commit` |
| `PaperLedger` | processes appending to the JSONL ledger | `paper/repository.py` |
| `DecisionLog` | abstract contract: a log of different decisions that grows while it can be read, and loses none that was answered | - |
| `DailyAllocation` | daily runs, evaluate requests and paper commands, from a decision to its record, the ledger and a report; extends `PaperLedger` | `scripts/dynamic_allocation_daily_run.py`, `scripts/dynamic_allocation_paper_run.py`, `application.py`, `records.py` |
| `ObservationStore` | overlapping refreshes of the observation table, as-of queries | `data/repository.py`, `data/public_pipeline.py` |
| `VintageLog` | abstract contract: an append-only log of distinct values per vintage | - |
| `DailyMainline` | one run under its time budget | `services.py` `run_daily_mainline`, `service_modules/daily_mainline.py` |
| `BarsMigration` | the migration commands, their transactions and selects, runs and stragglers | `scripts/migrate_market_data_storage_v2.py`, `market_data_storage.py` |
| `PublishedBars` | abstract contract: bars change by writes only, a cutover may lose those since its comparison began, a roll-back brings back what it found | - |
| `CompanyBuild` | batch builds, their resumes and retries | `services.py` `build_company_database_batch`, `retry_company_database_build_run` |
| `WorkflowExecution` | registered, retried and executed workflow runs | `services.py` `run_workflow_definition`, `execute_workflow_definition`, `retry_workflow_run` |
| `*Proofs` | theorems about the module of that name | - |
| `MC*` | instances for TLC | - |

`RecordStore` and `DispatchThreads` are two views of one store: the first has all
of a commit's effects and one request at a time, the second the interleaving and
fewer details. `DailyMainline`, `CompanyBuild` and `WorkflowExecution` are single
handlers; that one runs at a time is what `DispatchThreads` shows
(`CommitsSerialized`), and the last two use an abstraction of the commit that
`RecordCommit` has in full: the dirty collections are written, or everything if
none is dirty, and a failed commit keeps the dirty set.

**RecordStore.** `mem`, `hashes`, `dirty`, `audit`, `persisted` are the fields of
the store object (`persisted` is the length of `_persisted_audit_ids`, always a
prefix of the log of a running service), `rows` and `auditRows` the tables. A
request is `Accept`, any number of `Put`, `Pop`, `Audit` (a commit scoped by the
audited type), then `Raise` or `Return`, `Flush` (`commit_all`; a GET skips it)
and `RecordUsage`. Every commit may instead fail and be rolled back. `Restart` is
possible anywhere. Payload hashes are canonical JSON text and are represented by
the payload. `TypedBars` says whether the typed bar table exists. The code asks twice,
when a store loads (`store.py:686`) and at every commit (`store.py:748`); one constant
stands for both answers, because nothing creates or drops the table while a service
runs (the migration's cutover renames it within a transaction).
`_candidate_collections_for_resource` is the constant `Candidates`,
which may be empty for a type, as it is in the code for `mapping`, `prompt`,
`card` and `api_route`. `promised` and `touched` are history: the records at the
last 200 to a write, and the keys written since.

**DispatchThreads.** The same commit in the steps another thread can come
between: copy of the caches, scan of the target collections (writing rows and
caching their hashes), second read of the dirty set with the deletion, the
transaction's commit, the clearing of the dirty set. Row locks of open
transactions are modelled (`Unlocked`). `Crash` ends the process in whatever state
its threads are: open transactions are rolled back, the store is loaded from the
rows, and requests under way get no answer. The audit log is left to `RecordStore`.

**PaperLedger.** The file is a sequence of pieces: records, newlines, torn
records; `disk` is the part fsync made durable. A record's hash stands for what
was hashed, so it is the sequence of snapshots up to it. `WriteInterrupted`
leaves a torn record or one without newline, `PowerLoss` keeps the synced part
and any first part of the rest. As a `DecisionLog` (`LogSpec`) the file is its last
hash, the sequence of decisions that hash was computed over; the stable part is that
of `disk`, and the log is readable while the file validates.

**DailyAllocation.** Each process goes through `stage`: a daily run and an evaluate
request come from the gate (`GateFails`) or the evaluation (`Evaluate`) to
`InsertDecision`, one row of `dynamic_allocation_records`; the daily run and the
paper command then append to the ledger with the steps of `PaperLedger`
(`LockLedger` to `SyncRecord`); the daily run reads the ledger back (`Replay`) and
writes its report (`WriteOutput`, `Archive`). `uncaught` is an exception that is no
`RuntimeError`. `KillRun` and `Outage` come between any two steps. The decision a run
comes to is any of `Snapshot`, because the data it is computed from change under it;
`handed`, `reported` and `outage` are history.

**ObservationStore.** sqlite3's default transaction control is the point: SELECTs
run outside a transaction until the first INSERT begins one and takes the write
lock. `Select` and `Insert` are two steps; `Clash` is the table's PRIMARY KEY and
UNIQUE constraint; the strict writer aborts on it, the revising writer counts a
conflict. `AsOf` is the ranking query of `history_available`.

**DailyMainline.** `clock` counts whole seconds of the monotonic clock; `results`
is the list of stage records, `cascade` the `cascade_reason` of `run_stages`, `pc`
the stage that runs. The diligence stage goes through the pool one candidate at a
time: `ReadContext`, then `PassOver` (past the limit, no gateway, no time) or
`CallModel`. `Available`, `FairWindow` and `CallTimeout` are
`diligence_call_timeout_seconds`; the queue's reserve, a tenth of the budget, is
rounded up to a second and the shares down, so the model gives away no more than
the code. A call ends within its timeout, which `_send_with_hard_timeout`
enforces; every other step may take up to `MaxWork` seconds, more than the code
allows for (`ContextReserve`). `share`, `lap` and `overran` are history: what the
last call was offered, and whether other work since then kept to its allowance.
A request may bring the run id (`services.py:645`), and the status counts all items
stored under it: `earlier` is how many were there before the run, and `Items` is what
`derive_run_status` is given.

**BarsMigration.** `source`, `shadow` and `legacy` are the three tables, for each key a
bar, with its columns and its payload, or `NoBar`; `phase`, `cursor` and `source_rows`
are the control row of each run. Each command is one transaction and one action, with
three exceptions. `copy` is one transaction a batch in two steps (the keys are read,
the rows are inserted). `validate` is a sequence of selects, each of what is committed
when it starts, and then the update of the phase: `BeginValidate`, a `Compare` for
each select (`check` is the next one, `Holds` what it looks for), `EndValidate`.
`cutover` reads its run's phase and then waits for the lock on the table. `Repair`
changes payloads only: what is left of a repaired row's payload may be the source's or
another, because keys the source lacks stay. A command that dies leaves nothing and
may be repeated; the transaction of a copy that lost its client may still finish when
other commands have begun. The operator gives one command at a time and turns to
another run id at any time except while a validated run waits for its cutover.
The application writes at any time, also between the selects, before the update and
before the cutover has its lock; that is weaker than the runbook, which stops it
altogether. `compared` and `vouched` are history: the bars not written since the
validation under way, or the one that passed, began.

**CompanyBuild.** `mem`/`rows` say which layer is built for which issuer,
`runs`/`stored` the run records, in the service and in the database. A build is
`BuildBatch` or `Retry`, for each batch `BeginBatch`, for each layer `Store` per issuer
and `CommitLayer` (the audit's commit, then, if the layer found anything new or always
saves anew (`SecondCommit`), the marking and the second commit, with either failing),
then `EndBatches`, `RecordRun`, `Answer`; or `Raise`,
`CoverAfterFailure`, `RecordFailure`. Three kinds of layers differ in how they
reach the database: the profiles mark every collection, the events' audits name
their collection (`SelfNamed`), the workflow's records are audited one by one
(`PerRecord`). `Material` is what the local records give to build: an issuer may have
nothing for a layer. A request may list completed and skipped issuers itself (`Claims`;
`services.py:22557-22568`), which are recorded as they come. `planned` and `claimed` are
history: issuers that a dry run counted as completed, and those a request listed.

**WorkflowExecution.** `runs`/`lineage` are in memory, `stored`/`storedLineage` in
the database, `exec` the execution in progress. `Execute` stores the run and
begins; each task is skipped, or started and then `Succeed`, `Fail` or
`LineageFails`, with audits of its own in between (`TaskAudits`); `Finish` derives
the status and audits the run. `RunDefinition` and `Retry` register runs without
executing anything, with whatever status and task states the caller claims.
`dependency_snapshots` are the set `given`.

## Runs

| run | expects | shows | bounds | states |
|---|---|---|---|---|
| `store` | pass | cache exact; acknowledged writes, audited records and bars durable; usage all or nothing; audit trail a prefix; refinement of `AcknowledgedStore` | a mapping (its type names no collection), a bar and the usage metric; two payloads; the typed table present; `MaxAudit` = 2 | 600,368 |
| `dispatch` | pass | without refused allocation requests commits never overlap, the cache is exact between commits, acknowledged writes survive and the threads refine `AcknowledgedStore`; in any case allocation requests are answered though ordinary handlers may hang | two threads, all four kinds of request, two records and the metric, death of the process | 217,899 |
| `dispatch_lost_write` | violation | a refused allocation request destroys an acknowledged row | two threads | - |
| `ledger` | pass | acknowledged appends on disk and in every replay that succeeds; chain whole, a hash commits to exactly the decisions up to it; refinement of `DecisionLog` | two processes, four decisions (each retried at will) | 1,195 |
| `daily_allocation` | pass | no decision in the ledger without its record; completed reports are true; nothing appended twice | two processes of any of the three kinds, two decisions | 487,584 |
| `daily_run_unseen` | violation | a daily run ends with an exception and leaves no report | as above | - |
| `observation` | pass | refinement of `VintageLog`; a refresh without conflicts has stored its values; a revision never reaches back before its own day | two processes, two series, two days, three values; `FewRows`: at most two rows | 285,136 |
| `observation_reverted` | violation | a value that comes back within a day is dropped as duplicate | one process | - |
| `mainline` | pass | calls keep to their shares of the budget; no candidate dropped; failed stages end the run; the status says what ran; each step brings the run nearer to its end; it ends with a record | up to three candidates; none or two items of an earlier run; limits 1 and 3; budgets of 4 and 11 seconds; `MaxWork` = 3 | 2,161,584 |
| `migration` | pass | what a cutover publishes is what the application sees, but for bars written since the validation began; one run can roll back; cleanup is final; refinement of `PublishedBars` | two keys, batches of one, two bars for each (of different columns, of different payloads), rights of their own, two runs, two copies | 1,320,232 |
| `company_build` | pass | records attest what is durable; resumes skip what is built, counted by a dry run or listed by a request; statuses are true; a 200 loses nothing | two issuers, batches of one, one layer of each kind, all of them asked for, no event for one issuer; requests that list no issuer or the other in both lists; one run id (a retry replaces its record) | 1,714,636 |
| `workflow` | pass | nothing runs before its upstream; succeeded means done, with lineage durable | three tasks, the second needs the first, the third both, two runs, one key; `OneExecuted`: one of them executed | 267,120 |

The type invariants, `RequestsAreShort` (no request takes more than 13 steps of its own)
and `InvalidIsLeftAlone` (nothing is written to a ledger that does not validate) are
theorems for all values of the constants and are not repeated by the runs.

The bounds are small because the interesting differences are. *Store*: a key in or
out of the scope of a commit, in or out of the typed table, equal or not to its
cached hash; a stale cache entry needs a failed commit and one after it; one audit
event that is stored late and one after it. *Dispatch*: an overlap needs two
threads, and a third can only queue behind them. *Daily allocation*: two processes
are one that is ahead and one that comes to the same decision or another; a killed
run and its retry are one process twice. *Observation*: a conflict needs
two refreshes of one vintage, an as-of question two days; the reverted value, which
needs three writes, has a run of its own. *Mainline*: one budget is too short for
any call, one is enough for all; with three candidates a call has one before and
one after it and the limit can cut between; an overrun of `MaxWork` exceeds every
allowance; two items of an earlier run are as many as one. *Migration*: two keys are
one before and one behind the cursor, two runs are one that is in progress and one that
disturbs it, two copies one that straggles and one that goes on; a bar whose columns
change and one whose payload does are told apart by different selects. *Company build*:
of two issuers one is done when the other fails; an event that is missing for one issuer
gives a layer without a second commit; one run id makes every later run a replacement
and lets resumes build on records of every kind. Requests that leave layers out are not
in the run, which they would make too long; the theorems are about any options. *Workflow*: the third task has an upstream that may be
skipped and one that may fail; the second run is registered or retried beside the
executed one.

`FewRows` and `OneExecuted` are state constraints; `MaxAudit` and `MaxWork` are
guards and are named in the modules; everything else ends by itself (a run is
stored once in the ledger, a mainline run has four stages). The cfg files of
`mainline` and `migration` switch the deadlock check off, because a recorded run
has nothing more to do and a finished migration may only be read.
Symmetry is used for payloads, processes, runs and the like, in runs
without liveness properties only.

**Fairness.** `FairSpec` of `DispatchThreads`: weak fairness of each request's own
steps. A thread that can go on does, because it is a thread of the operating
system; statements and transactions end, because the connection fails otherwise
(`Fail` is one of the steps); and the allocation application answers. Nothing is
assumed of ordinary handlers: a daily mainline may run for minutes or hang. Weak
fairness does not promise a waiting thread the dispatch lock, and the property does
not need it. `FairSpec` of `DailyMainline`: weak fairness of the run as one thread.
Each of its waits has a timeout, so each step ends; `StageRaises` is excluded from
the fair part because a stage never has to raise.

## What the violations say

1. `dispatch_lost_write` (`store.py:787`, `api.py:385`): a code bug. A refused
   request to `/api/dynamic-allocation` commits its audit event under the allocation
   lock while another thread commits under the dispatch lock. Whichever finishes
   first clears the dirty set the other reads a second time; a commit scoped to one
   collection then deletes the rows of all others.
2. `observation_reverted` (`data/repository.py:85,106`): a change back to an earlier
   value of the same day is not appended, and the queries keep the value between.
3. `daily_run_unseen` (`dynamic_allocation_daily_run.py:237`): only a `RuntimeError`
   becomes a failure report. A ledger that does not validate, or a decision that
   another process saved meanwhile, leaves the day without one, although the
   documentation says that missing runs are visible.

Five more statements of the documentation are definitions at the end of their modules
that no run lists. Add one to the cfg named here as an INVARIANT to see it violated.

- `RetryIsNoOp` (`MCPaperLedger.cfg`; `paper/repository.py:35,50`): the class promises
  that identical runs are no-ops, but nothing repairs a line that was torn by a kill or
  a full disk, so every later call raises. `InvalidIsLeftAlone` and `PromisedOnDisk` say
  the other half: nothing is lost and the file can be repaired by hand.
- `SavingIsIdempotent` (`MCDailyAllocation.cfg`; `application.py:237`,
  `docs/api-contracts.md:45`): a record carries the moment it was made, so two records
  of one decision differ, and the second of two processes that found none raises.
- `PersistedAsReported` (`MCDailyAllocation.cfg`; `paper/repository.py:57`,
  `dynamic_allocation_daily_run.py:162`): a duplicate is answered from a line that its
  writer, killed before its fsync, may not have made durable; the report of the run
  that asked says persisted, and a power loss takes the line. `CompletedIsRecorded` says
  what is true: `appended` means durable, a duplicate is there while the power stays.
- `CallFailureNotPassed` (`MCDailyMainline.cfg`; `services.py:1183`): a model call that
  succeeds without a usable text gives its candidate the reason `llm_call_failed`, but
  leaves no code with the stage; `.kiro/specs/project-usability-improvement/design.md:481`
  says such a run is partial, the code records it as passed.
- `ListedByRuns` (`MCCompanyBuild.cfg`; `services.py:22557-22568`):
  `docs/data-structure-design.md:1121` says that `completed_issuer_ids` are the issuers
  the source run or this run completed. A request may send both lists itself
  (`api.py:1757` passes its body on) and they are recorded without a comparison with
  what is built (`services.py:22732`, `22765`); a later resume skips these issuers.

Met while modelling, without a property of their own: a dry run that is recorded lists
its issuers as completed, so a later executing resume skips them although nothing
was built (`CompletedIsBuilt` names the exception); a bar written after `validate` began,
between its selects or later, is missing from the table that the cutover publishes,
and only a roll-back brings it back (`ValidatedIsCurrent` and `PublishedBars` name the
exception, and the runbook avoids it by stopping the application); a mainline run that
is given the id of an earlier one and finds no candidates is "passed" and not "empty" on
account of the earlier items (`StatusTellsWhatRan` names it too); a caller who chooses the id of
an earlier company build replaces its record (`services.py:22950`);
`retry_workflow_run` registers a run whose tasks are all "succeeded" and executes
none (`services.py:2732`); bars written after a cutover are discarded by a
roll-back, which restores the legacy table as it was (`PublishedBars` says exactly
this).

## Proofs

Everything below holds for all values of the constants under the named
assumptions of the modules (which TLC evaluates on every run). They say that the
stand-ins for nothing (`None`, `Absent`, `Failed`, `NoBar`, `NoRun`...) are none of the
things they stand beside, that numbers of the configuration are naturals, and that a
dependency graph has an order; `NoBarsAssumption` of `DispatchThreads` adds that its
store keeps no typed bars, which are left to `RecordStore`.

`RecordStoreProofs`. The inductive invariant is `TypeOK`, `CacheMatchesRows`
(the cache is exact), `BarsHaveRecords` (without the typed table a market-data
row has its record in memory: commits never delete rows of that collection),
`TelemetryNotAhead` and `Settled` (a key nobody touched is the same in memory,
rows and promise). `CacheMatchesRows` alone is not enough for durability: that a
scoped commit leaves untouched keys alone needs `Settled`, and that a full
commit may delete what it did not see needs the cache to be exact, otherwise it
would delete or keep the wrong rows. Lemmas say what a commit of any scope does
to one key; each action is then a few lines. `AuditedRecordDurable` is not a matter
of one commit: an event may wait through failed commits, and a commit of another
scope may then take it to the trail. `Waiting` is what carries it: each event beyond
the durable trail has the collection its type names in the dirty set. The theorems also cover a database
without the typed bar table, which the run does not.

`DispatchThreadsProofs`. The invariant is conditional like the properties: while no
allocation request was refused, the dispatch lock is held from the handler to the
answer (`Holds`), a request in its commit knows the rows it began with and that the
cache is ahead of them by exactly what it writes (`InStep`, `Ahead`), and outside
commits memory, cache, rows and promise agree on untouched keys (`Settled`).
Mutual exclusion comes first; the rest is then an argument about one thread. A crash
keeps the invariant because the uncommitted writes are all that rows and promise can
differ by. `ThreadsKeepContract` is the refinement of `AcknowledgedStore` as long as
no request was refused: the promise is made in `Clear`, and what it is made of has
been in the rows since `CommitTransaction`, so every other step is a step of the
service or a stutter. `RequestsEnd` needs no such condition: `Remaining` counts the
steps a request has left, falls with each of its own and rises with nobody's.

`PaperLedgerProofs`. The invariant says that only the lock's holder is past
`idle` (`Exclusive`), what it found when it validated still holds (`Validated`,
`Written`), the disk is a first part of the file (`Begins`), and every record up
to which all lines are whole is chained (`Chained`). The last is the
strengthening: validity of the whole file is not kept by a torn write, chaining
of each whole first part is, and it gives validity back when all lines are whole.
`HashesTellHistory` is not limited to files that validate: a record's hash covers
exactly the decisions of the records up to it even where its line is glued to a torn
one, because nothing is written to a file that did not validate. For
`LedgerIsLog` each step is mapped: the write appends one decision, the fsync makes the
log stable and is answered, a power loss cuts the log at or behind its stable part.

The second half of that module is about `DailyAllocation`. Each of its steps is a step
of `PaperLedger` or leaves the ledger alone (`DailyStepIsLedgerStep`, `DailyIsLedger`),
so everything proved of the ledger holds in the composed system without being proved
again. `RunInv` adds what the processes know: who is between lock and answer holds the
decision the ledger's step is about, and that decision has its record or was handed
over (`Working`); a report, written or not, says what the stores have (`Truthful`),
and what it relies on only grows until the power goes (`Grows`). `CompletedReportsAreTrue` and `AppendedOnce` follow from it together with
the ledger's invariant: a decision found in the file is there until the power goes,
and one that is being synced was not in the file when it was looked for.

`ObservationStoreProofs`. What a process sees is the table with its own uncommitted
rows (`View`). The invariant is that the table and every view number the revisions
of a vintage without gaps and without equal values (`Table`), and that a candidate
row follows the last revision of its vintage unless another process got there
first, which the constraint catches (`JobOK`). From it follow the answers' durability,
the stability of as-of queries, and the refinement of `VintageLog`, whose state is a
function of the table.

`DailyMainlineProofs`. `Place` says where the run is by the number of its records,
`Records` and `Final` what the records say. The time argument is `Left` and
`Windows`: while other work keeps to its allowance, what remains of the budget is
at least the queue's reserve, one context for every candidate to come and what is
left of the current one; and what exceeds that is at least the last share for each
call still pending. A call of at most a fair share keeps the second inequality, and
a division rounded down is all that is used of arithmetic. `RunEnds` is the part of
termination that is a safety property: `StepsToGo` falls with every step and is never
negative (`Position` gives the bounds), so a run that goes on ends, after at most
2 * `CandidateLimit` + 9 steps, whatever its market, candidates and model do.

`BarsMigrationProofs`. `Validating` says what the selects so far have found of the bars
not written since the validation began: the key on both sides, equal columns, equal
payloads. It carries over to `Current`, which is `ValidatedIsCurrent` with the shadow
present, when the verdict is recorded; `Alone` says that no other run is validated,
`Tables` how the schema, the legacy table and the phases belong together. A straggling
copy inserts source rows into the shadow and so can only make the two more alike,
whichever select comes next: that is why neither the comparison nor its verdict is
undone by whatever still finishes.

`CompanyBuildProofs`. `Records` states of each run record, in memory and stored, what
it attests; `Underway` the same of the build in progress, whose batches so far are
durable and whose skipped issuers are built, planned or claimed; `BatchSoFar` that the
layers of the current batch that are done are durable, that the issuers of the current
layer that are done are in memory, and that once the profiles are done (whose commit
writes every layer) whatever is in memory only was found by the layer in progress. The
last part is needed for a layer that found nothing new and so has no second commit:
what there was of it must then be in the database already. The rows only grow, which carries `Records` along.

`WorkflowExecutionProofs`. `AllSound` is the two properties with their strengthening
(snapshots are only used for tasks that are not selected), `Log` says that stored
lineage is in memory, `Active` that the tasks not yet reached are queued and those
behind have ended, so a task that is marked later never invalidates one that ran.

Only model-checked: the liveness properties `AllocationAnswered` and `RunIsRecorded`
(the prover has no ENABLED). Their safety halves, `RequestsAreShort` and `RunIsShort`,
are proved: what TLC adds is that under the fairness above some step is always
possible. The properties of the three violation runs are false. No module uses
RECURSIVE operators.

## Not modelled, and why

- What handlers compute: formulas of factors, models, risk and back-tests (floating
  point), graph inference, report structuring, text of viewpoints, contents of audit
  events. They are the bulk of the repository's lines; between two commits they
  change nothing but the records they return.
- Single handlers of `services.py` one by one: to the store they are `Put`, `Pop`,
  `Audit`, `Raise` and `Return` of `RecordStore` in some order.
- `SQLiteStore.commit` (one transaction that deletes and inserts everything);
  `PostgresObservationRepository` (strict writer only, no revisions); observations
  posted with revision numbers of the caller's choice; the directory entry of a new
  ledger.
- A COMMIT whose outcome is unknown, and two processes with stores of their own on
  one database: the code makes no promise for either, and the models' invariants
  fail at once if they are added.
- Of the allocation runs: what the gate and the evaluation compute; the comparison with
  the previous decision in a report; report files after a power loss (the code does
  not sync them and `reported` is history, not a store); back-test records; the
  operations report and the scheduler's pages, which only read. Schedules, definitions and reports of workflows; the
  clone scripts (SQL over a second database); the transport of the LLM gateway and its
  abandoned threads; connectors, parsers, search, object store, backups, data classes,
  user interface.
