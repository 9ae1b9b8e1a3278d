# TLA+ models of Plenum CAFM

Specifications, model-checking configurations and machine-checked proofs for the
services under `src/apps/backend/cafm-connector-service-final/` (called `CSF/`
below). They cover the parts in which requests, background tasks, queues and human
decisions share state without locks: two checkpointed LangGraph pipelines, a review
queue, bulk ingestion, work-order approval, preventive maintenance and import jobs.

    tlc -workers 2 -config MC_serial.cfg MC_Migration.tla     # section 3 pairs them
    tlapm MigrationPipeline_proofs.tla                        # any *_proofs.tla

## 1. Inventory

| Component | State | Operations | Interacts with | What is hard | Module |
|---|---|---|---|---|---|
| Migration API (`svc-ai-schema-mapper/src/app.py`) | `migration_jobs` row | start, four gate endpoints, advance, rerun-from, retry-ddl, cancel | starts asyncio tasks that drive the graph, or enqueues ARQ tasks | guards read the row, tasks act later; no locks | `MigrationPipeline` |
| Migration graph (`graph/migration_graph.py`, `graph/nodes/*.py`) | LangGraph checkpoint per thread | ten nodes, four of them gates that `interrupt()`; `interrupt_after` every step node | writes the row through `db_writer.py`, the target database, svc-ingestion | nodes are re-executed from their first line when a gate is answered; row and checkpoint are written separately | `MigrationPipeline` |
| Row writers (`graph/nodes/db_writer.py`) | the same row | progress, gate payload, clear, step pause, error | called by nodes | database errors are logged and swallowed | `MigrationPipeline` |
| Migration worker (`worker.py`) | ARQ queue | `resume_migration` | the row, the graph | its own status guard | `MigrationPipeline` |
| Schema-mapping API and graph (`app.py`, `graph/schema_mapping_graph.py`, `graph/nodes/schema_*.py`) | `schema_mapping_jobs` row, a checkpoint | start, advance, kick, resume, cancel, retry; twelve nodes, four gates | as the migration; copies the canonical tables | columns pass through two matching tiers and two reviews, and each list they are put on must reach the next | `SchemaMapping` |
| Review queue (`svc-ingestion/src/review_queue/queue.py`) | redis sorted set, item hashes, locks with TTL, `review_queue` table | enqueue, acquire next, submit decision | two reviewers | lock expiry between check and commit; crash between commit and clean-up | `ReviewQueue` |
| Bulk ingest batches (`svc-deepagents/src/workers/ingest_batch_worker.py`, batch routes) | batch row, cancelled set, session workspace, uploaded files | create, run with a semaphore, cancel | svc-ingestion, the session | every file task reads the row and writes it back | `IngestBatch` |
| Approval chain (`svc-work-order-management/src/services/approval_workflow.py`, `approval_processor.py`) | `approval_requests` | create chain, respond, unblock next, poll the mailbox | API, two pollers of one mailbox | two replies to one request, a reply before its step is unblocked | `ApprovalChain` |
| Work-order lifecycle (`api/routes/work_orders.py`) | `work_orders.status`, journey | status updates by several routes | approval chain | read-check-write without lock | `ApprovalChain` |
| Import jobs (`cafm-connector-service/.../jobs/worker.py`) | `import_jobs`, `import_errors`, target rows | run in batches, roll back, cancel | connectors, redis, target tables | crash while RUNNING, recovery that itself fails, a cancel nobody reads | `ImportJob` |
| Fiix ingestion graph | none between requests | fetch, preprocess, write | Fiix API, PostgreSQL | none beyond I/O | – |
| Ingestion agents, batch processor | batch rows | classify, extract, vote, route | LLMs, SQL | voting thresholds | – |
| PPM scheduler (`services/ppm_work_order_scheduler.py`) | schedules | create the work orders that are due | lifecycle | the same schedule twice, a run that stops half-way | `PPMScheduler` |
| Connector plugins, CRUD API, storage, secrets | per-resource rows | CRUD | databases | none beyond I/O | – |
| Deep agents, single-door flow, query, document RAG, UDR, shared library, frontends | sessions, caches | HTTP orchestration | the services above | not protocol-bearing | – |

What makes each part correct, and where it is stated:

* **Migration.** Nothing reaches the customer's database without an accepted Gate 3
  confirmation, and one confirmation buys one hand-over (`ConfirmationSpentOnce`,
  `HandoverAsConfirmed`); "complete" is never shown for records that were not handed
  over (`CompleteMeansApplied`), and they are not handed over before the custom
  columns they may fill exist (`ColumnsBeforeRecords`); the row, which is all the user
  sees, agrees with the checkpoint, which is what a request acts on
  (`RestingAgreement`, `RecoverableRest`, theorem `PendingKeyAlwaysFits`); a decision is
  consumed by the gate it was given for (`DecisionMeetsItsGate`); an ended migration
  stays ended (`EndedStays`) and is not handed over again (`HandedOverOnce`); a running
  migration ends up where the user can act on it (`RunningIsAttended`,
  `LostThreadIsReported`).
* **Schema mapping.** Of the lists the external columns are moved through, only a user's
  answer takes a field name out (`OnlyAnswersDiscard`; single columns are lost, see the
  disagreements in section 3), a column the user asked to create is in the DDL plan when
  the schema is written (`NewColumnsKept`), the schema is written as reviewed
  (`WrittenAsReviewed`) and once (`CopiedOnce`), row and checkpoint agree
  (`RestingAgreement`), work ends up in view (`WorkIsShown`).
* **Review queue.** An enqueued item is queued until decided (`NothingForgotten`), one
  reviewer decides it (`DecidedByOne`), one row records it (`OneRowPerDocument`), and a
  decided item leaves the queue (`DecisionLeavesQueue`).
* **Bulk ingest.** The counts are those of the items (`CountsMatchItems`), files stay on
  disk while a task may read them (`FilesOutliveTheirTasks`), cancelling stops further
  files (`NothingStartsAfterCancel`), a batch reaches an end (`BatchSettles`).
* **Approval.** A final approval stands for every step (`FinalMeansAll`) and is announced
  once (`AnnouncedOnce`); a rejection closes the order (`RejectionCloses`); a reply
  answers one step (`MailSpentOnce`) and is answered (`RepliesAreAnswered`); statuses
  follow the transition table (`LegalTransitions`).
* **Imports.** A rolled-back job leaves no rows (`RolledBackLeavesNothing`), a completed
  one is whole (`CompletedIsWhole`), every job ends (`JobEnds`).
* **Preventive maintenance.** A plan that stays due gets its order (`DueIsServed`); that
  it gets another with every run is said in section 3.

Many of these hold only without a particular fault. The exception is then a named
conjunct of the property (a lapsed lock, an overlapping commit, a lost update), so that
the property says both what is guaranteed and what destroys the guarantee.
`PROJECT.json` lists the hazards at their lines. A hazard names a property there only when
the property would catch it; where the code has nothing against it, and the property
exempts it for that reason, the hazard has a note instead.

## 2. Modules

### MigrationPipeline

One migration.

| Variable | Code |
|---|---|
| `job` | the `migration_jobs` row: `status`, `pending_gate_type` (`models/migration.py`) |
| `ckpt` | the latest checkpoint of the thread: the node about to run and its state |
| `hist` | for the rerun targets, the state of the latest checkpoint about to run that node (`_find_target_config` in `app.py`) |
| `run[s]` | one handler or task under way: where it stands, why it was started, its node, its copy of the graph state, the decision it carries |
| `confirms`, `applies` | history: Gate 3 confirmations accepted, hand-overs made on each |
| `ddl`, `rows` | effects on the database: DDL committed, field mappings inserted |
| `overlaps`, `crashes`, `lost` | counters for the bounds |

A task moves through the phases of `run[s].pc`. Each phase ends at an `await` that
matters: between reading the row and writing it (`checked`), before the checkpoint
is read (`load`), before a node runs (`node`), between the two row updates of a step
node (`progressed`), around the three parts of a gate (`ask`, `asked`, `answered`),
between the hand-over and the row update (`applied`), and between the return of a
node and its checkpoint (`done`). Actions of different slots interleave at these
points, as coroutines of one event loop or of two processes do.

The graph state is abstracted to what the control reads: which artifacts exist,
whether `error_message` is set, whether the next gate has something to review,
whether fields are left for the next mapping stage, whether the confirmed
hierarchies contain a cycle, whether custom columns were asked for, whether the
state says complete. What a node computes is a choice among these outcomes; its
guards and the order of its effects are kept. A decision is the gate it was posted
for and whether its body holds a confirmation. The documented bodies of the first three
gates hold none, but `write_node` looks at the body alone, so the body of any gate may
hold one here, and one that reaches `write_node` hands over.

| Actions | Code |
|---|---|
| `StartMigration`, `StartMigrationWithUpload` | the three start endpoints (`-multi` is the same as the single upload) |
| `SubmitDecision` | `_enqueue_migration_resume`, shared by the four gate endpoints |
| `AdvanceCheck/Commit`, `RerunCheck/Commit`, `CancelCheck/Commit`, `RetryMigrationDdl` | the control endpoints, cut between read and write |
| `WorkerResume`, `WorkerRefuse` | `resume_migration` |
| `BeginRun`, `LoadCheckpoint`, `CommitCheckpoint`, `FinishRun`, `FailRun` | `ainvoke` and what its callers do with the result |
| `StepProgress`, `StepPause`, `StepFail` | the six step nodes |
| `GateSkip` ... `HierarchyUnresolved` | the first three gates |
| `WriteDdl` ... `WriteComplete` | `write_node`, which is both Gate 3 and the hand-over |
| `Crash` | the process dies; queued requests and PostgreSQL survive |

LangGraph itself is not in the repository and is modelled from its use
(`Checkpoint` and `LoadCheckpoint` are external): one checkpoint after each node,
`interrupt()` aborts the node and leaves the checkpoint alone, a resume re-executes
the node with the decision, and a decision is visible to the first node only. What
is not modelled of it: the pending write in which it keeps a resume value, so a
crash after a decision was loaded loses the decision.

`ConfirmedHandover` is the abstract specification: grants, at most one hand-over for
each, and `shown` only after one. `MigrationPipeline` implements it under
`granted <- confirms`, `handed <- applies`, `shown <- (job.status = "complete")`.

### SchemaMapping

One schema-mapping job, built on the same cut into `run[s].pc` phases, with the
twelve nodes of the second graph. The difference is the data: the graph state holds,
as sets of columns, the lists of `SchemaMappingState` (`t1`, `shown`, `open`, `auto`,
`flagged`, `unmappable`, `extra`), so that what becomes of each column is checked; and
what the users asked for (`asked`, `rejected`, `hierarchy`, `reviewed`) or lost by an
answer that neither places nor rejects a tier-1 column (`unplaced`: `keep_mapping`,
incomplete answers). A column is a field of a table, and
`FirstNamed` says which columns share a name. Names matter in two places: a column the
first gate sends back is a stub without its table (`sent`), which `Preprocess` files under
the first table that has the name; and `Semantic` keys the columns by a text made of
name, description and type, so that of columns of one name any but one may vanish
(`Keepable`). Lists that nothing reads any more are cleared. `copies` counts
how often the canonical tables were copied into the new schema. The checkpointer is
PostgreSQL; a lost row update is one of the faults that `MaxFaults` bounds together with
failing nodes and crashes. The module is separate from `MigrationPipeline` because the
two share no code: gates, statuses, error handling and the step keys differ.

### ReviewQueue

`queue`, `score`, `hash`, `lock` are the redis keys, `table` the `review_queue` rows,
`req[s]` a request with its place among the redis commands and transactions of
`enqueue` (`EnqueueStore`, `EnqueueRank`), `acquire_next` (`AcquireList`, `TryLock`,
`NothingToReview`, `ReadItem`, `DropItem`, `UnlockDropped`, `MarkLocked`) and
`submit_decision` (`SubmitCheck`, `SubmitFetch`, `SelectRow`, `CommitDecision`,
`RemoveItem`, `ReleaseLock`, `DeleteItem`, `DatabaseError`). `LockExpires` and
`DataExpires` are redis's TTLs, which may fire between any two commands. `enqueued`,
`decided` and `expired` are history.

### IngestBatch

`row` is the batch row with the state of every file, `worker` the batch task,
`task[f]` the coroutine of one file and `snap[f]` the row as it selected it: a file task
writes back what it read, so two that overlap lose an update (`clashes`). `flag` is
`_cancelled_batches`, `pending` and `ingested` the session workspace. `CommitReport`
always counts a file as failed, as the code does (section 3, `ingest_success`).

### ApprovalChain

One work order: `status` and `journey`, the chain `rows` and `unblocked`, and for every
client the request it is serving in `call[c]`, with what it has read. The clients are API
callers and the two pollers, the background loop and the `/poll` route, which share
`mail`. `StatusCheck`/`StatusCommit` are the status routes, `AskApproval`/`InsertRows` the
creation of the chain, `Respond` and `ReadReply` the two ways to reach
`handle_approval_response` (`SelectRequest`, `SelectOrder`, `Reject`, `ApproveStep`,
`ApproveLast`), `SortMail` what a poller does with a mail afterwards. The mailbox is
external. `overlaps`, `skips` and `crowded` record that a commit relied on a row that had
changed, that a step was approved which was not unblocked, and that mails did not fit in
one fetch.

### ImportJob

Per job the row, the rows it has inserted (`table`), its error rows and the local
variables of `run_import_job` (`task`). Jobs meet in the unique key of the target table:
`WriteClash` is the insertion that raises on it. `Undo` and `Mark` are the `except`
branch, each of which may fail (`UndoFails`, `MarkFails`). `lost`
and `kept` record a task that ended without writing an end, and rows that could not be
deleted.

### PPMScheduler

`due` is the `next_due_date` of each maintenance plan, `run[r]` the plans that the hourly
loop or a `POST /api/ppm/run` has still to serve, `ordered` the plans with an order
of today. `GetDuePPMSchedules` reads the plans at once,
`CreatePPMWorkOrder` commits one order, `SendPPMApprovalNotification` sends its mail;
`Raise` is a call that fails and ends the run, with what was committed left in place. The
query has no order, so the plans are served in any. `EditPlan` is connector-service.

The `MC_*` modules define the functions a `.cfg` cannot and the symmetry of slots. The
operators with a `fault:` comment are faulty variants of the definition below them, not
used by the specification; each property is checked to fail when one of them takes its
place. The `*_proofs` modules hold the theorems.

## 3. Runs

`CHECK_DEADLOCK FALSE` is given where the component really stops: a migration, schema
mapping, batch, order or import that has ended has nothing left to do. `review` checks
deadlock: reviewers can always ask again.

| Run | Module, cfg | Instance | Shows |
|---|---|---|---|
| `serial` | `MC_Migration`, `MC_serial` | 1 slot, reruns from `ingest_node` and `preprocess_node`, 2 confirmations, 1 crash, `MemorySaver`, ARQ configured, fairness | `TypeOK`, `RestingAgreement`, `DecisionMeetsItsGate`, `EndedStays`, `RunningIsAttended`, `LostThreadIsReported` |
| `overlap` | `MC_Migration`, `MC_overlap` | 2 slots (symmetric), 1 overlap, 1 crash, 2 confirmations, ARQ configured | `ConfirmationSpentOnce`, `CompleteMeansApplied`, `ColumnsBeforeRecords`, `HandoverAsConfirmed` |
| `faults` | `MC_Migration`, `MC_faults` | 1 slot, 2 crashes, 3 lost row updates, 2 confirmations, durable checkpoints | `RecoverableRest`, `HandedOverOnce` |
| `schema` | `MC_Schema`, `MC_schema` | 1 slot, 2 columns of one name in different tables, 2 faults, fairness | `TypeOK`, `OnlyAnswersDiscard`, `NewColumnsKept`, `WrittenAsReviewed`, `CopiedOnce`, `RestingAgreement`, `WorkIsShown` |
| `review` | `MC_Review`, `MC_review` | 2 slots, 2 reviewers, 2 items of one ingestion, 1 overlap, 1 expiry, 1 crash, fairness | `TypeOK`, `NothingForgotten`, `DecidedByOne`, `OneRowPerDocument`, `DecisionLeavesQueue` |
| `ingest` | `MC_Ingest`, `MC_ingest` | 3 files, 2 at a time, 1 database error, 1 crash, fairness | `TypeOK`, `CountsMatchItems`, `FilesOutliveTheirTasks`, `NothingStartsAfterCancel`, `BatchSettles` |
| `approval` | `MC_Approval`, `MC_approval` | chains {1,2} and {2}, 1 API caller and both pollers, 2 mails, 1 fetched at a time, 2 calls, 1 failure, fairness | `TypeOK`, `FinalMeansAll`, `AnnouncedOnce`, `RejectionCloses`, `MailSpentOnce`, `LegalTransitions`, `RepliesAreAnswered` |
| `import` | `MC_Import`, `MC_import` | 2 jobs with a key in common, 2 rows each, batches of 1, 1 cancel, 2 failures, 1 restart, fairness | `RolledBackLeavesNothing`, `CompletedIsWhole`, `JobEnds` |
| `ppm` | `MC_PPM`, `MC_ppm` | 2 plans, the loop and 1 request, 2 days, 2 failures, fairness | `DueIsServed` |

Bounds.

* Migration: two confirmations are the least at which a second hand-over is possible,
  two slots the least at which two tasks share a thread; one overlap lets a second
  request arrive at every point of every task, and each request is made again without
  overlap as often as the state allows. Two crashes allow one during recovery from
  another. Three lost updates cover those of a whole gate (progress, payload, clear).
  `serial` has no overlap because its properties are false with one; the hazards in
  `PROJECT.json` say how. Its crash loses the checkpoint, the worse of the two cases; with
  durable checkpoints crashes are the subject of `faults`.
* Schema mapping: two columns can be on different lists, which one cannot, and two of one
  name are the least that can collapse into one; columns whose names differ never do, and
  the theorem `NamesKept` covers every sharing of names. Two faults
  allow a node that fails and a crash, or a lost update and either.
* Review queue: two items of one ingestion are what makes two rows possible; two
  reviewers and one expiry are what makes two deciders possible.
* Bulk ingest: with three files and two places, one task waits while two overlap.
* Approval: a chain of two has a first and a last step, and {2} is a chain with a gap;
  two mails and a fetch of one crowd the page; a caller and two pollers are three
  concurrent readers of one request.
* Imports: batches of one row put a boundary between any two rows; two failures allow
  the recovery from one to fail.
* PPM: with two plans a failing notification can leave one unserved; two failures repeat
  it. `DueIsServed` needs the bound: a mail server that fails for ever can fail each run at
  its first plan.

Counters other than these do not grow: the state spaces are otherwise unbounded only in
the number of requests, which loop.

Fairness. `FairSpec` gives weak fairness to the next step of a task that has begun
(`Proceed(s)`, `Serve(s)`, `Serve(Loop)`, `Main`, `Work(j)`, `CancelRead \/ CancelWrite`): asyncio and
ARQ keep scheduling a coroutine that can run, and every awaited call returns or raises.
`IngestBatch` has strong fairness for `Work(f)`, since a file task waiting for the
semaphore is enabled only now and then and `asyncio.Semaphore` serves its waiters in
order. The background poller of `ApprovalChain` is weakly fair because it is an infinite
loop; the `/poll` route is called by someone or not. Users owe nothing: no request,
response, cancel or mail is fair, nor is any crash, expiry or failure.

Three runs expect a violation. Each checks one sentence the repository says of itself:

| Run | The code says | The run shows |
|---|---|---|
| `mappings` (`MC_Migration`) | `write_node.py:324-326`: mappings are written once, after everything is confirmed | they are inserted before Gate 3 is shown, and again when it is answered |
| `ingest_success` (`MC_Ingest`) | `system_prompt.py:678`: a batch with a successful file satisfies ingestion | each success raises in `ingest_batch_worker.py:62` and is counted as a failure |
| `schema_gate` (`MC_Schema`) | `schema_verify_hierarchy_node.py:32-33`: the gate pauses until the user decides | `except Exception` catches the interrupt and the pipeline goes on |

### Disagreements met without a run of their own

Migration: unresolved cycles are said to re-interrupt (`verify_hierarchy_node.py:429-432`)
but the output generator runs with them; retry-ddl (`app.py:2309`) is refused by the
worker task it starts (`worker.py:338`); the queued task never reaches the graph, since
the factory is not awaited (`worker.py:351`, said otherwise at `13-17`); cancel
(`app.py:2693`) stops no task under way (`app.py:2712`); the API says that approving
Gate 3 triggers the DDL (`app.py:1968-1970`), which is committed before the gate is shown;
`ddl_failed`, which `write_error` documents as the state for retry
(`db_writer.py:190-192`), is overwritten with `failed`; the JSON start (`app.py:699-700`)
says it dispatches a task and enqueues nothing.

Schema mapping: after two failures an advance can answer the artifacts gate with an empty
resume value; the start, kick and gate tasks do not look at the error a node returned,
which stays in the state and turns a later healthy advance into `error`; the answer
`keep_mapping`, "explicit no-op" in a comment (`schema_human_review_node.py:487`) and
"keep the existing canonical mapping" in the payload (`294`), takes the column out of the
tier-1 mappings (`492-496`) and so out of the schema; so do an accept or override without
a target and a custom column that is not fully described. Of columns with equal name,
description and type one is matched and the others vanish from every list
(`schema_semantic_node.py:57-68`, `94`); stubs that the pre-semantic gate sends back have
lost their table (`schema_pre_semantic_node.py:388-418`) and are all filed under the first
that has the name (`schema_preprocess_node.py:140-144`). `OnlyAnswersDiscard` says what is
left: the name survives unless an answer took it out. The documented answer format of the
pre-semantic gate is read as "approve everything"; flagged tier-2 columns are not shown at
the artifacts gate; retry-ddl is always refused by `resume_schema_mapping`; a cancel is
overwritten by the task under way; a crash after the copy makes the node copy again.

Review queue: expiry of the seven-day data and `MarkLocked` recreate a hash without a TTL;
releasing a lock deletes whoever's lock is there; two rows for one ingestion make
`scalar_one_or_none` raise for every later decision. Bulk ingest: starting the run
overwrites an earlier cancellation; a raised task makes the worker forget the cancel flag
and remove files under tasks that still run; a cancelled batch never leaves the session's
pending list. Approval: the API reply ignores `unblocked_at`; request-approval is accepted
in any status; `WO-\d+` (`approval_processor.py:33`) never matches the `WO-PPM-` numbers;
`/poll` leaves the mail of a non-final approval unread. Imports: a cancel is never read by
the task and RUNNING is committed whatever the status; a failing last announcement deletes
every row of a completed job; an exception before the `try` leaves RUNNING for ever. PPM: a daily
plan is said to be due a day after its last execution
(`docs/WORK_ORDER_MODULE_COMPLETE.md:918`, `953-954`), but no execution is recorded and
`next_due_date` stays, so the hourly run orders it again
(`ppm_work_order_scheduler.py:66-78`).

## 4. Proofs

Every theorem holds for all values of the constants that satisfy the named assumptions
of its module, any number of slots, files, steps, reviewers, jobs or columns and any
bound. Each rests on an inductive invariant whose parts are named:

* `MigrationPipeline_proofs`. `TypesHold`: `TypeOK` alone is not inductive, because
  `StepPause` stores the name of the node the run is at; `PhaseOK` says that this is a
  step node. `PendingKeyAlwaysFits` from `RowSteps`, the list of everything a
  step can make of the row. `SpentOnce` and `CompleteWasApplied` from `HandoverInv`,
  which adds `CarriedOK`: a run that has not handed over carries a confirmation not yet
  spent, no two runs carry the same one, and a run between hand-over and row update has
  spent its own. Most steps are `Quiet` for it; only `SubmitDecision` and `WriteApply`
  need an argument of their own. `ColumnsFirst` from `ColumnsInv`, by which a run past
  the DDL phase stays at `write_node` with its state unchanged until it has handed over.
  `ImplementsHandover`: every step is a step of `ConfirmedHandover` or a stutter, given
  `HandoverInv` before and after it. `HandedOnce`, assuming no rerun targets: in a
  behaviour without crash and overlap at most one run is under way, and once it has handed
  over either it is past the hand-over or the checkpoint is at the end (`Single`); no run
  is a rerun and each is at the node its phase belongs to (`Placed`). Row updates may be
  lost throughout.
* `RowAgreement_proofs`: what the migration row tells of the checkpoint while requests do
  not overlap (`SoloInv`: one run at a time, and none before the job was started).
  `EndedStaysEnded` from `EndedInv`: whoever still works on an ended migration is a rerun
  or the run that has just completed it; crashes and lost updates do not matter.
  `RowAgreesAtRest` and `DecisionsMeetTheirGates` from `RestInv`: either row and
  checkpoint fit (`Fitting`: they agree at rest, a request between its read and its
  write finds what it read, a decision is for the gate the graph stands at, a node that has
  returned has shown what it did or left an error), or a crash has taken the
  checkpoints of `MemorySaver` along and whatever is sent to the migration fails (`Gone`).
  `CrashesAreRecoverable`, assuming `Durable` and no rerun targets, from `CrashInv`: a
  task may be stopped at any phase, so each phase has to say what the row shows then
  (`Stands`), and a gate that is answered has to find again what it asked about
  (`Askable`).
* `ReviewQueue_proofs`. `Correct`, from what a request under way works on (`Working`) and
  why an item may leave the queue: it was decided, or its data expired (`Leaving`).
  `SerialReview` adds, for behaviours without overlapping requests, that one request is
  alone (`Alone`), that the row it found is the one there is (`RowFound`), that every item
  with data has a place in the order (`Placed`), and, without crash, that after a decision
  the item is being cleaned up by the one who decided it or is gone (`DecidedOnce`).
* `IngestBatch_proofs`. `Counts`, `Lifetime`, `Cancellation`. `Unreported`: a file is
  reported by its own coroutine, at its end, so neither the row nor any copy of it a task
  holds says otherwise. `Lifetimes`: coroutines live while the worker awaits them, unless
  a transaction failed. `Cancelling`: the flag outlives the coroutines.
* `ApprovalChain_proofs`. `Correct`, `FinalApproval`, `Lawful`, `SpentOnce`. `CallsValid`: a request
  past its first read works on a step of the chain, an update on a transition of the
  table. `Ordered`: while no step was skipped and no commit overlapped, only unblocked
  steps are approved, and a step was unblocked by the approval of all before it.
  `Finished`: after a final approval no unblocked step is pending.
  `Spent`, for a mail the route has not read: if it has decided a step it is sorted, or in
  the hands of the background poller, which has nothing left to do with it but to sort it.
* `ImportJob_proofs`. `Correct`, from `JobInv` for each job by itself: jobs meet only in
  the key on which a batch may raise.
* `SchemaMapping_proofs`. `NewColumns`: requested columns are kept in every copy of the
  graph state, the checkpoint's and those of running tasks (`KInv`). `SingleCopy`: without
  crash and overlap there is one run, and after the copy it is past the copy or the
  checkpoint is at the end (`SInv`). `NamesKept` rests on that and on `LInv`: a run
  works on the latest checkpoint (`Synced`), and every field name has a column in one of the
  lists in front of each node (`Whole`; `Found` is the union of the lists that count
  there, and `Carries` composes along the nodes, of `FirstNamed` only `NamesAssumption` is
  needed) unless the state carries an error and is not complete
  (`Doomed`). A doomed checkpoint is moved by an advance
  only, by one node, and the task of the advance then ends the job with an error
  (`Stopped`).
* `SchemaRow_proofs`, for behaviours with one request at a time, no crash and no lost
  update. `RowAgrees` from `RowTells`, which follows the row through the graph: on the way
  into a node it is "ingest" or "running", or shows one of the two pauses the graph does
  not make (`OnWay`); behind a node it shows the node's pause, or is unchanged and the
  node failed or had nothing to work on (`Behind`); at rest it names the step before the
  checkpoint (`Tells`, which is `RestingAgreement` and that a paused step is a step).
  `ArtifactsReviewed` from `Reviewed`: until two nodes have failed, an error or a missing
  table in front of the output has cost a node (`Costs`), so no run but an advance gets
  past the hierarchy pause, that advance stops in front of the artifacts gate, and the row
  there admits an advance or a decision for that gate (`Waits`, `Heeds`). A second failure
  breaks it: the resume value an advance carries past the hierarchy pause can then reach
  the artifacts gate.

Every safety property the runs check, invariant or action property, is a theorem; the
conditions it is true under (no overlap, no lost update, no crash) are part of the
property. Two theorems assume something of the constants: `HandedOnce` and
`CrashesAreRecoverable` that nothing is rerun, the latter also that checkpoints are
durable, as in the run `faults`. Only model-checked is all liveness, which is out of the
prover's reach: `RunningIsAttended`, `LostThreadIsReported`, `DecisionLeavesQueue`,
`BatchSettles`, `RepliesAreAnswered`, `JobEnds`, `WorkIsShown` and `DueIsServed`; so are
the three violations. Conversely `TypeOK` of `ImportJob`, `PendingKeyFits` and a few
conjuncts of the theorems above are proved and not part of a run.

## 5. Not modelled

* Of the migration: several migrations at once (they share nothing but the process and
  the queue), the read-only endpoints, the payloads of the gates, LLM and embedding
  calls, the SQL that the hand-over generates, `run_migration` in `worker.py` (nothing
  enqueues it), ARQ's own retries. A decision posted for the wrong gate is modelled as
  one the gate may or may not recognise as malformed.
* Of the schema mapping: hierarchy detection and output rendering (choices), node logs,
  the descriptions that decide whether columns of one name collapse (a choice), the custom-mapping and artifact endpoints.
* Of the review queue: its statistics. Of the batches: the inline path for small
  uploads, which keeps no row. Of the approval chain: customising it and re-sending
  notifications. Of the import: connector deletion, which cascades to its jobs, and the
  mapping of values.
* Scores, prompts, parsing, rendering and SQL generation make up most of the repository's
  lines (matchers, hierarchy builders, document agents, the query service, frontends).
  They branch on data and keep no shared state; a model that abstracts data has nothing to
  say of them beyond the choice it already makes. This, not the protocol code, is why
  the share of mapped lines is small.
* Fiix ingestion, connector plugins, CRUD, UDR, document RAG, query: straight-line I/O.
* The batch processor of svc-ingestion: its accept and review routes raise a `TypeError`
  on every call, so its states are never reached.
* The single-door flow of svc-deepagents: drives the migration through HTTP polling. It
  may post a gate decision twice, which is what `overlap` does with two requests.

## 6. Plan

Done: `MigrationPipeline`, `ConfirmedHandover`, `SchemaMapping`, `ReviewQueue`,
`IngestBatch`, `ApprovalChain`, `ImportJob`, `PPMScheduler` and the theorems above. Left, in this order:

1. An abstract specification of a review (one decision per item) and of an import (all
   rows or none), refined by `ReviewQueue` and `ImportJob`, with the refinements proved.
2. `SchemaMapping` with two slots: two requests on one job.
3. A composition of `IngestBatch` with the review queue its files feed.
4. E-mail intake as a second source of work orders.
5. The confidence router and the voting of the ingestion agents as pure operators
   against reference definitions.
