# Verification of aethermesh-core

TLA+ models of the parts of AetherMesh Core whose correctness depends on the
order in which files are written, on calls that overlap, and on processes that
stop half-way; TLC configurations that check them on small instances; and
TLAPS proofs of the properties that hold for every size. Line numbers refer to
the sources under `src/`; `PROJECT.json` maps every definition to its lines.

## 1. The system

AetherMesh Core is a local-only node (Python package `src/aethermesh_core`)
with a desktop shell (Electron, `desktop/src`). It has no database: every fact
is a JSON file or a line of a JSONL file, written by temp-file-and-replace
(`atomic_write_json`), temp-file-and-link (`atomic_create_json`, which fails if
the file exists) or append. There are almost no locks, so correctness rests on
exclusive creation and on the order of writes.

| Component | State it keeps | Operations | Interacts with | Hard behaviour | What makes it correct |
| --- | --- | --- | --- | --- | --- |
| Local job service (`runtime_service.py`) | per job: submission manifest, status record, state-receipt trail, result, validation receipt, audit events | submit, execute, cancel, status, trace, contribution summary | API, executor, validator, audit journal | concurrent calls without a lock, read-modify-write of the record, crash between any two files, retries | credit only for one worker's finished success; evidence chained to one call; valid transitions; acknowledged work on disk |
| HTTP API and app CLI (`api.py`, `app_cli.py`) | none (one service object) | one route or command per service call | job service | synchronous handlers run in a thread pool, so requests overlap | same as the service |
| Audit journal (`local_audit_event.py`) | JSONL files | validate and append with fsync, read | all services | the append may fail after the line is on disk | events are never lost before the fact they announce |
| Executor and runner (`execution.py`, `runner.py`) | none | run one job, with a timeout in a spawned process or cancellation before start | job service, inbox replay | the deadline races the result | outcome reported is one that happened |
| Validation and scoring (`validation.py`, `contribution.py`, `result_hash.py`) | none | pure functions | all execution paths | caps and boundaries | no credit for an invalid result; units capped |
| Local flow and inbox replay (`cli.py`, `node_service.py`, `node_state.py`, `ledger.py`, `receipts.py`, `message_log.py`, `flow_audit.py`) | dispatch log, worker logs, ledger, node states, flow log, receipts of one output directory | run-local-flow, process-local-inbox, audit-local-flow, aggregate | dispatch, transport | crash between the ledger and the node state; reruns; another manifest in the same directory | processed work is credited, credited once, receipted and auditable |
| Dispatch and scheduling (`dispatch.py`, `scheduler.py`, `node_registry.py`, `message_bus.py`, `peer_registry.py`) | in memory | register, heartbeat, assign, send | flow | ties, offline and incapable nodes | every job goes to one available, capable, least-loaded node |
| In-memory simulation and aggregation (`simulation.py`, `aggregation.py`) | none; an aggregate document | simulate a batch, total an audited run | flow | two accounts of the same work, reruns in between | simulation, ledger and aggregate agree |
| File transport (`local_transport.py`) | inbox and outbox files | materialize, load, write, collect | flow, workers | outboxes overwritten before they are collected; workers sharing a ledger | no message lost or invented |
| Contribution journal (`contribution_record.py`) | hash-chained JSONL journal under a file lock | record, validate, apply receipt | audit journal | two processes, torn append, retry | one entry per manifest; the chain verifies |
| Node start, stop, restart (`local_startup.py`, `local_shutdown.py`, `local_restart.py`, `runtime.py`) | config, identity, manifest, receipts, lineage, logs, shutdown state | start (with identity reset), stop, restart, status | identity | multi-file updates, crash in any of them | an idle directory can be started again; no attested identity is lost or unaudited |
| Node identity (`identity.py`) | identity file, quarantine, reset receipts | load or create, reset | start | create race, reset rolled back when its receipt fails | identity never changes silently |
| Lifecycle records (`lifecycle.py`) | none (rules) | validate transition, recover state | nothing calls it | - | outside the models |
| Schemas (`job_envelope.py`, `job_result_schema.py`, ... ) | none | validate documents | all | - | unit-tested field by field |
| Desktop (`supervisor.js`, `backgroundNodeManager.js`, `main.js`) | child handle and status, runtime binary and metadata, service registration | start, stop, install, update, periodic check | node process, service manager | overlapping async calls, failure in the middle of an update | at most one managed node; an updated node runs again |
| Version, release update, build scripts | none | - | - | - | outside the models |

## 2. Plan

What the modules are, in the order they were written; the sections below describe them.

1. **LocalJobs** (done): the job service, its properties, the abstract
   `JobLifecycle` it implements, and proofs of everything but liveness: what holds
   under every interleaving, and what holds of calls made one at a time, the
   refinement included. **JobViews** (done): the read-only calls as
   functions of its files.
2. **LocalFlow** (done): run-local-flow as a process that may die between any
   two writes and is run again, with scheduling, inbox replay and the flow
   audit. **LocalSimulation** and **FlowAggregation** (done): what a simulation
   foretells and an aggregate totals, compared with the files of runs. Proved:
   everything but liveness, the totals included.
3. **ContributionJournal** (done): the locked append with part-way writes,
   failures and retries, and the abstract `ContributionLog` it implements, with
   proofs of both.
4. **NodeRuntime** (done): start, stop, restart and identity reset as
   sequences of file writes with crashes, on one directory without a lock, with
   proofs.
5. **DesktopNode** (done): the app's calls, timer, child processes and the
   system's service, interleaved at each await, with proofs.
6. **LocalTransport** (done): dispatch, materialize, process and collect as
   processes on one directory with a shared ledger, with proofs.
7. **Workloads** and **WorkValidation** (done): every workload, the gate, the
   scorer and the replay of a report, with proofs for every payload.
8. **SafeExecution** (done): timeout and cancellation of a run in a spawned
   process, with proofs.

Every property the passing runs check is proved for all constants except the four about
liveness (`Settles`, `RunCompletes`, `CallsEnd`, `EveryCallRecorded`), which TLC checks
under the fairness each section states: liveness under fairness is out of the prover's reach.

## 3. The job service: LocalJobs and JobViews

`LocalJobs.tla` models `submit_local_job`, `execute_submitted_local_job` and
`cancel_submitted_local_job` of `runtime_service.py`, with the helpers they
call.

**State.** One variable per kind of file, each a function of the job ID:
`manifest` (`data/job-submissions`), `record` (`data/job-status`), `trail`
(`data/job-state-receipts`), `result` (`data/job-results`), `receipt`
(`data/job-validation-receipts`) and `audit` (the job's lines in `data/audit`,
in the order appended). `call[c]` is what the call of thread or process `c`
holds in its local variables: its arguments, the copy of the record it read
(`seen`), the state it is heading for (`target`) and its outcome, with the
file operation it does next (`pc`). `accepted` and `attempts` are history
variables: which requests were acknowledged, and how often the job's work ran.

**Actions.** One per file operation, in the order of the code:

| Code | Actions |
| --- | --- |
| `submit_local_job` | `Submit`, `CreateManifest` (link fails if it exists), `LogSubmission` or `LogSubmissionFails` then `RemoveManifest`, `CreateRecord`, then the transition to queued |
| `_existing_local_submission` | `CheckExisting`, `AnswerRetry` |
| `_transition_local_job_state` | `ReadRecord` (guards), `AppendState` (trail line), `WriteRecord` (replaces the record by the copy read before, updated) |
| `execute_submitted_local_job` | `Execute`, `LogStart`, transition to running, `RunJob`, `StoreResult`, `StoreReceipt`, `LogReceipt`, `CheckReport`, `LogReport`, `CheckFinish`, `LogFinish`, transition to the terminal state |
| `cancel_submitted_local_job` | `Cancel`, `CheckFinish`, `LogFinish`, transition to canceled |
| crash, `OSError` | `Abandon`: the call ends before its next operation; nothing is undone because no handler undoes it, except `LogSubmissionFails` |

**What is abstracted.** A member of `Requests` is what a submission would write
as its manifest: a request and the second it is submitted in. `Fingerprint` of it
is the submission fingerprint (the request without the second), `Input` what the
receipt lookup compares (input payload, requester, capability) together with
`Origin`, the creator and the parents. Validation before the fingerprint changes
nothing on disk. A result, a receipt and the validation in a record are who
reported, the verdict and, in `req`, the manifest the call held since its start
(`HoldManifest`): the source of the manifest ID, payload hash, creator, parents
and attribution in them. Outputs stay within `MAX_INLINE_OUTPUT_PAYLOAD_BYTES`, so the separate
payload file does not occur. A run ends in one of `RunOutcomes`. Timestamps,
hashes and field validation are left out; equality of hashes is equality of
the documents. The node log (`_append_event`) is not read by any modelled
operation.

**JobViews** has the read-only calls: receipt lookup, list and latest, result
list, contribution summary, audit inspection, attribution trace and the preflight
of a result report. Each joins the files anew and stores nothing, so each is an
operator on the state of LocalJobs; what it answers in the middle of a call is what
a concurrent reader sees.

**JobLifecycle** is what a caller may rely on: a job is created, queued, run
once, and ends succeeded, failed or canceled; credit is given exactly on
success, to the worker that took the job, and nothing changes afterwards.
`LocalJobsProperties` instantiates it with `state` read from the record,
`worker` from the record, and `credit` from the contribution summary's own
test (`Credited`).

### Runs

| Run | Question | Result |
| --- | --- | --- |
| `jobs_concurrent` | Which properties survive two unsynchronised callers and a crash at any step? | credit is earned, evidence chained to one call, records anchored and behind their trail, and the read-only calls never contradict each other |
| `jobs_serialized` | Are the files of two jobs right when calls do not overlap, whatever is cut short? | they implement `JobLifecycle`; acknowledged submissions are on disk; every list answers; jobs settle |
| `jobs_terminal_race` | Are terminal states final, as the API contract says? | no: a stale copy of the record overwrites them |

`FinishedOnce` says two things of a job whose calls do not overlap: at most one
finish event, and, where no call was cut short, that it names the state the record
ends in. `ViewsAgree` says that the summary accepts a job if and only if its
receipt can be shown as accepted and its attribution traced, unless the manifest on
disk is not the one the work was run for (`Replaced`), and that this takes a failed
submission beside another call. Replaced or not, what the lookup accepts the summary
accepts, the inspection, if it answers, lists the execution with the receipt's verdict,
and only a worker whose start of the job was logged has a report held ready. `ListsAnswer` says that, unless a
call was cut short, every list answers whenever no call is in progress.

**What the code does and no property denies.** These are not
contradicted by a document, so they are no findings, but a reader should know them:

* A retried submission can be acknowledged from a manifest that its creator is
  about to unlink because its audit line failed: the acknowledged job is gone.
  `AcceptedIsRecorded` is therefore a property of serialized calls only.
* After a crash between the finish event and the terminal write, the next call
  keeps the older event, so the event may name another state than the record.
* A receipt whose record does not refer to it (the execution was cut short after
  storing it and the job canceled, or it raced a cancellation) makes
  the receipt list and the lookups raise, for good and for every job.
* A canceled job has no result, so the contribution summary calls it
  degraded and invalid.
* An executor reads the manifest once. If the submission that wrote it then fails
  to log itself and removes it, another request may take the job ID before the work
  ends, and the job gets the second request's manifest beside the first one's result,
  receipt and attribution. The summary compares only creator and parents, and accepts the
  job if they agree; the lookup compares the input as well (`runtime_service.py:1837`)
  and the trace the whole manifest (`runtime_service.py:2106`), and refuse it. The
  contract asks for the manifest's hash of the trace alone
  (`docs/phase-1-api-schema-contract.md:79`).
* A preflight does not look at the job's status, and a report that names its
  manifest by path is not bound to the manifest's hash.

**Bounds.** `jobs_concurrent` has one job: the writers' files of different jobs
never meet, and `jobs_serialized` has two for the lists, which join them. Two
callers, since every property speaks of at most two calls at once (the one that
owns the evidence and one that interferes), and `MaxCalls = 4` calls in all, which
lets a submission, a retry, an execution and a competing execution or
cancellation happen in any order, or a submission that fails, the execution of what
it wrote and another submission. Two workers, to tell the right one from another, and
four requests: one in two different seconds, one of the same creator and parents with
another input, one of another creator. `jobs_serialized` has one caller, since a call
that begins when no other is in progress may as well be the same caller's, and three requests. `MaxFaults` is 1 where calls overlap and 2 where they do
not. Symmetry (callers, workers, the two seconds) is used only in `jobs_concurrent`,
which has no liveness property. The violation run needs fewer calls.

**Fairness.** `FairSpec` assumes weak fairness of `Step(c)` only: a call is a
synchronous function that its thread runs to its end unless the process dies,
and that is `Abandon`, which is not fair and is counted in `faults`. No
operation of `Step` waits for another caller.

**Deadlock** is checked: a state without a successor would be a call that
cannot go on. `Quiesced` stands for the idle service once the bound on calls
is used up.

### Proofs

`LocalJobsAssumption` says that `None` is none of the values it stands beside
and that the bounds are numbers; `RequestsAssumption`, that requests with one fingerprint
have one input, and those with one input one origin: parts of equal wholes are equal. Nothing is assumed about how many
jobs, callers, workers or requests there are, so the theorems hold for any.

* `TypeCorrect` (`LocalJobsProofs`): `TypeInv`, the type invariant with two
  facts about calls that typing needs (a call that is about to write a record
  holds the copy it read, and the arguments its step uses are not `None`), is
  inductive.
* `TrailLeads` (`LocalJobsProofs`, as all that follow up to `ViewsNeverDisagree`):
  `TrailInv` adds that a call between
  its trail line and its write has appended that line, and that the copy it
  holds refers to no more lines than were appended. Without the
  clause about copies the property is not inductive: the record written is the
  stale copy.
* `RecordAnchored`, `ManifestKept` (with `TrailLeads` the property
  `RecordIsFounded`, theorem `RecordFounded`): `AnchorInv` says that at most one call
  owns the manifest of a job from its exclusive creation until the record
  exists, so the clean-up of a failed submission can only remove a manifest
  that has no record.
* `EvidenceChained`, `CreditEarned`: `EvidenceInv`
  says that only the call whose result is on disk is past `storeResult`, which
  makes receipt, receipt event, report and a successful terminal write its own.
* `ViewsNeverDisagree` (`ViewsAgree`): `HeldInv` says that the manifest a running call
  holds is the one on disk, and the one its result names, as long as nothing was cut short
  or calls are serialized. `ViewInv` adds that the verdict a record refers to
  is the one its status states, and that the worker named by a record has logged its start. The
  views are functions of the files, so no step is looked at twice: each view reads a file
  the invariant ties to the others.

The second part of the module assumes `Serialized`, the constant that lets a call begin
only when no other is in progress, as run `jobs_serialized` does. Its
invariants start from `BaseInv`: everything above, and at most one call that is not idle.

* `PromiseKept` (`KeepsPromise`, the refinement of `JobLifecycle`): `PromiseInv` says that the
  copy a call holds *is* the record, that a call past its start has the job running under its
  own name, and that a job not yet running was never attempted. `CreditFromRecord` then makes
  the credit a function of the record alone, so every step but a status write and the run
  itself stutters, and those two are steps of the lifecycle.
* `AcceptedStays`: `AcceptInv` says of each step of a submission what
  it knows of the manifest (that it is the call's own request, or has its fingerprint), so that the only call that deletes one has acknowledged nobody.
* `TrailReplays`: `TrailEndInv` adds that a call at its status write
  stands after its own line.
* `FinishesOnce`: `FinishInv` is proved of every fault; that the event
  names the terminal state needs `PhaseInv`, which says for each step of a call
  which evidence is there and which is not, as long as nothing was cut short (`FaultFree`).
* `ListsKeepAnswering`: from `PhaseInv` and `HeldInv`, in idle states.

Model-checked only: `Settles`, which is liveness under fairness.
`TerminalIsFinal` is violated.

## 4. The local flow: LocalFlow, LocalSimulation, FlowValidation and FlowAggregation

`LocalFlow.tla` models `run-local-flow` over one output directory
(`_run_local_flow_with_roster` in `cli.py`) with what it calls:
`LocalScheduler`, `dispatch_local_batch`, `_process_local_inbox`,
`LocalNodeService`, node state, ledger, receipts and logs.

**State.** One variable per file: `dispatchLog`, `workerLog` and `nodeState`
(one file per node), `ledger`, `flowLog` and `receipts`. `run` is what the run in
progress holds in memory: where it is (`pc`), the scheduled batch, the nodes
left to process, the receipts loaded at the start, and the new receipts and
emitted messages collected so far. `handled` (assignments whose processing was
marked), `used`, `done`, `runs` and `faults` are history variables.

| Code | Action |
| --- | --- |
| load existing documents, `dispatch_local_batch` (schedule, number the messages) | `StartRun` |
| `write_message_log` of the dispatch log | `WriteDispatchLog` |
| per available node: replay the log, run what is not marked, `save_ledger_document` | `SaveLedger` |
| ... `write_message_log` of the worker log | `WriteWorkerLog` |
| ... `save_node_processing_state`; the run keeps receipts and messages | `SaveNodeState` |
| flow log | `WriteFlowLog` |
| receipts, merged with those loaded at the start | `WriteReceipts` |
| process killed, or a write raises | `Crash` |

Scheduling is an operator: `Schedules(m)` is the set of schedules in which
every job goes to a capable node that no other capable node precedes (by load,
then manifest order).

**LocalSimulation** is `run_local_simulation` (`simulation.py`), the in-memory
counterpart: one bus for all nodes, one inbox pass after each assignment, and the
summaries, roster and totals it returns, with the ledger `run-local-batch` saves.
**FlowValidation** is `validate-local-results` (`local_validation.py`): which logs it
refuses, and its report, each result validated again for the node the dispatch log
assigned its job to. **FlowAggregation** is `aggregate-local-flow` (`aggregation.py`): the totals of a
run's receipts by node, by type and by verdict, behind the audit. All three are
operators; they are compared with the files of LocalFlow.

**What is abstracted.** What a job computes is the constant `Outcome`, a status, a
verdict and units for each job, which holds for any node; the ledger is a count
of records per node and job. An absent file and an empty one read the same.
Offline nodes get no pass and are not listed. The transport, peer and
ephemeral variants of the flow are left out, and so are malformed files: every
file is replaced atomically. Two runs at once over one directory are not
modelled; the code has no provision for it.

### Runs

| Run | Question | Result |
| --- | --- | --- |
| `flow_reruns` | What holds of ledger, receipts and marks when runs are repeated and cut short anywhere? | credit is never lost, is doubled only by a crash between ledger and node state, is never outrun by receipts, and is exactly once without faults; a first run is what the simulation of its batch foretells, and any aggregate totals the ledger; runs complete |

`LedgerIsBounded` is both bounds on credit: the marked assignments and the pass in
progress below, the runs cut short above, receipts within it. `CreditedOnce` is what
one manifest is owed when a run completes. `AggregatesAgree` says that a first,
uninterrupted run passes the audit and leaves the ledger, the roster and the totals the
simulation foretells, that the results of a completed run are not refused when validated
again and come out as they were receipted, and that whenever the audit accepts the artifacts, in the
middle of a rerun too, their aggregate totals the ledger.

**What the code does and no property denies.**

* The artifacts of a rerun do not pass `audit-local-flow`: it replaces the flow
  log by one without the results of runs before, but keeps the receipts that refer
  to them.
* Message IDs start again at `msg-0001` with another manifest in the same
  directory, and the node state takes its assignments for processed: they are neither
  run nor credited. This is why `CreditedOnce` is about one manifest.
* The audit does not compare the receipt's node with the assignment's node.

**Bounds.** Two nodes and three jobs give ties, an uneven share and a node
without a capability. The manifests: `Shared` (three jobs over two nodes),
`Reordered` and `Single` (the same jobs under other message IDs and on one
node, so IDs collide with other assignments), and `Partial` (a
node that can do one job only). Of the three jobs one earns units, one is valid
and earns none, one is of an unsupported type. Three runs are the least in which a crash, a
recovery and a further rerun all occur; two faults let credit be doubled
twice for one assignment.

**Fairness.** `FairSpec` assumes weak fairness of `Step`: a run is one
sequential process without waiting. `StartRun` and `Crash` are not fair.
**Deadlock** is checked; `Finished` stands for the idle directory when the bound on
runs is used up.

### Proofs

`LocalFlowAssumption` states what the manifest loader checks: nodes and jobs are
lists without repetition, there is a job. The theorems of `LocalFlowProofs` hold
for any nodes, jobs, manifests, and numbers of runs and faults. `OutcomeAssumption` is what
the scorer guarantees of an outcome: units only for valid, completed work.

* `FlowTypeCorrect`: `TypeInv` adds to `TypeOK` the shape of dispatch logs,
  `LogShape`: finitely many assignments, and one assignment per job and per
  message ID. Message IDs of emitted messages are counts of assignments, so
  typing needs finiteness.
* `CreditIsBounded`: `CreditBounded` is inductive with `TypeInv`; `Pending` is
  the clause that makes it so, the record a pass has on the ledger before its
  assignment is marked. `Crash` trades a pending record for a fault.
* `MarkedCredited`: follows step by step from the same bound: what `SaveNodeState`
  marks was pending.
* `LedgerBounded`: `CreditIsBounded` and `ReceiptsCovered` together, the property
  `LedgerIsBounded` of the run.
* `ReceiptsCovered`: receipts are keyed by assignment ID (`Keyed`) and each comes
  from a marked assignment (`Origin`), so an injection maps a job's receipts into
  its marked assignments, whose number the ledger bounds.
* `FlowCreditedOnce`: `OnceInv`. A manifest has one schedule (`ScheduleUnique`: two that
  differ differ at a first job, and the jobs before it load the nodes alike), so all its
  runs have one batch and an ID means one assignment in all of them. `RunInv` says whose
  inbox is left to process: what is neither marked nor of such a node does not exist.
  `OneManifest` says that marks are of assignments of the batch, each of which has a
  receipt, on disk or in the run, as long as nothing was cut short; merging replaces
  a receipt only by one of the same assignment. A completed run has no inbox left,
  so the marked assignments are the batch's, and `CreditBounded` gives the ledger.

* `SimulationResults`: the simulation keeps one record and one result for each job, in the
  order of the jobs. `Simulating` is its invariant after k jobs: message i of the bus has
  ID i and every assignment on it is marked, so that the pass after the next assignment
  finds only that one new (`LastIsNew`, `JobSimulated`). The code raises when a
  pass processed another number of assignments; it never does.
* `FlowAggregatesAgree`, in three parts, from one invariant, `ArtifactInv`:
  * *The first run.* `OnceInv` with `RunCount` (a first run that completed was not cut short
    and is of one manifest) and `Reported` (the flow log holds exactly the messages of the
    run's new receipts). So the receipts are, one by one, the batch's assignments, the audit
    accepts them (`FirstRunAudited`), and they are the results of the
    simulation by a bijection (`ReceiptsAreJobs`) along which everything is counted
    and summed (`CountForetold`): ledger, roster, units, verdicts (`Foretold`).
  * *The replay.* Every reported result is the result of a receipt, its job is assigned once
    in the dispatch log, and to the receipt's node (`CompletedReplays`).
  * *The totals.* Where the audit accepts, the receipts of a node and a job are as many as the
    ledger's records, so the units by node, by type and by record are sums of
    the same receipts parted in different ways (`RecordedIsGained`, `AuditedTotals`).

The sums are folds, whose definition is recursive, and an induction with an operator for
its predicate is not available. `SubsetInduction` takes its predicate as a set
of subsets instead, and `SumPicked` shows that the sum satisfies its
recursive equation: below a finite set at which the equation fails there would be a least
one. `SumRemove` then frees the sum from the order in which elements are picked, and
`SumSame`, `SumOfSupport`, `SumByParts` and `SumAlong` are the rules the totals need.
The simulation and its inbox pass are recursive functions over places, and their proofs
argue by the least place at which a claim would fail (`LeastNumber`).

Model-checked only: `RunCompletes`, which is liveness.

## 5. The contribution journal: ContributionJournal

`ContributionJournal.tla` models `record_validated_contribution`
(`contribution_record.py`) called by any number of processes on one journal,
with the file lock, the loader and the ledger-update audit.

**State.** `lines` and `ended` are the journal file: its lines, and whether the
last one has its newline; a line is an entry or `Torn`, text that is no entry.
`lock` is the holder of the lock file, `audit` the lines of the
ledger-update audit, `call[p]` where the call of a process is and what it holds.
`returned` (manifests a call returned an entry for), `attempts` and `faults` are
history. An entry's hash covers the hash before it, so it stands for the whole
chain: `prior` is the sequence of contributions before the entry.

| Code | Action |
| --- | --- |
| `validate_local_contribution_record`, accepted receipt, manifest hash | `Validate` |
| `_contribution_journal_lock` | `Acquire`; released by leaving the block, by errors and by death |
| `_load_contribution_journal`, search for the manifest | `Load` |
| append of entry and newline | `AppendEntry` |
| `_append_ledger_update_audit` | `AuditRecorded` (after release), `AuditKnown` (under the lock), `AuditFailure` |
| part-way append; I/O errors; audit append that raises; death | `AppendCut`, `OperationFails`, `AuditFails`, `Die` |

**What is abstracted.** The field-by-field checks are a `Verdict` for each
contribution. An append that is cut leaves the whole entry without its newline
or a fragment of it (an entry longer than the write buffer is written apart
from its newline, and a full disk can stop a write anywhere). Timestamps are
left out. Hashes do not collide.

**ContributionLog** is the promise of `docs/contribution-record-schema.md`: an
append-only log of accepted contributions, one for each manifest, which a
failing write may ruin for good, and only a failing write.

### Runs

| Run | Question | Result |
| --- | --- | --- |
| `journal_failures` | Does the journal keep its promise when calls overlap, writes stop part-way and processes die? | yes; damage stays in the last line, a journal that loads holds all that was returned, each attempt without a failure is audited once, calls end |

`EntriesAreKept` is two statements: damage stays in the last line, and a journal that
loads holds every entry a call returned. It says nothing of a journal that no longer loads,
and there the code does lose an entry it has returned: after an append cut before
its newline, the next entry continues the same line, is returned as recorded, and
the line no longer parses.

**Bounds.** Two processes, since the lock admits one and another interferes;
five contributions: two for one manifest, one for another, one rejected, one
invalid; three attempts (an entry cut, one that runs into it, one that meets
the ruin) and two failures.

**Fairness.** Weak fairness of each call's step: a call is a synchronous
function and failures are not fair. With a bounded number of attempts the lock is
free from some point on, so weak fairness suffices for it.

### Proofs

`JournalAssumption` says that every contribution has a manifest and a verdict
and that `None` is no process; `TornIsNoEntry` that damage is told from entries.

* `JournalTypeCorrect`: types, and that only calls with accepted evidence reach
  the lock.
* `JournalDamageIsLast`, `JournalReturnedIsRecorded` (together
  `JournalEntriesAreKept`),
  `JournalRecordedAuditedOnce`: from one inductive invariant, `JournalInv`. Its
  core is `LockInv`: a call between load and append holds the lock, so what it
  read (`CallInv`: the chain, and that the manifest is not in it) is still so
  when it writes. A write either grows the journal by the entry (`Grown`) or
  leaves it unreadable from its last line on (`Ruined`).
* `JournalKeepsPromise`: the refinement of `ContributionLog`: a growing write is
  `Record`, a ruining one is `Ruin` and has a failure behind it, and every other
  step leaves the log as it is.
* `JournalEveryAttemptAudited`: `AttemptInv`, for the states without a failure: an
  attempt number belongs to one call until that ends (`Numbered`), and no line of the
  audit bears the number of a call that is still to end. So the line a call leaves at
  its end is the only one with its number.

Model-checked only: `CallsEnd` (liveness).

## 6. The commands on a runtime directory: NodeRuntime

`NodeRuntime.tla` models start (with or without an identity reset), stop and
restart (`local_startup.py`, `local_shutdown.py`, `local_restart.py`,
`identity.py`, `local_runtime_config.py`). Nothing locks the directory, so any
number of processes may run these commands on it at once.
`NodeViews.tla` has the read-only calls, inspection and status (`runtime.py`), as functions
of the files. `NodeRuntimeProperties.tla` states what the commands must not do.

**State.** `config`, `identity` and `manifest` are what the three files name;
`manifest` also says whether it has the capability advertisements older versions
did not write. `quarantine` is a set of
copies, each under its name; `resets`, `receipts`, `lineage`, `restarts` are the
files of `security/`, `identity/` and `lineage/` they are named after. `state`
and `stopped` are the shutdown state and the list of interrupted work; `stops`
the shutdown events of the audit log. `stray` says that there is some other
artifact: a log, a temporary file, the files of finished work. `machine` is the node ID the hardware yields, `open` the work
without output, `clock` the second. `call[p]` is where the command of a process
is and what it has read. `origin` (the first identity), `overwritten` (identities that
a copy was put over), `alone` (no command overlaps this
one) and the bounds are history.

| Code | Action |
| --- | --- |
| `main` calls a command | `Begin` |
| refusals of `start_local_node`, config against identity | `Preload`, `Compare` |
| `reset_identity`: name the copy, copy, replace, append the receipt, roll back | `NameCopy`, `Quarantine`, `SaveIdentity`, `ReadResets`, `WriteResets`, `RestoreIdentity` |
| `load_or_create_identity`, then the creator | `LoadIdentity`, `ReadCreator` |
| `load_or_create_local_runtime_config` | `CheckConfig`, `WriteConfig` |
| manifest: exists, create, upgrade, validate | `CheckManifest`, `WriteManifest`, `LoadManifest`, `UpgradeManifest` |
| startup receipt, lineage record, logs | `CreateReceipt`, `CreateLineage`, `Log` |
| `_shutdown_local_node` | `StopLog`, `StopLoad`, `StopWork`, `StopState`, `StopAudit`, `StopAppend` |
| `restart_local_node` after the shutdown, after the start | `RestartRead`, `RestartReceipt` |
| errors, deaths, the audit event that is given up | `Fail`, `RestoreIdentity`, `StopUnaudited` |
| work arrives or is done; a second passes; the directory is moved | `Submit`, `Complete`, `Tick`, `Move` |

**What is abstracted.** A document is what the others are compared with: its
node ID. The creator is the node itself in every identity these commands write;
a reset that reads another creator than its own writes it to the config, which the
model does not tell apart (it takes a rollback in between). A copy is atomic.
A write is atomic (`json_io.py`: a temporary file, then a link or a rename); a
death inside one leaves the temporary file (`stray`). Receipts and lineage
records are named by second and count, as in the code, since two starts can
choose the same name; the receipts of a restart likewise, where the model keeps
what a taken name may lead to. Init is an empty directory, or one an older
version started, perhaps on another machine.

### Runs

`node_commands` asks what overlapping, failing and moved commands may leave.

* `CommandsLeaveStartable`: without failures, when all commands are over, a directory
  was started as a whole or not at all. Once it has had an identity, config and identity
  name one node and the next start can succeed (`Startable`), unless a start that upgrades an
  old manifest overlapped a reset and put the manifest of the replaced node back: then plain
  starts are refused, and a start that resets the identity can succeed. Before that, nothing
  in the directory names a node, but any file makes the first start refuse ("artifacts
  without a config"): the log of a shutdown, a file of work waiting, in progress or done.
  One shutdown or one submission before the first start is enough for that; the property says that
  only these are.
* `AttestedIsAccounted` is three statements. `AttestedIsKept`: an identity a startup
  receipt attests is in use or in quarantine. The exceptions are in `overwritten`:
  a failing reset restores its backup over an identity another has written
  meanwhile (three processes), and two resets of the same second choose one name
  for their copies, so that the second, without any failure, copies the new
  identity over the only copy of the old one.
  `AttestedIsAudited`: an attested identity is the first, or a reset receipt
  introduced it. Overlapping resets do lose receipts (the file is read, extended
  and replaced), but only those that say the same of the same machine.
  `ShownIsKept`: whom the status shows as validated or as started is in use or put aside by a
  reset.
* `RestartIsTrue`: a restart receipt is about a node that was started anew, the one
  that was stopped (`RestartKeepsNode`), and a restart that ran alone decided all
  the work that was open (`RestartDecidesOpenWork`).
* `LineageIsAttested` and `StoppedOnce` relate lineage to receipts and stop events to
  instances.

**Bounds.** Two processes, two machines, one piece of work, two commands, one
failure, one move, two seconds; 1.3 million states. Two commands make every
overlap of a pair, and one failure every crash in it; the second machine makes a
reset change the node. Three processes with three commands in one second, without
work (5.3 million states), show nothing more; the theorems below have no bounds.

**Fairness.** None, and no liveness: a command waits for nothing, so that it ends
says nothing about the code.

### Proofs

`NodeRuntimeProofs.tla`. `NodeAssumption` says that `None` is told from nodes,
manifests and states, and that the bounds are numbers. Each invariant is proved
beside `TypeInv`, which adds to the types what a call has at each place (`Shape`)
and that receipts and lineage are finite, so that they can be counted.

* `NodeTypeCorrect`: types.
* `NodeLineageIsAttested`, `NodeRestartKeepsNode`: from `EvidenceInv`: names of
  receipts are unique, and a call past a write finds its record there, since
  files are created without replacing others.
* `NodeStoppedOnce`: from `AloneInv` (a call that runs alone has no other beside
  it) and `StoppedInv` (a call alone that is about to append found no event for
  its instance).
* `NodeRestartDecidesOpenWork`: from `WorkInv`, which follows the work open at
  the begin of a restart through list, state and reading back.
* `NodeAttestedIsKept`: from `KeptInv`. Nothing leaves identity, quarantine
  and `overwritten` together; a reset about to replace the identity has a copy of
  it, or had one, unless another has replaced the identity by the same one.
* `NodeAttestedIsAccounted` and `NodeRestartIsTrue` put the parts together.
* `NodeAttestedIsAudited`: from `AuditInv`. What a reset has read of the receipts
  and what is on disk differ only in receipts about the present machine
  (`Within`), because the directory moves only while no command runs; the
  receipt it writes is about that machine too. So no write makes an audited
  identity unaudited.

* `NodeStaysStartable` (`CommandsLeaveStartable`): from `OriginInv` (a directory that has had
  an identity has one) and `AgreeInv`, which says, as long as
  nothing failed, who is at fault for each disagreement (`Completed`): an identity without a
  config is that of a start about to write it, a config without a manifest likewise, and a config
  or manifest that names another node is about to be written by a reset that has replaced the
  identity. The manifest of a replaced node stays only behind an upgrade, whose loaded copy
  was the first, unadvertised manifest. While a file is missing every name is that of the
  machine (`Grown`), because the directory moves only while no command runs.

Every property of the run is proved.

## 7. The desktop app: DesktopNode

`DesktopNode.tla` models the Electron app as controller of one local node
(`main.js`, `supervisor.js`, `backgroundNodeManager.js`, `cliManager.js`), on Linux
with systemd. The app is one event loop: a call runs without
interruption up to its next `await`, and other calls, child processes and the
service manager run while it waits. A step is one such piece.

**State.** `settings` is `desktop-settings.json`; `runtime` the stable runtime's
file and the version in `runtime.json`; `shims` the CLI wrappers; `unit` and `osNode`
the systemd user service and its process. Every `startTemporaryNode` creates a
supervisor: `sup[i]` is what it knows, `init[i]` and `node[i]` are the two processes it
spawns, `current` is the global one. `calls[c]` is a call in progress with the steps it
still has to do (`todo`) and the settings it has read (`snap`). `app` says whether the app
runs, what it bundles, its timer, and whether before-quit has passed (`quitting`). `mine`,
`late`, `leftover`, `overlapped` and `excused` are history: this session's supervisors, those
that spawned their node after before-quit, what a removal left behind, whether two calls
were in progress at once, and why the service may be down.

| Code | Actions |
| --- | --- |
| `bootstrap` | `Bootstrap`, `Reconcile`, the update steps, `Schedule` |
| IPC calls start, stop, restart | `Start`, `Stop`, `Restart`, then `Spawn`, `Supervise`, `AskService`, `Api` |
| `checkRuntimeUpdates`, `updateStableRuntime`, the timer | `Update`, `Copy`, `UpdateApplied`; `Tick`, `TickApplied`, `SaveTickCli` |
| enable and disable background mode, remove data | `Enable`, `SaveEnabled`, `Disable`, `SaveDisabled`, `Remove`, `Wipe` |
| CLI: repair, uninstall, status | `Repair`, `SaveCli`, `UninstallCli`, `CliStatus`, `SaveStatus` |
| commands the app waits for | `RunInit`, `Register`, `StartUnit`, `StopUnit`, `Unregister`, each of which may fail |
| child processes | `InitExits`, `NodeStarts`, `NodeExits`, `NodeDies` |
| the service's own process, `node_start` (`app_cli.py`) | `ServiceRuns`, `ServiceStarts` |
| launch, upgrade | `Launch`, `Upgrade` |
| before-quit, and later the end of the process | `Quit`, `Exit` |
| death of the app anywhere, inside the runtime's installation, inside an uninstall of the CLI | `Crash`, `CrashInCopy`, `CrashInUninstall` |

`before-quit` stops the temporary node and clears the timer before Electron closes the
windows; calls go on until the process ends, so between `Quit` and `Exit` every piece of a call may still run,
an init may end, and its node be spawned.

**What is abstracted.** A version is a number. A health check is whether something
answers (`Reachable`), which a node that was sent SIGTERM does until it exits. A wait for the
API ends when something answers or at any time before. Windows, displayed state, logs and the
read-only calls are left out; launchd and Task Scheduler get the same calls by other
commands. Closing the last window, which stops the node and then quits, is `Quit`; on
macOS the app stays open then. The write of a small JSON file is one step, although
`writeFileSync` replaces it in place (`backgroundNodeManager.js:30-33`): a death inside that
write leaves text that makes every later bootstrap throw (`main.js:131`), a failure no property
here is about.

### Runs

`desktop_calls` asks what interleaved calls, a failed command or a crash and
relaunch may leave.

* `CurrentIsInstalled`: the metadata never claims a version that is not installed,
  wherever the app dies (the file is replaced first).
* `OneSupervisedNode`: of this session's nodes at most one has not been told to stop, if
  calls were made one at a time.
* `QuitStopsChild`: when an app that was quit in temporary mode has exited none of its nodes
  runs, whatever call was in progress at before-quit, except one that this
  call spawned afterwards (`late`).
* `ServiceStaysActive`: in background mode every call leaves the service active, and
  so does a relaunch after a death in the middle of an update, unless excused.
* `SettingsAreTrue`: between calls the settings name wrappers that are there and deny no
  registered service, with two exceptions (`leftover`): an uninstall of the CLI that was cut
  short after the wrappers were gone, until a launch or a repair writes them again, and a unit whose
  removal failed, an error `disableStartAtLogin` swallows, until one succeeds.

`desktop_service_idle` asks whether the service the user enabled comes to serve. It does
not: the unit runs `node start`, which returns once it sees that background
mode is on, and the manager restarts it for ever. See the finding in `PROJECT.json`.

**Why calls made one at a time.** The properties with `~overlapped` are false of
overlapping calls, and nothing in the repository says otherwise:

* `supervisor.start` awaits init before it sets its child, so a second start passes
  the guard and a stop or quit finds nothing to stop.
* `checkRuntimeUpdates` saves the settings it read before its commands ran, and so
  undoes a disable or an uninstall in between.

Other behaviours a reader should know of, none of which is a violation above:
a restart in temporary mode sees the terminating node still answer and takes it for the
new one; a node spawned between before-quit and exit outlives the app; enabling background mode while a temporary node runs leaves that node
running after quit; an uninstalled CLI is installed again at every launch;
the launch installs the runtime before it checks for an update, so its check never
restarts a service that runs the old one; the `error` event of a spawn has no
handler.

**Bounds.** Two calls at once, three supervisors, two calls begun by the user or the timer
besides the launches' own, one fault, two bundled versions, two launches:
1.4 million states. Two calls at once make every overlap of a pair. With `OverlapOnce`,
once two calls have been in progress together the next begins when both have ended, and
none begins beside another before the last upgrade: most properties except what follows
an overlap, and the newer version meets both an old and a missing runtime. The second launch
follows a crash, a quit or an upgrade. Deadlock is not checked: an app that was closed stays
closed.

**Fairness.** `desktop_calls` has none. `desktop_service_idle` checks a liveness property under
`FairSpec`: pieces of calls, processes and the service manager proceed, as the event
loop and `Restart=always` make them; user calls, faults, quits, exits and launches are not
fair.

### Proofs

`DesktopNodeProofs` assumes nothing but that there are numbers of calls and
supervisors, so the theorems hold for any number of each, of versions and of launches.

A call is a list of steps still to do, and steps put others in front (a check inserts the
update, a start inserts its spawn). The proofs never look at the list: `Plan` reads it
as the *set* of steps ahead, ordered by `Later` (which steps may follow a step), and one lemma
per shape of move (`FirstMoves`, `InsertMoves`, `RestOrReturn`, `SpawnMoves`) gives the set
after it. `TypeCorrect` is that every call has a plan, which makes these lemmas apply to every piece.

* `CurrentInstalled`: `InstalledInv` adds that metadata never exceeds the bundle.
* `AloneInv`: as long as no calls overlapped at most one slot is busy, so the other
  conjuncts need to be checked for the call that moved only.
* `SettingsTrue`: `SettingsInv`. In the middle of a call the settings are allowed to differ
  from wrappers and unit by what the steps ahead will put right: `Owed` says which step
  makes up for which difference, of the wrappers or an uninstall cut short (`Covered`) and of a
  unit no removal has failed on (`Loose`), and each step pays what it owed or leaves the step
  that will.
* `OneNode`: `NodesInv`. A live node of this session is always held
  by the current supervisor (`Held`), and none lives where a plan is about to spawn or to
  replace the supervisor (`NodeOwed`). `OneSupervisedNode` alone is not inductive: it says nothing
  of a node no supervisor holds, which a spawn would double.
* `QuitLeavesNone`: `QuitInv`. Between before-quit and exit every live node of this session
  is `late`; it needs `NodesInv` at the moment of before-quit, that the node it stops is
  the only one.
* `ServiceKept`: `ServiceInv`. In background mode the service is active, a node answers, or
  a step ahead (`Pending`) will start it, ask it or turn the mode off; the invariant needs
  `ManagedInv`, that the manager runs no process of a stopped service.

Model-checked only: `ServiceServes`, which is liveness, and violated.

## 8. The file transport: LocalTransport

`LocalTransport.tla` models the commands of `cli.py` and `local_transport.py` on one
transport directory. Each is a process that reads and replaces whole files
without a lock and may die between any two of them.

**State.** `log` is the dispatch log, `inbox` and `outbox` the files of the nodes that
have one, `ledger` the records of the shared ledger by assignment, `state` each node's
processed IDs, `collected` the collected log. `proc[p]` is a running command with
the steps it still has to do and what it has read. `lost`, `unlisted`, `crowded` and `repeated`
are history: assignments whose record a saved ledger did not take over; those a pass without a
ledger reported or marked; nodes two passes worked for at once; nodes for which a pass
credited and did not keep, or not reach, the node state.

| Command | Actions |
| --- | --- |
| `dispatch-local-batch` | `Dispatch` (one write) |
| `materialize-local-inboxes` | `Materialize`, `WriteInbox` for each recipient |
| `process-local-inbox` | `Process`, `ReadInbox`, `ReadLedger`, `SaveLedger`, `WriteOutbox`, `SaveState` |
| `collect-local-outboxes` | `Collect`, `ReadOutbox` for each, `WriteCollected` |
| a command is killed or a write raises | `Die` |

Of the options of `process-local-inbox` the model has `--ledger-path`, `--node-state-path` and
`--write-transport-outbox`, each given or not: a pass without a ledger still writes its
outbox and its node state, as in the code. It leaves out `--message-log-path` (a pass over a
saved log, not an inbox) and `--output-message-log-path` (a copy nothing reads back).

**What is abstracted.** A report stands for the result and the validation message of
one assignment; what jobs compute, heartbeats and the numbering of messages are left
out. A source log is a dispatch log.

### Run

`transport`:

* `ClaimsAreCredited`: what is reported, collected or marked is on the ledger, assignment by
  assignment, except those in `unlisted`, which no pass credited, and those in `lost`, which a
  pass with an older copy of the ledger took off it. So the harm of two nodes
  sharing a ledger stays with the records that were overwritten, and of a pass without a
  ledger with the work it did itself.
* `CreditedOnce`: an assignment is credited twice only for a reason in `crowded` or `repeated`.
* `MarkedIsReported`: a pass with an outbox marks only what its outbox holds, so a pass
  that dies is repeated rather than skipped.

**Bounds.** Two nodes; a batch of two and one that extends it by a third assignment, so a
node has both processed and new work; six commands, the least that dispatch,
materialize, process, dispatch again and process again and collect; two at a time; one
death. 4.3 million states. The directory is idle once the bound on commands is used
up, so deadlock is not checked. **Fairness:** none; no command waits for another.

**What the code does and no property denies.** The outbox holds the reports of the latest
pass only: those of the pass before are gone unless they were collected. Reports
are numbered by node, so those of two nodes may share message IDs and a
collected log may be refused as a source. A pass without a ledger that marks its work
leaves it uncredited for good: later passes skip it.

### Proofs

`TransportAssumption` gives the constants their types. The theorems of
`LocalTransportProofs` hold for any nodes, batch and logs, any number of commands
at once, begun, or dead. Where a pass is in its steps is what they turn on: `Path` is the set
of step lists a pass may have before it, and `PathFollows` says what follows each step.

* `TransportTypeCorrect`: `TypeInv` adds to `TypeOK` what the steps left tell of a
  command (`Shaped`): which one it is, that a collecting command goes through
  outboxes that exist, that the assignments a pass holds are its node's.
* `TransportClaimsAreCredited`: from `CreditInv`, which extends the claim to what
  commands hold in memory: what a pass knows, what it has done once its ledger is
  saved, what a collector has gathered. `Accounted` is the record or one of the two exceptions,
  and no step takes an assignment out of it.
* `TransportCreditedOnce`: from `OnceInv`. Of a node with one pass at a time
  (`Alone`) whose crediting passes keep its state, such a pass knows the state, and what is credited
  is marked or about to be (`Due`), on the ledger and on every ledger that a pass has read and
  is about to extend: passes of other nodes put old ledgers back, so `Exact` is about all of these.
* `TransportMarkedIsReported`: from `ReportInv` and `Alone`: the outbox a pass wrote is
  still its own when it marks.

## 9. Work, validation and credit: Workloads and WorkValidation

`Workloads.tla` has the program's pure algorithms as operators: the workloads of
`runner.py` (`Build...`, `RunJob`), the output schemas and comparison of
`validation.py` (`OutputSchema`, `FitsSchema`, `ValidateJobResult`) and the scorer of
`contribution.py` (`Score`). A value is a leaf with its JSON kind, so that `True`, `1` and
`1.0`, equal in Python, are told apart where the code does; a text is a
sequence of letters, blanks, marks and line ends; a float above `MaxFloat`
is infinite and an integer above it cannot be converted, which raises. The hash is an
injective operator.

`WorkValidation.tla` takes one assigned job through the gate:

| Code | Action |
| --- | --- |
| `LocalNodeService.process_inbox` | `ProcessAssignment`; `ProcessingRaises` when another exception than `ValueError` leaves the runner |
| `LocalExecutor.execute` with the local or an unknown runner, or one that raises | `Execute`, `ExecuteRaises` |
| a message log that was edited in one place | `AlterReport` |
| `validate_local_results` | `Replay`, `ReplayRefuses` |

### Run

`work_validation` takes every job of `MCWorkValidation` through every step, with every
single alteration of its result: status, job, node, units, and each leaf, row and field of
the output.

* `HonestIsAccepted`: what the runner completes the gate accepts, in the worker, the
  executor and the replay, except an echo without a message.
* `AcceptedIsExact`: whatever was returned or edited, an accepted result is of
  the assigned job and node and has the workload's own output, to the type of every
  field but a plain number.
* `CreditFollowsVerdict`: one unit to the cap for accepted results of scored types,
  none otherwise.
* `OutputsMeetReference`: chunks make up the text and cut a word only if they must; a ranking leaves
  out nothing better than it lists; keywords are the most frequent; a vector counts
  every token. The references are stated over the input and share nothing with the
  algorithms but the tokenizer.

**Bounds.** Texts of up to five characters over one or two letters, with chunk sizes up
to three; two documents of up to two words; up to three operands around
`MaxFloat`; records of two fields: 156 thousand states. The boundaries of the code
(limits, caps, split points, empty and blank inputs, ties) all occur. A job that was
replayed or aborted is done, so deadlock is not checked.

**What the code does and no property denies.**

* An integer too large for a float raises `OverflowError`, an unhashable operation or field
  type `TypeError`; neither is caught, so the exception ends the pass over the inbox,
  and does so again at every rerun.
* The gate of `LocalExecutor.execute` runs outside its `try`.
* A replay sets the units of completed reports back before it validates them, so it
  says nothing about the credited units.
* Valid results of hash, basic_compute and schema_transform earn nothing.
* A malformed assignment gets fallback IDs in the worker, but makes the whole replay
  refuse.

### Proofs

`WorkValidationProofs.tla` proves all four properties of the run for every job, payload,
limit and scale. The assumptions are named in the modules and evaluated by the run:

* `WorkAssumption`: what stands for a raised exception is none of the gate's reasons, and no
  node is the one that stands for any.
* `LimitsAssumption`: limits, scales and caps are positive, as the constants of `runner.py` and
  `contribution.py` are.
* `JobsAssumption` (`PayloadOK`): a payload field that a workload reads holds a value of the
  type its model has, or one of the wrong type (`Bad`), or is missing: nothing of what the
  builders check is assumed.
* `DigestAssumption`: a digest is read as a number.

The argument has four parts.

1. `HonestWorkPasses` (`HonestIsAccepted`). `ExpectedFits` shows that what each builder
   returns has the shape of the schema that `validation.py` writes down apart from it
   (`OutputOK`), hence fits it, and a list of leaves equals itself (`OutputFits`). `GateInv`
   carries it through the steps: an unedited report is the runner's result with
   the credited units, so that setting them back, as the replay does, restores it.
2. `AcceptedOutputIsExact` (`AcceptedIsExact`). `ResultInv` says that the output of a
   result stays a record of lists of leaves whatever is altered in it (`LeavesOK`). Two
   leaves the same schema accepts and Python finds equal are the same
   leaf, except where the schema says only number (`EqualLeaves`).
3. `CreditIsCapped` (`CreditFollowsVerdict`). The scorer earns an accepted result nothing
   when its list and its count differ; they never do: the keywords listed are distinct, and
   `chunk_count` and `dimensions` are the lengths of what is listed (`KeywordScore`,
   `ChunkScore`, `EmbedScore`).
4. `OutputsAreRight` (`OutputsMeetReference`). What the builders compute is said once, for
   every payload: `ChunksBuilt` (positions that grow from 0 to the end of the text, each the
   split of the one before, by `SplitRule`), `KeywordsBuilt` and `RetrieveBuilt`
   (the first of an enumeration of all terms or documents in strict order), `EmbedBuilt`.
   The references follow: `ChunksCover`, `KeywordsAreFrequent`, `BestIsKept`, and
   `VectorCounts`, where each token falls into one bucket.

Two things had to be shown that TLC only evaluates. That a sort enumerates: `Ordered`
chooses for each place the element with that many before it, and `InOrder` shows, from a
strict total order (`TextOrder`, `NumberThenText`, `NumberThenId`), that every
element has its own place. And that a recursive function is what its definition says
(`TotalsUnfold`, `ChunksUnfold`, `SameTotals`): an induction over data, which the provers
cannot instantiate, so each argues by the least place where it would fail
(`LeastNumber`, from the well-foundedness of the naturals).

## 10. Timeout and cancellation: SafeExecution

`SafeExecution.tla` models `run_local_job` (`runner.py`) as
`execute_submitted_local_job` calls it. With a timeout the work runs in a spawned process
that puts its result on a multiprocessing queue: a feeder thread writes it to a
pipe of limited capacity, the process exits only when the feeder is done, and the
parent reads only after the process has exited.

| Code | Actions |
| --- | --- |
| cancellation requested, no timeout | `Cancel`, `RunDirectly` |
| spawn, `join(timeout)`, `is_alive`, `terminate`, `join`, `get` | `Spawn`, `Joined`, `CheckAlive`, `Terminate`, `Reap`, `GetEmpty`, `Get` |
| the process: work, feeder, exit | `Work`, `Feed`, `Exit` |
| the deadline; something else kills the process | `Expire`, `Kill` |
| the service's outcome and units | `Record` |

A result is a number of parts, and the pipe holds `PipeSize` of them. Outcomes of the work
are the four the callers tell apart: valid, refused by the gate, malformed, raising.

### Runs

* `execution_controls`: `StoppedIsStopped` (once the call has returned no process works
  for it, a cancelled job never had one, and only a complete result of valid work earns
  units) and `EveryCallRecorded` (the call returns, unless something else killed
  the process in the middle of a write, which leaves the read waiting for ever: `Torn`).
  A pipe of two parts and results of up to three, with one kill and the deadline anywhere.
* `execution_large_result`: with a deadline that leaves the process all the time it can
  use, is finished work ever timed out? Yes: the parent joins before it reads, and a
  result larger than the pipe keeps the process from exiting. In the program
  a text_chunk of 20000 characters in chunks of one and a timeout of 5 seconds is timed out
  after 5 seconds and takes a twentieth of one without a timeout.

**Fairness.** Weak fairness of the parent's and the child's steps, both threads that wait
for nothing but what the model has, and of `Expire`, the clock. `Kill` is not fair. The
call ends in a recorded state without a successor, so deadlock is not checked.

### Proofs

`SafeExecutionProofs.tla`, for pipes and results of any size and any number of kills.
`ExecutionTypeCorrect` and `StoppedStays` (the property `StoppedIsStopped`) come from
`ExecInv`: parts are never multiplied (`Conserved`), what runs follows from where
the parent is (`ChildFits`, `GottenFits`), and a completed status is only there once a
whole result was read (`StatusFits`). Model-checked only: `EveryCallRecorded`, which is
liveness.

## 11. Not modelled

* `lifecycle.py`: nothing but its own unit test imports it; there is no behaviour of
  the program to explore.
* Schemas and manifests (`job_envelope.py`, `expert_manifest.py`,
  `validation_receipt_schema.py`, `capability_record.py` and others), request
  validation, redaction and path boundaries: stateless checks of documents field by field,
  which unit tests reach; in the models a document is well formed or carries a verdict.
* Of the job service: payload files of oversized outputs, the node log, model
  manifests, capability inspection, receipt submission, and the runtime call and peer
  inspection. The HTTP routes and the parsing of the app CLI only call the service.
* Of the flow: the peer, transport and ephemeral variants of run-local-flow,
  malformed input files, version metadata, and two runs over one directory at once, for
  which the code has no provision.
* Of dispatch: peer registry, announcements, and the registry's error paths.
* Of the node: hardware probing (a machine yields a node ID), creator rotation apart
  from the node, pid and lock files (nothing creates them), the read-only status.
* Of the desktop: launchd and Task Scheduler, bootstrap helpers (paths and
  spawning), PATH configuration, windows.
* Version metadata, release update, build and CI scripts: no state of their own, or outside
  the running system.
* Out of the prover's reach, hence checked by TLC only: liveness under fairness.
