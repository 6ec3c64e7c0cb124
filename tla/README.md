# VulnFlow: a verification project

VulnFlow is a vulnerability management service: a FastAPI application over
SQLite that imports scanner reports, keeps one *finding* per vulnerability and
asset, drives its remediation through requests and approvals, and does the slow
work in a durable job queue. Several processes may serve one set of databases.
This directory holds TLA+ specifications of the parts whose correctness
depends on order, timing, failure and concurrency, the TLC models that check
them on small instances, and TLAPS proofs of what holds on all of them.

All paths below are relative to `src/`; `docs/17` stands for
`docs/17_BACKGROUND_JOBS.md`, and so on.

To run: `tlc -config <cfg> <module>` for the pairs in the table of runs, and
`tlapm <module>` for the modules whose names end in `Proofs`.

## 1. The system

### 1.1 Processes, databases, transactions

Every process runs the HTTP application, a number of job workers, a
coordination loop and four scheduler loops in one asyncio event loop; handlers
of jobs run in threads of a pool. The state that processes share is in SQLite
files: the operational database of each project, a control database
(projects, accounts) and a coordination database (instances, leases,
write activities). `app/core/transactions.py` gives every repository function
one `BEGIN IMMEDIATE` transaction, which SQLite serialises with all others on
the same file. This fixes the grain of all the models:

* one write transaction is one action;
* two transactions, a transaction and an HTTP request, or a look at one
  database and a write to another are separate actions, and anything may
  happen in between;
* what a process keeps in memory (a claimed row, a belief of being leader, a
  list of events to send) may be out of date whenever it is used.

### 1.2 Inventory

| Component | State it keeps | Operations | Interacts with |
|---|---|---|---|
| **Job queue** `repositories/job_records.py`, `job_execution.py`, `execution_receipts.py` | `background_jobs`, `execution_receipts`, `execution_replays` | create (with dedupe key), claim (reap expired leases, sweep cancellations, select, take), renew, complete, fail, cancel, retry, replay a receipt, purge | workers; schedulers; operators; retention |
| **Job workers** `services/job_worker_runtime.py`, `job_dispatch.py` | the claimed row, the pending thread, the heartbeat | claim, execute in a thread, renew while waiting, settle; crash, shut down | queue; every job handler; restore barrier |
| **Restore barrier** `services/operation_guard.py`, `routers/exports.py`, `repositories/cluster.py` | the `exclusive:restore` lease with its fencing token, `cluster_write_activities` | register a write, look at the lease, acquire, count jobs and writes, replace the database, release | HTTP writes; workers; schedulers; database lifecycle |
| **Instance registry, scheduler leadership** `services/lifecycle_runtime.py`, `cluster_leadership.py`, `repositories/cluster.py` | `cluster_instances`, the `scheduler:singleton` lease; in memory: is_leader, token | prune, register, acquire, check, stop, deregister | scheduler loops |
| **Scheduled jobs** `services/scheduled_project_jobs.py` | time bucket of a loop | check leadership, create the bucket's job | leadership; queue |
| **Webhook outbox** `repositories/webhook_queue.py`, `webhook_delivery.py`, `services/webhooks.py` | `webhook_events`, receipts; in memory: the batch | enqueue, list due (reap, select, lease), post, record, manual retry, replay, purge | queue (delivery is a job); receivers |
| **Finding workflow** `repositories/finding_workflow.py`, `finding_approvals.py`, `routers/findings.py`, `routers/evidence.py` | `findings.status`, `resolution_state`, `record_state`, `row_version`; verification and risk requests | edit, bulk edit, set record state, request and decide a verification, request and decide a risk acceptance | ingestion; maintenance; campaigns |
| **Ingestion and reconciliation** `repositories/finding_ingestion.py`, `reconciliation.py` | `source_finding_records`, `import_batches`, conflicts and their resolutions | apply a batch (partial or snapshot), reopen, mark missing, resolve conflicts | job workers; workflow |
| **Maintenance and retention** `services/maintenance.py`, `execution_receipt_retention.py`, `idempotency.py` | `maintenance_runs`, receipt archives, `idempotency_records` | reopen expired acceptances, cancel obsolete requests, archive, purge, archive receipts | nearly every table |
| **Collaboration outbox** `repositories/collaboration.py`, `services/collaboration.py` | `collaboration_deliveries`, external issue links | queue, claim, post a mail or an issue, record, link | queue; Jira, SMTP |
| **Audit chain** `repositories/audit.py` | `audit_events` with hashes, checkpoints | append, checkpoint, verify, prune | every writer |
| **Policies, config changes** `repositories/policies.py`, `services/config_changes.py` | policy versions, change requests | create, request, approve, reject, activate, evaluate, promote | scoring |
| **Recovery bundles, database lifecycle** `services/recovery.py`, `recovery_operations.py`, `database_lifecycle.py` | files: backups, bundles, sidecars, mirrors, evidence directories | back up, restore, mirror, drill, prune | restore barrier |
| **Control recovery** `services/control_recovery.py` | bundles of the control database, the safety copy of a restore | make a bundle, restore: copy, merge the registry, put back | control plane |
| **Assets** `repositories/asset_*.py` | assets, identifiers, merge requests, journals of merges | register, merge, roll a merge back | ingestion |
| **Evidence** `services/evidence.py` | files and rows of evidence, a mode per process | upload, hand over, scan, retire, check | verification requests; bundles |
| **Projects, accounts, control plane** `services/projects.py`, `accounts.py`, `storage_layout.py` | projects, members, accounts, sessions; which database is which | create, suspend, log in, revoke; split the old storage | control recovery |
| **Supply chain** `services/sbom.py` | SBOMs, OSV candidates, links to findings, VEX statements | upload, scan, confirm, reject, review, export | ingestion |
| **Integrity proofs, transparency** `services/integrity_proof_*.py`, `proof_*.py` | rotated and revoked keys, checkpoints, witnesses, log, mirrors | register, pin, attest, publish, acknowledge, issue | audit chain |
| **Offline installation** `scripts/offline_deployment_*.py` | the deployed tree and retained ones with seals, audit log, keyring, recovery journal | deploy, roll back, prune, rotate, back up, restore | |
| **External validation** `scripts/external_validation_*.py` | ledger of accepted responses, its checkpoints, copies of these | accept, checkpoint, transfer | |
| **Publication scripts** `scripts/publication_lifecycle.py` | a journal of done steps | stage, check, commit, push, open, merge, verify, resume | GitHub |
| **Storage core, HTTP runtime, scoring, parsing, settings, interface** | schema; requests; pure computation | | |

### 1.3 What is hard in it

* **Leases without stopping.** A worker that loses its lease cannot stop its
  thread; a restore that outlives its lease goes on; a webhook batch outlives
  the lease it was listed under; a suspended leader wakes up and still believes.
  Correctness rests on checks at the end, not on exclusion.
* **Look, then write.** The write barrier, the workers' look at the restore lease, the
  leadership check, the bulk and single edits of findings, the import's
  lookup of its batch are all followed by a separate transaction.
* **Several statements in one operation.** `claim_background_job` reaps,
  sweeps, selects and takes; a row that none of the four statements matches
  would wait for ever.
* **Versions captured.** Verification and risk requests are decided against
  the row version of the finding they were made for. Every other operation
  has to increment it, and has to keep the request table and the finding's own
  columns in agreement.
* **Retention** deletes what other protocols rely on: dead letters, import
  batches, delivered events.
* **Several files, one after the other.** Restores of a bundle, of the control
  database and of the deployment history, activations, splits of the storage and
  publications replace one thing after the other and may be killed between any two.
* **Two reads of one chain.** An audit verification, a proof, a bundle and a checkpoint of
  keys read in several statements what others append to.
* **Approvals that wait.** What was analysed may change before it is decided, and between
  the preparation of a decision and its transaction.
* **Boundaries of time.** A lease is acquirable when `expires_at <= now` and
  active when `expires_at >= now`; jobs expire when `<`, events when `<=`.

The list of hazards in `PROJECT.json` gives each of these at its line, with the
properties that would notice.

### 1.4 What makes each component correct

* Queue: no job is stranded; an accepted cancellation wins; an attempt is
  settled once; one active job per key; the table follows the documented state diagram.
* Workers: whoever settles an attempt is who claimed it; an import is applied once; no overlap while
  renewals are on time; every job ends.
* Barrier: no two restores, no write during a restore, tokens fence.
* Leadership: at most one process passes the check; a leader comes back.
* Outboxes: an event is shared by two callers, or reopened after its delivery, only if its lease
  ran out under a caller; attempts bounded; an issue is made again only for a success that could not
  be recorded or for such a lease; every event ends.
* Findings: decisions are made about the finding that was described; guarded
  edits are legal; the finding agrees with its requests and with its source
  records; nothing that cannot be granted stays.
* Policies, configuration: what is activated is what was analysed and approved.
* Supply chain: a confirmed candidate is tracked by a finding, work on a finding is undone only
  by another confirmation; exports of statements never go back.
* Assets: a row imported again arrives whatever was merged; duplicates have one cause.
* Control plane: sessions are those of active accounts and their passwords; projects survive
  restores; what is served is one generation of both databases.
* Evidence and bundles: no file of a registered evidence is lost; a process that believes
  its store healthy is right; retention leaves a verified copy of what was reported protected.
* Offline installation: the history verifies, a tree that was once verified is not
  the last to go, an interrupted restore can be recovered (it cannot: a finding).
* Audit chain and proofs: nothing is lost silently; an alarm means an overlap; a proof
  is no older than what it says it has seen.
* Ledger, transfer, publication: a request is accepted once; a copy is one chain;
  what is published is what was staged.

## 2. The modules

```
JobLifecycle  <--refined by-- JobQueue  <- JobWorker                           JobQueueProofs
ClusterLease  <- RestoreBarrier                                                AdministrationProofs
              <- SchedulerLeader <- ScheduledJobs                              ContentionProofs
WebhookOutbox          CollaborationOutbox                                     OutboxProofs
FindingWorkflow                                                                FindingWorkflowProofs
PolicyActivation  ConfigChanges  SupplyChain  VexStatements                    ContentionProofs
AssetMerge        ControlPlane      StorageSplit                               AdministrationProofs
EvidenceStore     <- RecoveryBundle        BundleRetention                     RecoveryProofs
DeploymentHistory <- HistoryRecovery                                           RecoveryProofs
AuditChain        <- IntegrityProof        ProofTransparency                   RecordsProofs
AcceptanceLedger     CheckpointTransfer    Publication                         RecordsProofs
```

`<-` is EXTENDS; the module at the right holds the theorems. `NumberLemmas` has what
several of these need of bounded sets of numbers.

The `MC` modules put a system together for TLC. Components that share no state in the
code share none there: a behaviour is about one of them, chosen at the start by a variable that
never changes (`about`, `component`), and the others stay in their
initial states. What TLC explores is the union of the systems, with the states of each
one in full; nothing is lost that the code could do, since such components cannot
disturb each other.

| MC module | Systems |
|---|---|
| `MCJobQueue` | one job, or two that may share a dedupe key |
| `MCAdministration` | a restore (RestoreBarrier), assets (AssetMerge), the control database (ControlPlane), the storage (StorageSplit) |
| `MCContention` | the schedule (ScheduledJobs), the queue (an instance of JobWorker), policies, the configuration, candidates (SupplyChain), statements (VexStatements) |
| `MCProgress` | the queue under its workers (JobWorker), the scheduler (an instance of SchedulerLeader), a finding (FindingWorkflow), all with fairness |
| `MCOutboxes` | webhook, collaboration, with fairness |
| `MCRecords` | a bundle, the directory (BundleRetention), an installation (HistoryRecovery), the audit chain (IntegrityProof), the keys (ProofTransparency), acceptances, a transfer, a publication |

Operators whose names end in `_M` are plausible slips of the code. No
definition uses them; put in place of the operator they stand for they
must break the property named in `PROJECT.json`, which shows that the property
looks at that line.

Conventions: absolute times are replaced by remaining ones that a `Tick`,
`Pass` or `Second` action counts down, so that the state stays finite without
bounding the run. Variables that only a property reads are marked "history". A version
that is only ever compared for equality is replaced by the set of copies that are still
current. A hash stands for what it commits to, so a chain of hashes is a sequence.

### 2.1 JobLifecycle, JobQueue

`JobLifecycle` is the state diagram of `docs/17`: what a client may see of a
job and its count of attempts. `JobQueue` is the table. A row (`Row`) has status,
attempts, cancel_requested, lease owner and remaining lease, remaining delay,
key, priority and creation order; `receipts[j]` is the job's sequence of
execution receipts and `replayed` the replays. Each repository function is one
action (`Create`, `Claim`, `ClaimNothing`, `Heartbeat`, `Complete`, `Fail`,
`RequestCancel`, `Retry`, `Replay`, `Purge`), with one operator per SQL statement
inside it: `Reap`, `Sweep`, `Eligible`, `Before`, `Taken`. `Complete`, `Fail`
and `Heartbeat` may be called by *any* worker about *any* job at any time; the
module assumes no discipline of its callers, so its properties hold for the
table whoever calls it.

Abstracted: payloads, results, progress, error texts; the backoff formula is
"some delay between 1 and MaxDelay" (the policy adds jitter).

### 2.2 JobWorker

Composes the queue with the loops of `job_worker_runtime.py`. `loop[w]` is
where a loop is (`idle`, `exec`, `completing`, `failing`, `dead`) and the attempt it
claimed; `threads` are the handler threads, which survive the loop's interest
in them. `Beat` renews while the thread is awaited, `LoseBeat` is the
renewal that finds the lease gone (or, with `Faults`, the database busy) and abandons the thread,
`Collect` takes the result, `Finish` and `GiveUp` settle. A thread renews, looks
for its effect, commits it, and renews again (`ThreadStep`). Processes die
(`Crash`) or shut down (`Shutdown`, the cancellation of
`LifecycleResourceTracker.stop`). `batches` is the import batch table as far as
`_idempotent_import_result` and the unique index on `source_job_id` need it, and
`PurgeImports` its retention.

That the loops use the table only by its actions is how the module is written, and no property
says so. What is checked is what the table cannot see: it compares worker ids
(`job_execution.py:124`, `:145`), not attempts. `SettledAsClaimed` says that whoever writes a receipt is
nevertheless the loop that claimed this very attempt, although threads of the same worker id
that were abandoned still run and renew the lease of whatever that id owns.

### 2.3 ClusterLease, RestoreBarrier

`ClusterLease` has the operators of one row of `cluster_leases`: `Acquirable`,
`Acquired`, `Released`, `Active`, with both boundary comparisons as in the SQL
and the token that grows only when the owner changes. `RestoreBarrier` has an HTTP write (look, register,
look again, write, deregister), a restore (acquire, count jobs, count writes,
replace, release), the worker and the scheduler (look, then act). Every read
and write of a database is a step. `Reliable` names those who finish within
their TTLs and whose reads of the coordination database succeed: the code
treats a failed read as "no restore" (`operation_guard.py:75-82`), so nothing
can be said of the others except that the tokens tell them apart. The
exclusive lease is never renewed in the code.

### 2.4 SchedulerLeader, ScheduledJobs

One process is one run of the program; two may share an `INSTANCE_ID`.
`coordination_tick` is three transactions (`Prune`, `Register`, `Acquire`) in a
thread, so a process may be stopped or suspended between them; `belief` is the
in-memory `coordination_state`; `CheckLease` and `Compare` are the two halves
of `verify_scheduler_leadership`, which reads the row first and the belief
afterwards. `ScheduledJobs` adds one periodic loop per process and the
bucket's dedupe key. `InTime` (heartbeats on time for the processes in `Prompt`)
and `Timely` (a tick registers and acquires within a second) are the timing assumptions,
used only where a run needs them.

### 2.5 WebhookOutbox

`event[e]` is a row, `letters[e]` the number of its dead letters,
`caller[c]` a running `deliver_due_events`: its batch, the event in hand, the
answer it has. `ListDue` reaps and leases a batch; `Post`, `Answer`, `Record`
go through it one by one; `RecordGone` is the recording that finds the row
deleted and ends the batch; `Abandon` is any other end (an exception, a dead process). Results
are recorded by event id alone, without looking at who sent the event, as in
`webhook_delivery.py:110`.

The lease of a batch runs from its listing and its events are posted one after the other, so it
may run out in any request; with the defaults (50 events of up to 10 s under 120 s, 200 events when an
administrator asks) it does so without anybody being late. So no property assumes that a batch fits. `overrun` (history) collects the
events whose lease ran out while a caller had them, and the properties say that nothing else lets
two callers have one event (`SharedIsOverrun`) or reopens a delivered one (`ReopenedIsOverrun`).

### 2.6 FindingWorkflow

`finding[f]` has the four columns that decide: status, resolution state,
record state, absences, and the days until the exception expires;
`misses[s][f]` is the source record of scanner s; `verification[f]` and
`approval[f]` are the pending requests; `call[c]` is an edit between its look
and its write. `row_version` is not a number: each operation that increments
it marks every copy kept elsewhere as no longer current (`OldRequests`,
`OldCalls`), and a decision or guarded edit requires `current`. This is exact, since
a copied version is only ever compared for equality and versions only grow.
`Import` is `apply_import_batch` in one action, with `SeenBy`, `Reported`, `Reopened` and
`Missing` for the branches of `_refresh_affected_canonical_findings_conn`;
`BeginEdit`/`Edit` and `LookAtBulk`/`WriteBulk` are the two halves of the
handlers; `Maintenance` is the first transaction of `run_maintenance`;
`NewDay` moves the dates.

Left out: the evidence scan that a verification needs before its approval (it
only refuses more), deleting all findings, rows of the OSV and demo importers,
conflicts between sources, owners, notes, due dates.

### 2.7 CollaborationOutbox

`item[e]` is a row of `collaboration_events`, one per dedupe key, `sender[s]` a thread in
`deliver_collaboration_events` with its batch and what it has in hand, `linked` the rows of
`finding_external_links`. `Claim` is `claim_due_collaboration_events` with its reap, `SenderStep` the
loop: post, record, and, for a creation, link in a second transaction; `Announce`
and `QueueCreate` queue, the latter with `requeue_failed`; `Drop` abandons a call wherever it
is. What Jira and the mail server hold is `made`, external; an answer may be lost, or name no issue.

Here, too, leases run out under their senders (`CollabTick` waits for nobody), and results that come late
overwrite what the row has become. `owed` counts successes that were not recorded, `late` leases
that ran out under their sender; each justifies one repetition and nothing else does
(`IssuesOwed`). `leased` says who has which event under a lease that is unbroken: neither did it run out nor
did a late result end it.

### 2.8 PolicyActivation, ConfigChanges

A policy is requested against a fingerprint of the findings, prepared by an approver and
written in a later transaction, beside imports, edits, archiving and rescorings
(`ReadFindings`, `ReadPolicy`, `UpdateScores` are the three steps of a rescoring). Row
versions are kept as "changed since" sets. `ConfigChanges` has baselines as a sequence whose last
is the active one; `Collect` is the handler's look at the running configuration, which
`Draft`, `CreateBaseline` and `Promote` use later.

### 2.9 SupplyChain, VexStatements

`SupplyChain` has one attempt of a scan job per `attempt[t]`, from the look-up of its run to
its record, with the answer of OSV in between, and a person's decision as two
transactions: `WriteFinding` rewrites the finding through `upsert_findings`, `ConfirmMatch` the
match and the link. `Rename` is OSV changing the CVE alias of a record (external).
`VexStatements` has uploads that look the digest up and store later, and revisions of a
statement with their review; an export takes the newest approved one.

### 2.10 AssetMerge

`Import` resolves a scanner row by its identifier to an asset and to the finding of the row,
through `record`; `Inventory` edits an asset; requests, merges and rollbacks move `finding`,
`record` and `owner` and keep a journal (`merges`). The code merges one finding after the other;
`Taker` says which finding each of them ends in, `MergedFinding` and `MergedRecord` what becomes of each row.
A rollback is refused when anything in its scope changed. Left out: identities that resolve by score, conflicts of authoritative identifiers.

### 2.11 ControlPlane, StorageSplit

`ControlPlane` has the accounts (`CreateUser` ... `EndSession`), the login in two transactions
(`CheckPassword`, `OpenSession`), the project as a registration, a store and an undoing when the store
fails, and the restore as copy, merge, end or failure, with kills. `StorageSplit` is
`prepare_split_storage`, a step per file operation or transaction that a killed process
leaves behind; two starters, one at a time preparing (`docs/50` stops the service for
it), both possibly serving.

### 2.12 EvidenceStore, RecoveryBundle, BundleRetention

`EvidenceStore` has rows with the length of their custody chains, files, and a mode in every
process, which a check sets that reads rows, files and chains one after the other.
`RecoveryBundle` adds the bundle (`Snapshot`, `ReadManifest`, `Publish`) and
the restore, eight stages of moving, placing, backing up, swapping, verifying, and their
undoing; `Crash` leaves what is on disk. `BundleRetention` is the backup job up to its external
copy and sidecar, with both prunings; orders of names stand for modification times.

### 2.13 DeploymentHistory, HistoryRecovery

One command runs at a time (the deployment lock) and `op` says which and how far; every file it replaces
is a step. `DeploymentHistory` has deployment, rollback, adoption, pruning, key rotation,
backup and restore of the keyring; `HistoryRecovery` adds receipts, bundles, the journal
of a restore, deaths anywhere (`Killed`), writes that fail, torn or lost, and damage by the
storage. `damaged` and `cut` (history) remember that the storage damaged a file, and that a
restore of the keyring died between installation and check, until a command ends well. A line
that broke off is `Torn`, and `Whole` is the log without it. A seal is the key it was made with, a line's authentication the key in force when it was written.

### 2.14 AuditChain, IntegrityProof, ProofTransparency

`AuditChain` appends in the transactions of the writers (`Act`), checkpoints, prunes in one
of the transactions of a maintenance run that may end anywhere, under a clock that may be put back.
`IntegrityProof` reads it in several statements, as the audit view does, and as the maker of
a proof does, which appends a checkpoint of its own in between. `ProofTransparency` has the eight
lists a proof carries, each extended by its own operations and read by itself.

### 2.15 AcceptanceLedger, CheckpointTransfer, Publication

The first two are directories of numbered files written under a temporary name and
published by a hard link that fails if the number is taken: `WriteTemporary`, `LinkReceipt`,
`RemoveTemporary` are the system calls, `Kill` may come between any two. `RollBack` is storage put
back to an older state. `Publication` has one disjunct per step of the lifecycle, its entry in the journal written
after it; `Edit`, `TakeBack`, `OtherPush`, `OtherMerge`, `OtherClose` and `Workflow` are what the operator and GitHub do meanwhile.

## 3. The runs

Proved properties (section 4) are in italics.

| Run | Module, cfg | Properties | Question |
|---|---|---|---|
| `queue` | MCJobQueue, JobQueue.cfg | *NoStrandedJob*, *CancelHonoured*, *ImplementsLifecycle* | Does the table keep its promises whatever workers and operators do, and follow the documented diagram? |
| `progress` | MCProgress, Progress.cfg | *ImportAppliedOnce*, *SettledAsClaimed*, EverySubmittedJobSettles, LeaderReturns, *VerifiedAsRequested*, *AcceptedAsRequested*, *GuardedEditIsLegal*, AcceptancesSettle | What survives when no renewal is on time, the database fails, a process dies and its threads run on? Do jobs end? Is there a leader again after one stops or dies? Do decisions, edits, imports and maintenance, in every order, agree? |
| `contention` | MCContention, Contention.cfg | *OneLeader*, *NoOverlap*, *AppliedIsGoverned*, *ActivatedAsAnalysed*, *ConfirmedIsTracked*, *ExportsAreOrdered* | Is there one leader of one instance id, one thread per job, and are decisions about what was analysed? |
| `restore` | MCAdministration, Restore.cfg | *NoWriteDuringRestore*, *KnownRowsArrive*, *TwinsWereMoved*, *AccessIsCurrent*, *RegistrySurvives*, *ServedIsSplit* | Do restores exclude writes; do rows arrive after merges; does access survive restores of the control database; what is served after killed splits? |
| `outboxes` | MCOutboxes, Outboxes.cfg | *SharedIsOverrun*, *IssuesOwed*, *ReopenedIsOverrun*, EveryEventSettles, EveryItemSettles | By what is anything sent twice or reopened, when leases run out anywhere? Does everything end? |
| `records` | MCRecords, Records.cfg | *HealthyIsConsistent*, *EvidenceKept*, *ProtectedStays*, *HistoryVerifies*, *TreeKept*, *ChainWhole*, *AlarmIsOverlap*, *AcceptedOnce*, *ReplicaIsOneChain*, *PublishedAsStaged*, *ProofIsFresh*, *ProofIsWitnessed* | Is what is kept still there, and is what is believed of it true, after any death, failure and overlap? |
| `restore_jobs` | MCAdministration, RestoreJobs.cfg | NoJobDuringRestore | Do workers stay idle during a restore? **No** (finding) |
| `control_role` | MCAdministration, ControlRole.cfg | ControlHasItsRole | Has the control database its role on a new installation? **No** (finding) |
| `recovery_valid` | MCRecords, RecoveryValid.cfg | CompletedIsValid | Is a completed bundle valid? **Not always** (finding) |
| `interrupted` | MCRecords, Interrupted.cfg | InterruptedRecovers | Is an interrupted restore of the history recovered? **Not always** (finding) |
| `overrun` | MCOutboxes, Overrun.cfg | NoConcurrentDelivery | Is an event sent by one caller at a time when nobody is late? **No** (finding) |
| `stale_registry` | MCRecords, StaleRegistry.cfg | HigherIsNewer | Does a higher checkpoint of keys pin a newer registry? **Not always** (finding) |

### 3.1 Bounds, and why they are enough

* **Queue.** Rows interact in two places only, the claim's choice of one row and
  the dedupe index; hence one job for everything about attempts and two for
  the key. Two attempts are the least at which a reclaim exists, two workers
  the least at which a call can be late, `MaxRuns = 2` lets a job be retried
  after a retry. Lease 1 reaches both sides of the expiry comparison.
* **Workers.** One job: an abandoned thread and its loop's next claim of the
  same job is the hard case. In `contention` the lease is 2 and every worker renews in time; a
  worker that may be late is in `progress`. `NoOverlap` is checked without operator retries
  (`MaxRuns = 0`); `WorkerNoOverlap` has any number of them, any lease and any interval.
* **Barrier.** Lease 2 is the shortest in which a restore can act in time.
  `MaxToken = 2` lets the lease change hands once, which is a late restore
  beside a timely one (`i1` is reliable, `i3` is not).
* **Leadership.** Lease and instance TTL of 1 or 2 seconds reach before, at and
  after both boundaries. Both processes have one id in `contention` (the hard
  case), two in `progress`. `MaxToken` bounds changes of the owner, and
  `LastFault` the tokens under which ticks fail (so that a run that must find
  a leader is not a run of failures only).
* **Outboxes.** Two events are the least at which the second waits for the
  first, and its lease runs out under the caller that has both; two attempts the least with a
  retry; one lost batch, one manual retry, one requeue, one death. A behaviour of `outboxes`
  has two callers of one event or one caller of two, and likewise for senders: two of them meet in one row
  only, so a second event adds the waiting, which the second kind has. `overrun` has two callers and two events, and none
  of the faults.
* **Findings.** The actions of several findings touch separate rows; they meet
  only in bulk edits and snapshots, whose effect on each row is independent of
  the others. Two scanners are the least at which one sees what the other
  misses. Threshold 2 (the default of `VERIFICATION_ABSENCE_SCANS`) is
  reached. `ExpiryDays = 0` has requests that expire at the next midnight; a longer one only
  adds days in which nothing changes.
* **Governance, supply chain.** Two policies (an activation needs a predecessor), two
  findings (one scored before, one after the other changes), two changes whose baselines may be each
  other's base, three baselines; two attempts and two people on two candidates whose CVEs may
  coincide, three decisions or renamings (confirm, rename, confirm again).
* **Assets.** Three machines give a merge of a merge, four rows a vulnerability both have
  and one only one has; two merges, five imports and edits.
* **Control plane, storage.** Two administrators (one must remain), one other user, one project,
  one browser; four changes between bundle and restore, and one restart. Two starters, two
  directories (killed between them), two kills, two writes.
* **Bundles.** Two evidences tell a lost one from a stale directory, one death at any of
  the stages, one restore; five backup jobs, two at a time, with retention of 3 = workers + losses, at
  which the bound in `ProtectedStays` is met exactly.
* **Installation.** Four commands, one death, one damage, three trees: activate, replace,
  prune, and one more. Records of `TreeKept` need the death; the proof has any number. `MaxLines = 20`
  is beyond what four commands write: in the run the verifier's limit on lines
  is not reached, in the theorem it is.
* **Audit chain.** Four events, one checkpoint, a clock with two values (back and forth).
* **Scripts.** Two acceptors with two requests, one checkpointer, one rollback; two installers with
  bundles of up to three generations with two marks per generation, so that branches differ;
  three runs of a publication, two edits, two steps of others.
* **Keys.** One change of keys, two pins, two witnesses, two publications' worth of
  lists: each list can be read before and after it grew.

Deadlock is checked in every run; where all commands within a bound are over, `AllEnded` in the
MC module stutters and names the case. The longest run takes about three minutes on two cores.

### 3.2 Fairness, and why the code justifies it

* `JobWorker`: weak fairness of every loop (an asyncio task in a `while` loop), of `Collect`
  (`asyncio.wait` returns once the thread has ended), of threads, and of the
  clock. Nothing is assumed of clients, of operators, of retention, or that faults end: the lease
  and the attempt limit end the job. A mortal worker's loop simply has no step left.
* `SchedulerLeader`: weak fairness of the coordination loop and of checks begun;
  strong fairness of `Second`, since a loop that works within one second could
  otherwise disable it for ever and real time does not stop. Starting, stopping,
  dying and failing are never required.
* `WebhookOutbox`: the delivery job is produced for ever (weak fairness of
  `ListDue`), a call that began goes on unless abandoned, time passes
  (strong, for the same reason). `MaxLosses` bounds the batches abandoned:
  somebody who kills every delivery does prevent delivery.
* Liveness is stated as []<> of "it has ended", "there is a leader": what waits does not wait for
  ever. No state of waiting can be left for the initial one, so this is what leads-to would say.
* `CollaborationOutbox`: the same, with `Claim`, `SenderStep`, `CollabTick` and `MaxDeaths`.
* `FindingWorkflow`: weak fairness of `Maintain` only, which the scheduler
  produces every interval. No user ever has to act.

### 3.3 Where code and documents differ

Six disagreements are runs of their own:

* `restore_jobs`: a worker that looked at the lease before it was acquired claims a
  job after the jobs were counted, and runs it while the database is replaced.
  HTTP writes look twice, workers and schedulers once. `docs/19:74` says they
  run nothing.
* `recovery_valid`: a custody event between the snapshot of the database and the
  reading of the evidence rows (`recovery.py:682`) gives a completed bundle that validation
  refuses; `docs/44:10` says it is validated while it is created.
* `interrupted`: a restore of the deployment history that dies after writing its
  journal, when the pair it replaces was damaged, leaves a journal no later attempt accepts
  (`offline_deployment_recovery.py:1283`), against `docs/101:66`.
* `control_role`: a new installation's control database has the role `project-data`
  (`storage_layout.py:267`), against `docs/50:27`, so it cannot make control recovery bundles.
* `overrun`: the lease of a batch runs from its listing (`webhook_delivery.py:36`), its events are posted one after
  the other and nothing looks at the lease again. The defaults cover twelve requests of fifty, so the later ones expire in the hands of
  a caller that does all it should, and the next caller posts them at the same time; the docstring at line 22 says "without
  delivering the same row concurrently in normal operation".
* `stale_registry`: the registry of keys is read before the transaction that numbers the checkpoint
  (`proof_checkpoint.py:76-82`), and nothing compares it with the checkpoint before. Two processes can number an older registry after a
  newer one; a proof that read the registry before the change and the checkpoints after agrees with the newest,
  and a verifier that wants a minimum sequence accepts it without the revocation. The docstring at lines 5-9 promises that such a
  verifier detects stale registries. `ProofIsFresh` excepts a checkpoint that raced, and says that nothing else does this.

Others were met while reading or proving, and are noted here by component.

*Queue, workers, schedulers.*

* `docs/17:38` promises that an import job run again finds its batch.
  `maintenance.py:151` deletes old batches while the failed job may still be
  retried: `PurgeImports`, then `Retry`. Hence `MaxRuns = 0` in `progress` and the hypothesis
  of `WorkerImportAppliedOnce`.
* `docs/17:100` speaks of a receipt for every ended attempt; the reap at
  `job_execution.py:31` ends an attempt without one.
* `docs/19:39` lets an id be taken over only after it went stale. A suspended process
  whose id was taken over and that is then stopped deregisters the row of its
  successor (`cluster.py:105` looks at the id only), after which a third process may enter at once.
  With three processes of one id this makes two leaders, which is why `AtMostOneLeader` assumes `Orderly`.
* `docs/17:68` promises one scheduled job per time bucket. The key protects only
  while the job is active; two leaders of one bucket may each create one.

*Outboxes.*

* `docs/15:8` draws DELIVERED as an end; a late result may set a delivered event back to RETRY
  (`webhook_delivery.py:110`), and its receiver gets it once more. `ReopenedIsOverrun` says only a caller that outlived its
  lease does this.
* Collaboration leases have the same shape (`collaboration.py:221`, 50 events of up to 10 s under 120 s): a
  finding may get a second Jira issue for every lease that runs out under its sender. `IssuesOwed` counts them (`late`).
* A call that dies between the record of a created issue and its link loses the link for good
  (`services/collaboration.py:434`): the event is DELIVERED and never taken up again. `orphans` counts these.
* An answer of Jira without an issue key is recorded as delivered and never linked.

*Findings, assets.*

* `docs/23:26-28`: reopening a verified finding leaves it REOPENED. A bulk edit or
  campaign changes only the status, so an OPEN finding may still read VERIFIED.
* `docs/23:5` and the comment at `finding_workflow.py:105` say that CLOSED is reached by
  verification only; new rows of an import may be CLOSED or RISK_ACCEPTED at once
  (`request_processing.py`).
* `docs/23` has the absence threshold configurable; `update_workflow` compares
  with a hard-coded 2 (`ManualThreshold` in the model).
* A verification request that became stale can be neither decided nor replaced
  until somebody sets the finding to OPEN or IN_PROGRESS or a scanner reports it
  again; maintenance cancels stale risk requests but not these. This is why
  `AcceptancesSettle` is about acceptances.
* Campaigns change the status of ARCHIVED findings, and granting a risk
  request does not consult `STATUS_TRANSITIONS` (`docs/05` section 4).
* A merge onto an archived finding of the same key, unarchived later, makes two live findings
  of one key (`docs/29:5`); `TwinsWereMoved` says it is the only cause. A row identified only
  by host name is refused after a merge or makes new findings on the RETIRED asset; an inventory import
  reactivates a merged asset and leaves `merged_into` set; `docs/30` says a merge
  cannot be undone although rollback exists (`docs/32`).

*Governance, supply chain.*

* `Prepare` compares the fingerprint of all findings, `Approve` a transaction later only those scored:
  a policy may become active over other data than its fingerprint says
  (`docs/10:55` promises a 409), though over the same rows.
* Rejecting a configuration change also needs its baseline and its window, so a pending request against a retired
  baseline can never be decided; `CANCELLED` is never set.
* Confirming an OSV match again rewrites the finding whole, work included, without an audit
  event of the finding; a confirmed match whose CVE OSV renamed keeps the old finding and cannot be
  confirmed again without a rejection; rejecting a confirmed match leaves finding
  and link; a late failing attempt marks a SUCCEEDED scan FAILED. The version of an exported VEX document
  does not identify its content, though exports never go back.

*Control plane, storage.*

* A restore of the control database killed between copy and merge and run again loses memberships,
  and turns inactive projects ACTIVE: `RegistrySurvives` leaves it out by name (`kept`). A login opens a session
  with a password that changed between its two transactions. A bundle made while a project is
  being made may register a project without a store.
* Directories of the old layout are copied only by the process that splits: killed
  after it made the default database, they are never copied (`docs/50:14`). `ServedIsSplit` says so by `cut`. Losing
  `control.db` while the old file is kept resets the default project to its old generation at the next
  start. Two processes preparing at once are outside the model (`docs/50:7` stops the service).

*Evidence and bundles.*

* A check of the store beside an upload may find a false mismatch and set the process
  READ_ONLY; an export is not behind the restore barrier. `HealthyIsConsistent` is about the other
  direction, a process that believes its store healthy, and excludes checks that a death
  or a restore overlapped (`doubt`).
* A bundle's external retention protects what it reported only if `RemoteKeep >= Workers + MaxLosses`:
  unverified copies of workers that are under way or died count against it.

*Offline installation.*

* Two deaths (a deployment leaves an unverified tree, a rollback or adoption follows) can leave only a sealed tree where a
  verified one was: `TreeKept` is "verified or sealed". `HistoryVerifies` holds up to `MAX_AUDIT_EVENTS` lines: the line beyond is written and then
  refused.
* A command killed, or a disk full, while a line is written leaves the log with a line that
  broke off (`offline_deployment_audit.py:234`): every later command refuses it until somebody cuts the line off or a bundle is restored. `HistoryVerifies` says
  that what is left without it verifies.
* `docs/97:85-87` and a comment of `_bootstrap.py` say retention after a commit never rolls back; the line
  "deployment_activated" after pruning is in the same `try` (`offline_deployment_bootstrap.py:961-977`).
* `history.py:528` says "atomically reseal"; a death between keyring and reseal leaves the old seal.
  A death in restore-keyring between installation and check leaves a keyring nobody checked, without a journal (`history.py:493`):
  `HistoryVerifies` excepts it by name (`cut`), until a command ends well. Only restore
  and preflight look for a pending journal, so events written after an interrupted restore are
  lost when it is recovered. Rotation of the journal key has its own gap (`recovery.py:778-810`).

*Audit chain, proofs, scripts.*

* A proof is issued and signed although an event was written between its checkpoint and its
  reads; its verifier refuses it. Audit verification raises false alarms for the same reason. `AlarmIsOverlap`
  says exactly when. A checkpoint may pin an older registry than an earlier one; a witness that attests after publication
  ends all proofs until a key changes; an empty witness list is not compared with the log.
* An acceptance is confirmed although its receipt was lost meanwhile: only the number of receipts is
  compared (`external_validation_acceptance.py:671-678`). A killed command leaves a temporary file in the
  verified directory, which every later verification refuses, against `docs/116` ("can safely resume").
* `apply` of a publication always reruns the preflight, which refuses a clean tree and a moved
  base: a run interrupted after commit or merge never resumes, against `docs/133` ("Re-running the same contract
  can resume proven completed steps").

## 4. The proofs

`tlapm` checks the seven `Proofs` modules and `NumberLemmas` to the last leaf, for every value of
the constants that satisfies the named assumption of each module (`QueueAssumption`,
`LedgerAssumption`, ...), which say no more than that limits and durations are natural
numbers, that some of them are not zero, and that the extra values (`NoWorker`,
`Nobody`, ...) are none of the real ones. Each follows the same line: an inductive
invariant, a conjunction of named parts; a lemma per action, or per group of actions that
disturb the same parts; one temporal step at the end.

Of the forty properties the passing runs check, all the safety properties are theorems. Where a theorem needs more than the module's assumption it is a
hypothesis of the statement:

| Theorem | Hypothesis | Why |
|---|---|---|
| `WorkerImportAppliedOnce` | `~ImportsAge \/ MaxRuns = 0` | retention and a retry apply an import twice (3.3) |
| `WorkerNoOverlap` | `Timely`, `~Faults`, `Mortal = {}` | the thread of a worker that is late or was shut down runs on |
| `AtMostOneLeader` | `Timely`, `LeaseTTL <= InstanceTTL` (the defaults are 30 and 30), `[][Orderly]` | see `docs/19:39` in 3.3; with two processes of one id `Orderly` is not needed, and the run does not assume it |

### 4.1 JobQueueProofs

`QueueTypeOK`, `QueueNoStrandedJob`, `QueueCancelHonoured`, `QueueOneReceiptPerAttempt`,
`QueueOneActivePerKey`, all from `QueueInv`. `RowOK` is an invariant of single rows, kept by every row update of every
statement: a waiting job has attempts left and no cancellation pending only because
the reap and the sweep of one claim leave it so together. `OneReceiptPerAttempt`
is not inductive: a receipt about an attempt that still runs would allow a
second one. `ReceiptsBehind` excludes it: every worker's receipt is about an
attempt that is over.

`QueueImplementsLifecycle`: what one statement may do to a row (`RowStep`) is, for each
job, a step of the diagram or a stutter. `WorkerSettledAsClaimed` (`MatchInv`): the table would let a worker settle whatever its id
owns. If the row of a loop's job is RUNNING under the loop's id, it is the attempt the loop
claimed: attempts and runs only go on (`AttemptsGoOn`), and the id gets the job again by a claim of that very
loop, which makes none while it works (`MatchStays`, `MatchTake`); abandoned threads renew, but renewing
moves no attempt. `WorkerImportAppliedOnce` (`OnceInv`): an import with a committed effect has its batch, at which
threads that looked before it was there are stopped by the unique index, or it was settled for good and nobody
works for it any more.
`WorkerNoOverlap` (`LeaseInv`): the age of a loop's last renewal is bounded by what its
lease has left, so the attempt it executes is still the row's.

### 4.2 AdministrationProofs

* `RestoreTokensFence` needs only `TokenInv` (no restore has a token beyond the row's), and no
  timing. `RestoreAlone` adds `HolderInv`: a restore that keeps to its TTL has the unexpired lease while in its
  exclusive part. `RestoreExcludesWrites` adds `WriterInv`: a request past its
  registration still has an activity row, which a later count sees; one
  registered after the count sees the lease at its second look.
* `SplitServed`: `SplitInv` says for every place the preparing process can be at what
  the files are (`PlaceOK`, `StrippedOK`, `CopiesOK`) and that it is alone (`Alone`); a kill leaves a state from which
  the next start takes up the same path.
* `RowsArrive`, `TwinsComeFromMerges`, from `MergeInv`. That a record has its finding under its key (`RowsOK`) and
  that twins were moved together (`TwinsOK`) says nothing of a merge that is taken back: its journal writes rows back
  that were right when it was made. So `JournalsOK` says of each journal what `RowsOK` says of the tables (what it
  found was consistent in itself), `BetweenOK` what a later merge found of the names an earlier one moved, and
  `OpenOK`, of merges not taken back yet, what row versions give away: a target at the version the merge left has the
  names that were moved to it, and the records of these names have findings in the scope only (`NamesStay`); a
  source at that version has no finding (`SourceIsEmpty`). A rollback needs both assets at those versions, hence
  finds its scope closed, and no other merge that could be taken back loses this by it: for a later one, the
  source is none of its assets (`SourceUntouched`).
* `AccessStaysCurrent`, `RegistryKept`: `AccessInv` and `RegistryInv` hold of the database, of the
  bundle and of the safety copy a restore keeps, since any of them may become the database again.

### 4.3 ContentionProofs

* `LeaderFencedAcrossIds` from `IssuedInv`: a remembered token is at most the row's, belongs to the row's holder if it is equal, and
  was issued to one id only. No timing is used. `AtMostOneLeader` from `OwnerInv`, which relates the
  registry's process, the lease and the belief in the second of a tick: who believes and passes the check is the process the
  registry has for the id that owns the lease. `SchedulesFollowLeaders`: the scheduled loops change nothing of
  it.
* `ConfigApplied` (`ConfigInv`), `PolicyActivated` and `PolicyPending` (`PolicyInv`): an approval knows, of every finding it scored,
  that it is as analysed or recorded as changed; approving withdraws the other requests in the same transaction.
* `ConfirmedStaysTracked`, `ReopenedOnlyRepeated` (`SupplyInv`): a confirmed match has its finding and its
  link; as long as nothing was renamed, the first confirmation of a CVE is one person's, who read the match
  before there was a finding. `ExportsNeverGoBack` (`VexInv`): approval is for
  ever, so the newest approved revision of a pair only grows.
* `OneThreadPerJob`: `MCContention` composes an instance of `JobWorker` with these modules; instance and proof are
  shown to be of the same workers (`SameWorkers`), and `WorkerNoOverlap` gives the rest.

### 4.4 OutboxProofs

All without timing, for leases, batches and callers of any size and slowness.

* `OutboxTyped`; `OutboxSentWithinLimit`; `OutboxSharedIsOverrun` and `OutboxReopenedIsOverrun`, from
  `SingleInv`: who has an event whose lease did not run out is the only one that has it, and its
  row is SENDING; a lease that runs out under a caller is in `overrun` before a reap can see it.
* `OwedOnly`: what was made of an event is at most one more than what is owed and the leases that
  ran out under a sender. By `LeaseInv` a sender whose lease is unbroken (`leased`) is alone with
  the event, and the row is SENDING; by `CountInv` every other that still has it is paid for by a
  lease that ran out, until it has sent. `LinksFollow`: a delivered creation without a link is in
  `orphans` or about to be linked.

### 4.5 FindingWorkflowProofs

Typing, the three invariants of the run, and two more that refine them: a finding shown as
PENDING has a pending request, and its absences are those of the source that missed it least. `WorkflowInv` is their
conjunction with `KnownFirst`: a finding is known before any source record, request or call
refers to it. `AbsencesAgree` needs that the minimum over the sources exists
(`MinIsLeast`, from the well-foundedness of < on the naturals), of a set that is not
empty because absences are recomputed only for findings the reporting source knows.

### 4.6 RecordsProofs

* `AuditWhole` (`AuditInv`): the pruned rows are a prefix of the chain, since pruning stops at the first
  row it may not take. `AlarmsAreOverlaps` (`ProofInv`, `ReaderInv`): what a reader has is, until disturbed, what it would read now; once
  disturbed, the head or the checkpoint it read is behind the rows, and the comparison shows it.
* `ProofsAreFresh`, `ProofsAreWitnessed` (`TransparencyInv`): lists only grow, so what was read earlier is a prefix of what is
  read later; a checkpoint pins the registry that was read before its number was taken.
* `RequestsAcceptedOnce` (`LedgerInv`): each receipt names the one before it, so the head of a checkpoint
  fixes all it vouches for, and a confirmed acceptance whose receipt was not lost stands on what its checkpoint vouched for. `ReplicaStaysOneChain` (`TransferInv`): each published file agrees with the chain
  the installer looked at. `StagedIsPublished` (`PublicationInv`): each journal entry binds the content of the next step.

### 4.7 RecoveryProofs

* `FilesAreKept`, `HealthyStaysConsistent` and `RestoresRepair` (`RecoveryInv`): for each stage of a restore, where the files of the live
  rows and of the safety backup are, also when a process dies at that stage; and that a check nothing disturbed has seen
  enough for its verdict to stay true but for uploads under way.
* `ProtectedBackupStays` (`RetentionInv`): the orders have no name twice (`OrderOK`); every copy without a sidecar
  belongs to a worker under way or to one that was lost (`UnlistedOK`), so there are at most `Workers + MaxLosses` (`CountsOK`), and the
  newest `RemoteKeep` contain a verified one at least as recent as any reported.
* `HistoryStaysVerified`, `TreesAreKept` (`HistoryInv`): per step of each command, which of keyring, copy and journal
  authenticates which log up to a torn line (`FilesOK`, `LogOK`, `RotationOK`), unless `damaged` or `cut`, and which trees are verified or sealed (`TreesOK`, `KeptInv` with
  `PhaseOK`, `SwapOK`, `RemovalOK`). A lemma per command and per step of it; the longest proof of the project.

### 4.8 NumberLemmas

A bounded, non-empty set of numbers has a greatest element, and `Max` is it; every one has a least. There is no induction over data in the
prover, so `GreatestNumber` is proved from the well-foundedness of strict inclusion between finite sets.

### 4.9 Only model-checked

* Liveness: `EverySubmittedJobSettles`, `LeaderReturns`, `EveryEventSettles`, `EveryItemSettles`, `AcceptancesSettle`;
  fairness and ENABLED are out of the prover's reach.
* The six properties that are violated.

## 5. Not modelled

Each component's note in `PROJECT.json` says what is left out of it. In short:

* Request parsing and rendering, scoring, parsers, reports, settings: sequential computation and wiring.
* Inside modelled components: formats, texts, wording of errors, payloads,
  signatures, listing queries, several projects in one process (each has its own
  database and runs the same code), SQLite itself (a transaction that fails
  leaves no trace and is not a step, except where a caller reacts to it).
* The release orchestrator, building and checking of release kits, the exchange of validation documents, migrations
  between versions of the schema, identities that resolve by score, contents of receipt archives, idempotency
  records, the limiter of failed logins, the key of the recovery journal.

## 6. Plan

1. Action properties that the invariants already carry: rows of the queue that are final stay
   so; a fenced lease never loses its token; a retained tree changes only by commands.
2. **RecoveryBundle with RestoreBarrier**: the barrier as the environment of the bundle's restore, so that "one restore
   at a time" is a theorem about both rather than an assumption of the second.
3. One abstract at-least-once outbox that both outboxes implement.
4. Modules not begun: idempotency records and receipt archives, identity candidates and their reviews, the
   release orchestrator.
