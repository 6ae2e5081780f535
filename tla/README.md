# Metnos: TLA+ models of the durable workload engine and of what surrounds it

Metnos is a personal assistant that plans with language models and acts through
deterministic executors. This directory holds a TLA+ development of the part of it
that promises the most and is the hardest to test: the *durable workload engine*
(`src/runtime/durable_workloads/`). A durable workload is a plan an owner has admitted
once and that the system then carries out on its own, over hours, with several worker
lanes, restarts, language models that do not answer, and an owner who pauses, cancels,
resumes and decides what to do when something needs attention. Around it are modelled
the way a request becomes such a workload, the owner's command interface, the scratch
workspaces, the scheduler that delivers periodic requests, and the pool that admits
interactive turns.

| file | what it is |
| --- | --- |
| `DurableWorkload.tla` | the store's transactions, the workers, the owner, the clock |
| `DurableWorkloadProofs.tla` | its types, lease fencing and bounds, provenance and finality of results, retry budgets and the meaning of the workload's states, proved with TLAPS |
| `NoticeOnce.tla` | what the notification outbox promises, as an abstract specification |
| `DurableOutbox.tla` | the outbox table, the senders and the provider |
| `DurableOutboxProofs.tla` | its invariants and that it implements `NoticeOnce`, proved with TLAPS |
| `DurableStages.tla` | materialisation of later stages and of reduction trees behind a saved cursor |
| `DurableStagesProofs.tla` | one unit for each candidate, the bounds of reductions and the leaves of their roots, proved with TLAPS |
| `DurableSubmission.tla` | request keys, coalescing, locks and the draft-admit-queue sequence |
| `DurableSubmissionProofs.tla` | its invariants and the feature gate, proved with TLAPS |
| `DurableControl.tla` | owner commands with versions and idempotency keys |
| `DurableControlProofs.tla` | all its properties, proved with TLAPS |
| `TemporaryStorage.tla` | workspaces of attempts and their cleaner |
| `TemporaryStorageProofs.tla` | its safety, proved with TLAPS |
| `SchedulerV2.tla` | the scheduler's loop, its fires and its clients |
| `SchedulerV2Proofs.tla` | its safety, proved with TLAPS |
| `HttpTurnPool.tla` | admission of blocking turns, their threads and their permits |
| `HttpTurnPoolProofs.tla` | its safety, proved with TLAPS |
| `MC*.tla`, `MC*.cfg` | small instances for TLC |
| `PROJECT.json` | components, runs, mutants, the map from definitions to source lines, findings, hazards, theorems |

## 1. Inventory

### 1.1 The durable engine

**Store** (`storage.py`, SQLite in WAL mode). State: `workloads` (state, version),
`revisions` (frozen plan, budgets, `manual_retry_generation`, `clock_high_water_at`),
`revision_usage` (wall time, tokens, whether usage is complete), `units` (state,
`active_attempt_id`, `lease_worker_id`, `lease_expires_at`, `attempt_count`,
`manual_retry_tokens`, `manual_retry_generation`, `next_attempt_at`, `error_class`), `attempts`
(one row per claim, with a fencing number), `results`, `events`, `outbox`,
`stage_cursors`. Each method is one `BEGIN IMMEDIATE` transaction. Operations:
`submit_candidate`, `claim_next`, `mark_running`, `heartbeat`, `commit_result`,
`fail_attempt`, `abandon_attempt`, `reconcile_expired`, `settle_workloads`,
`complete_ready_workloads`/`evaluate_completion`, `pause`/`resume`/`cancel`,
`record_attention_resolution`, `materialize_*`, the outbox methods.
Correct when: a row is in one worker's hands at most; a result is written once, by the
newest attempt, under a valid lease; the workload state never contradicts the units;
no side effect is repeated without the authority to repeat it; nothing waits for the
owner unseen.

**Worker** (`worker.py`). State: the lease it holds, the wall-clock and monotonic
deadlines of the execution, a stop flag, and a *heartbeat thread* that renews the lease
while the adapter runs and raises a "lease lost" flag when it cannot. Between its store
calls the worker holds no lock at all.

**Execution bridge** (`execution.py`) and **service** (`service.py`, `recovery.py`).
One cycle reconciles expired leases, settles control requests, materialises ready
stages, completes ready workloads, then claims and runs. A supervisor restarts lanes.

**Control** (`control.py`, `admission.py`). Owner commands with an expected version and
an idempotency key.

**Retry policy** (`coordinator.py: decide_retry`). A pure function of the frozen stage
contract (effect profile, retryable classes, `max_attempts`), the attempt number and
the error class.

**Notification outbox** (`storage.py: enqueue/claim/confirm/...`, `events.py`). Rows
leased to one sender with a fence; a message that may have left the process is never
sent again.

**Compiler, inventory, source authority** (`compiler.py`, `inventory.py`,
`source_authority.py`, `schema.py`). Sequential validation of candidate plans.

**Submission** (`lre_submission.py`, `admission.py`, `source_authority.py`). A delivery
finds or creates a draft under its request key, seals local sources, admits the plan and
queues it; file locks of two kinds and a feature switch stand in between. Correct when a
request that was accepted is one job that will run, whatever dies and is redelivered.

**Workspaces** (`temporary_storage.py`). Scratch directories under shared and exclusive
file locks, a fence, and the table of reports the owner's interface goes by. Correct when
"clean" means that nothing is and nothing will be on disk, and no live checkpoint is lost.

**Artifacts** (`artifacts.py`). Staging and publication of the files a stage produces.

### 1.2 The rest of the system

| part | state it keeps | operations | what is hard |
| --- | --- | --- | --- |
| scheduler v2 (`scheduler_v2/`) | entries with next-fire instants, run history, re-entrancy counts | fetch, fire, record, sleep, catch up, back off; client operations | missed slots, death between run and record, outcomes computed from stale copies |
| pending dialogs (`dialog_pending.py`) | parked turns that wait for an answer | park, answer, expire | two answers, an answer after expiry |
| invocation log, undo (`invocations.py`, `undo.py`) | append-only records with reversal facts | record, reverse | crash between an act and its record |
| HTTP turn pool (`http_turn_pool.py`) | two levels of permits, per-principal gates, the executor's queue | reserve, run, release, close | cancelled coroutines whose threads go on, release on every exit path |
| model concurrency, deferred turns | bounded queues and semaphores | submit, run, drop | limits, release on every exit path |
| executor scheduler (`executor_scheduler.py`) | ready steps and resource locks | start, finish, fail | order of lock acquisition, partial failure |
| executor birth, contract store | signed contracts and receipts | create, verify, promote | file-system authority, mostly sequential |
| agent engine (`engine/`, `agent_runtime.py`) | a turn's plan | plan, dispatch | decided by language models |
| channels, HTTP server | connections | receive, send | input and output |
| executors, `client-rs`, `helper-rs` | none of their own | one tool each | external services |

How parts interact: the engine and the channels share the SQLite store (the channel
daemon calls the outbox sender); workers, the service's maintenance and owner commands
meet only in that store, as transactions; the heartbeat thread and the worker share the
lease-lost flag in memory. The scheduler delivers requests to the submission path;
interactive ones come through the turn pool. The owner's dismissal reads the reports of
the workspace cleaner.

### 1.3 Which behaviours are hard

`PROJECT.json` lists the hazards, each at its line. In short: writes after an unlocked
execution (fencing); a timeout racing a late answer; a worker that dies before or after
the start of an effect; grants that are returned, spent, and granted again; owner
decisions identified by a generation number; cancellation in bounded batches; the wall
clock set back under stored instants; an attempt without exact model accounting; pauses
that wait for a worker that never answers; a message that may or may not have been
shown, and a batch of sends that outlives its leases; a batch of materialised units cut
half-way; a reduction level closed while one of its units is granted a retry; deliveries
that race, die and come again; commands that arrive late or twice; a cleaner and a
writer that lost its lease; scheduler outcomes written over what a client changed
meanwhile; permits of a request whose client is gone.

## 2. `DurableWorkload`: how the model corresponds to the code

One admitted revision of one workload with a single materialised stage.

| variable | code |
| --- | --- |
| `workload` | `workloads.state` |
| `unit[u]` | the row of `units`: `state`, `active` (fence of `active_attempt_id`, 0 for NULL), `worker`, `lease`, `manual` (`attempts.manual_retry` of the active attempt), `wait`, `tokens`, `gen`, `error` |
| `attempts[u]` | the rows of `attempts` of `u`; position = `attempt_number` = fence |
| `result[u]` | the fence whose `results` row exists, 0 for none |
| `rev` | `manual_retry_generation`; model usage unknown; a frozen budget spent; clock high water |
| `worker[w]` | a `DurableWorker`: where it is, its `ClaimedUnit`, deadlines, `lost`, `stopping` |
| `starts`, `grants` | history: executions started, owner retry decisions taken while `u` needed attention |

**Instants** are kept relative to the wall clock (`lease = lease_expires_at - now`), so
that the state space is finite without bounding time: `Tick` lets one unit pass,
`JumpBack` sets the wall clock back while the monotonic deadline `mono` keeps its
value. `Horizon` is how far below zero a timer is still told apart.

**One action per transaction.** `ClaimNext` includes the promotion of due retries that
precedes it; `CommitResult`, `FailAttempt`, `AbandonAttempt`, `ReconcileExpired` and
the drain commands end, as the code does, with the settlement `Settle`, which may
cancel one bounded batch of waiting units and derive `cancelled`, `failed`, `paused` or
`needs_attention`. Only `settle_workloads` also repairs exhausted retries (`repair`).

**Adapter outcomes** are any error class in `ErrorClasses`, or a valid result. A model
stage may end without exact usage (`unknown`).

**What is abstracted.** Which claimable unit comes first (any may); the amounts behind
`spent` (one flag set by `SpendBudget`); payloads (a committed payload may or may not
report domain errors, so `EvaluateCompletion` may end in either completed state); event
and outbox rows; workload versions; deterministic jitter (`RetryDelay`).

**Completion** is `CompleteReadyWorkloads`, with `EvaluateCompletion` inside it. The
checks of `evaluate_completion` on sources, later stages, artifacts and dependencies are
taken as satisfied: one stage without dependencies has nothing there to fail.

**Bounds.** `MaxFence` (claims of one unit), `MaxGeneration` (owner decisions),
`MaxSkew` and `Horizon` bound the state space only. All others are parameters of the
code.

## 3. `DurableOutbox`: how the model corresponds to the code

A transaction that changes a workload also writes a row of `outbox` for each visible
event (`Enqueue`). The channel daemon runs `TelegramOutboxAdapter.deliver_once`, which
leases a batch (`ClaimOutbox`) and then, for each record, looks up the recipient
(`Postpone`, `Undeliverable`), marks the row as started (`MarkDeliveryStarted`), calls
the provider (`Send`) and records the answer (`Conclude`, or `ConcludeFails` when the
store failed). `PruneOutbox` deletes rows whose retention is over.

| variable | code |
| --- | --- |
| `row[n]` | the row of notice `n` on the telegram channel: `state`, `ack` (`ack_json`), `fence` (`fence` and `attempt_count`, which only the claim raises, together), `timer` |
| `sender[s]` | one `deliver_once`: where it is, the records left, the record at hand and the provider's answer |
| `shown` | how often the owner has seen the notice |
| `calls`, `faults` | history: provider calls; crashes and clock corrections |

* A row waits for one instant at a time (next attempt, lease expiry, end of retention),
  so `timer` is none, running or elapsed. `SetBack` undoes an elapsed one: the wall
  clock was corrected.
* Every adapter has the same worker id, so a lease is told from its successor by the
  fence alone. A deployment runs one daemon behind a lock; the model has several senders
  because a restarted daemon meets the leases of its predecessor, and because the fence
  is there for exactly that.
* A provider answer is `ok`, `rejected` (shown to nobody), `unsent` (certainly not
  sent) or `ambiguous` (an exception, a timeout, a part of the text, no evidence). The
  first three are taken at their word; `ambiguous` may or may not have shown the notice.
* The marker row of channel `owner_event` (written as sent, never leased) is left out,
  and so is coalesced progress, which no caller uses. A sender takes the records of its
  batch in any order. A pruned row keeps its last values, for the properties only.

`NoticeOnce` says what all this is for: a notice is shown at most once, its verdict is
right (`sent` only if shown, `dropped` only if not), and a notice in doubt stays in
doubt. `Verdicts` is the refinement mapping: it reads the verdict off the row.

## 4. `DurableStages`: later stages and reduction trees

`_materialize_ready_units_batch` derives the units of a stage from the committed results
of the stages it depends on. A batch is a loop of single candidates behind a cursor that
is saved with them, so one candidate is one action and a restart may come between any
two (`Materialize`). `units` is the table, in the order of its keys; `cursor` the row of
`stage_materialization`; `plan` the frozen plan, one of `Plans`.

| code | definitions |
| --- | --- |
| `_next_materialization_stage` | `Ready`, `ParentsEnded`, `LevelEnded`, `Selected` |
| `insert_candidate` and its caps | `Insert`, `Full`, `Unavailable`, `SameKey` (`replayed` is the error it raises on a known key) |
| singleton, per source, per dependency, per entry | `MaterializeSingleton`, `MaterializeSource`, `MaterializeDependency`, `MaterializeEntry` |
| a reduction level, its groups and root | `ReduceGroup` (`Take`, `Fitting`, `Stuck`, `Grouped`), `ReduceLevel` (`NextLevel`, `Root`) |
| claim, commit, failure, attention, retry of a unit | `Claim`, `Commit`, `FailPermanent`, `NeedAttention`, `Retry` |
| settlement, owner's decision, cancellation, completion | `SettleWorkload`, `ResolveRetry`, `Cancel`, `Complete` |
| `hierarchical_node_bound` | `NodeBound` |

A payload is its array of entry identities; one byte per item stands for its size, the
brackets and commas of the combined array are counted as the code does. Leases, retries
and budgets of a unit are `DurableWorkload`'s. Left out: cursors from before the cursor
existed (`legacy_replay`), and results adopted from an earlier revision.

## 5. `DurableSubmission` and `DurableControl`

**Submission.** Each delivery is a process; `run[d]` is where it is and what it has read.
The submissions lock and the feature lock are variables (`Free`, `Unlocked`; both are
released by death, `Crash`, and waiting for them may time out, `LockTimeout`). An adapted
request looks for its key, then for an equivalent active job (`FindKey`, `FindActive`),
under the lock. A registered one seals its sources outside every lock (`Seal`). All
end in `submit_candidate`: `CreateDraft`, `LockFeature` with its `Gate`, and at most
`MaxSteps` rounds of `Reread` and `Admit` or `Queue`, each guarded by the version read
(`SameVersion`). Meanwhile jobs move on (`MoveJob`), the switch is turned (`SetFeature`),
files vanish and come back (`RemoveFile`, `RestoreFile`), and the maintenance of the
service revokes the grants of jobs that it found ended (`ReconcileWorkloads`: the states are
read before the revoking transaction, `source_authority.py:769-799`). `steady` is history:
the files that have been there all along. Arguments are normalised and equal or not; plans
are not looked into. The expiry of grants and `prune` are left out.

**Control.** A sent request may be delivered at any time, again and again (`Deliver`).
`Replay` is `_existing_command`, `Current` the version check, `Apply` the command's
effect and its row. `Dismiss` consults no keys, like the code. The engine's own steps are
`Engine`: of a workload only state, version and what the commands read is kept.

## 6. `TemporaryStorage`

A writer holds a workspace open under the shared lock (`Open`, `Write`, `Close`), and may
do so after its lease was taken (`Expire`). The cleaner goes through `Pick`, `CheckBusy`,
`Lock`, `MeasureBefore`, `Detach` (a rename and a fence), `Handoff`, `Purge`,
`MeasureAfter`, `Report`; it may fail or die at every one (`Fail`, `PurgeFails`,
`CrashInDetach`). `disk[p]` is whether there is data, whether there is detached data, and
the fence (`retired`). `CanDismiss` is the condition the owner's interface uses. The deletion
of an owner's whole tree, when the owner is removed, is outside the model.

## 7. `SchedulerV2`

One loop: `Boot` (close crashed runs, list the entries), one `Recover` per slot that was
missed, `Recovered`, `Fetch`, one `Filter` or `Fire` per due entry, `Return` or `Timeout` of
each, then `Sleep` and `Wake`. `fires[i]` keeps the *copy* of the row that was listed or
fetched; what boot writes, `Outcome` and `NextSlot` are computed from that copy and written
over the row, which clients may have changed (`Add`, `Delete`, `Disable`, `Enable`,
`RunNow`). A finite entry that was fetched without a countdown gets one (`Inferred`), the
copy only if the row did (`Initialized`, the row count of `initialize_remaining_runs`).
`running` is the re-entrancy count, `runs` the rows of the
history that say running, `threads` what really executes: a callback in a thread goes on
after its timeout (`Survives`, `ThreadEnds`). `WriteFails` is an exception in the middle
of the `finally` block; `Stop` cancels, `Crash` kills. A trigger is its period. Entries
are numbered as SQLite does, so an id may be used again. The fields `ran`, `allowed`,
`stopped` and `inherited` are history.

## 8. `HttpTurnPool`

Between two awaits the event loop is not interrupted, so `Reserve`, `AcquireGlobal`,
`AcquireGate`, `Submit`, `Return` and the release are actions; the executor's threads
start and end beside it. A gate is named by the request that made it, because a forgotten
gate and its successor are different objects. `Cancelled` ends the coroutine and leaves
the thread; `ReleaseWhenDone` is the callback. `ReleaseUnused` stands for the `finally`
blocks of the dialog and turn routes, `PrepareFails` for the one route that has none.
Which waiter a freed permit goes to is left open.

## 9. The runs

| run | instance | what it shows |
| --- | --- | --- |
| `retry` | one pure unit that calls a model, two workers, `MaxAttempts` 2, three claims, one owner decision, clock jumps of 2 with a tolerance of 1 | fencing (`LeaseConsistent`), results (`ResultFromNewestAttempt`, `ResultsFinal`), leases bounded by deadlines (`LeaseBounded`), no unit stranded between claim and owner (`NothingStranded`), nothing late touches a paused or ended workload and one with lost usage is not completed (`OverIsOver`), the unit graph (`UnitTransitionsLegal`) |
| `units` | a pure and a manual-only unit, two workers, batches of one | the workload state never contradicts its units (`StatesMeanIt`) and only takes edges of its graph (`TransitionsLegal`) |
| `live` | one unit whose effect may not be replayed, two workers, three claims, two owner decisions, fair | no execution without the authority for it, also after a lease lost before or after its start (`StartsAuthorised`); cancellations, pauses and leases end (`StopsEnd`) |
| `outbox` | two notices, two senders, batches of one, two attempts, three claims of a row, one crash or clock correction, fair | `AtMostOnce`, `AckTruthful`, `CallsBounded`, that the outbox implements `NoticeOnce` (`ImplementsNotice`), and that every notice is settled (`Settles`) |
| `stages` | a reduction of four results of different sizes; listings, entries and their gathering by source with an owner's retry; entries and listings treated alike with partial output; fair | `CandidatesOnce`, `ReductionBounded`, `NoInputLost`, `InputsFrozen`, `StagesEnd` |
| `submission` | three deliveries of equivalent adapted requests (two keys, one of them redelivered by the scheduler), of one registered request, or of one direct request; one file that goes and comes back | `DeliveriesSound`, `SameKeySameJob`, `OneLiveJob`, `LiveSourcesGranted`, `GateRespected` |
| `control` | two requests, two keys, every command, two retry decisions | `NothingAppliedTwice`, `AnswersStable`, `ActsOnWhatWasSeen`, `DismissedIsOver` |
| `temporary` | two workloads that share one of two workspaces, two writers, one fault, fair | `CleanIsClean`, `CheckpointsKept`, `CleanupEnds` |
| `scheduler` | a recurring entry with two runs and a one-shot timer in a thread with a weekday filter, two ids, two client operations, one death or failed write, fair | `RunsAsAsked`, `RunsAccounted`, `EntriesFire` |
| `turn_pool` | three requests of one principal and one of another, one thread, one queue slot, one turn per principal, fair | `LimitsKept`, `Accounted`, `PermitsReturn` |
| `stall` | one unit, no retry decision, fair | `FinishedIsEvaluated` is violated: finding 1 |
| `reduce_retry` | a reduction of three results in two levels, one owner decision | `NoInputLost` is violated: finding 2 |

Why the bounds are enough. With `MaxAttempts` 2, three claims cover an automatic retry
and its exhaustion, or an owner decision, the loss of the resulting lease before its
start (so that the grant comes back) and its second use; the two decisions of `live` let
a stale one be told from a fresh one. Two units with batches of one make every batched
operation stop half-way. Two workers are enough for a stale holder and its successor.
Leases of two ticks can be renewed before, at and after the deadline. In `outbox` a row
can be claimed once more than `MaxAttempts` allows calls, so that a claim that looks at no
limit is seen; `Settles` does not speak of a row at the bound of its claims. The plans of
`stages` have levels of more than one group, groups cut by bytes as well as by fan-in,
repeated, empty and missing identities, and stages with more candidates than their cap.
Three deliveries allow a race and a redelivery after it; a job may change state three
times, so it may be queued, run and end before the redelivery. In `temporary` a workload
changes state at most twice, which leaves out one that was suspended before it ended: three
changes are beyond a run, so `CleanupEnds` is checked without such a workload, while the
theorems about `CleanIsClean` and `CheckpointsKept` hold for every number of changes. In
`scheduler` two client operations reach an exhausted countdown that is switched on again
and registered anew before the fire that met it. Four requests exceed the
two places of the pool, also with one that nobody waits for. Deadlock is not checked
where the modelled parties are finitely many and may all be done (outbox, control,
workspaces, pool, ...: each `.cfg` says so).

**Fairness** (`Fairness` of each module). *Durable engine*: the service loop repeats, so
reconciliation, settlement and completion are weakly fair; time passes; a lane that holds
a claim starts it or is refused, and one whose deadline has passed records the timeout or
drops its result; a lane that was asked to stop is eventually restarted by its
supervisor. Nothing is assumed of claims (a lane may be stopped and replaced again and
again), of the owner, of an adapter's answer, or of heartbeats.
*Outbox*: the daemon's loop calls `deliver_once` on every turn, each provider call has a
timeout, and instants pass; crashes and clock corrections are finitely many, and nothing
is assumed of the provider's answers. *Stages*: the same loop; attempts are bounded, so a
unit that is retried is not retried for ever (strong fairness of its end). *Workspaces*:
the maintenance cycle takes up every unfinished workload again and again, attempts end.
*Scheduler*: the loop goes on, time passes, callbacks return or time out. *Turn pool*:
waits for permits are bounded by `admission_timeout_s`, idle threads take queued futures,
turns end. Clients may go away or not.

Every property has a *mutant*: a seeded fault next to the definition it replaces
(commented `Seeded fault`), under which TLC must find that property violated.

## 10. Findings

1. **A finished workload can stay queued** (run `stall`). A workload paused while its last
   unit executes becomes `paused` when that unit commits. `resume` makes it `queued`. No
   unit is left to claim, and completion is looked for only among `running` workloads
   (`storage.py:8433`, and again at `storage.py:4821`), so its terminal graph is never
   evaluated and it stays `queued` until the wall-time budget raises attention. The
   docstring at `storage.py:8423` says "Evaluate bounded workloads whose durable graph is
   already terminal", and `docs/en/system/lre.html:377-378` that pausing allows "a commit
   already in flight to finish safely". The trace is claim, pause (before or after
   the start), commit, resume, after which nothing is left to do but to stop and replace
   idle lanes; with `queued` admitted at both lines of the code
   the property holds.
2. **A reduction can lose inputs after an owner's retry** (run `reduce_retry`). The gate
   of a waiting level (`storage.py:7248`) does not count `needs_attention` among the
   unfinished states. After a retry decision, `run_once` materialises before it claims;
   the granted unit still reads `needs_attention`, the level is taken for ended, and that
   unit becomes the root of the reduction. When it commits, the inputs of the other
   groups are missing from everything downstream.

### Further disagreements met while modelling

These have no run of their own; the properties name them as exceptions.

* *Unit graph.* `claim_next` takes a unit from `needs_attention` straight to `leased`
  (`storage.py:6479`), an edge `UNIT_TRANSITIONS` (`models.py:241-244`) does not have.
  `UnitTransitionsLegal` allows it.
* *Coalesced redelivery.* A request that was coalesced into another's job leaves no trace
  of its own key (`lre_submission.py:279`); redelivered after that job ended, it creates
  a second one. `docs/en/system/lre.html:235-237`: "redelivery of the same occurrence
  does not create a duplicate." `SameKeySameJob` excepts adapted requests.
* *Scheduler overlap.* A synchronous callback that times out runs on in its thread while
  the lock is given up (`daemon.py:399`), so the entry may overlap itself. `daemon.py:5-6`:
  "Per-entry re-entrancy lock honors max_concurrent." `NoOverlap` excepts such callbacks.
* *Requested runs.* `run_now` of an entry that is running is overwritten by the outcome
  of that run (`daemon.py:464`); `client.py:406-409` says the loop "will catch it".
* *Reused ids.* `schedule_entries.id` is not `AUTOINCREMENT` (`scheduler_v2/storage.py:28`,
  although the comment at line 142 says so): the id of a deleted entry may be given to a
  new timer, which the outcome of the old run then switches off.
* *Registration under a copy.* The same happens to an entry that is registered anew while
  the loop has a copy of it in hand. A copy at its last run, or of a one-shot entry,
  switches the new registration off (`daemon.py:447-450`): fewer runs than asked. A copy
  without a countdown, of an exhausted entry that was switched on again, gets none when the
  row has a new one (`daemon.py:384-385`), so its run is not counted: three runs for two.
  The comment at `daemon.py:375-376` asks that finite entries do not fire for ever, and they
  do not: `RunsAsAsked` marks such entries (`inherited`), excepts them from the lower bound and
  allows them one run more.
* *Requested runs at boot.* `run_now` of an overdue timer between the list that boot reads
  and the `disable` it writes is lost (`daemon.py:312`, `333`). `RunsServed` counts it among
  the slots that were missed.
* *Late seal.* A file that is away when a second delivery seals, and back afterwards, belongs
  to the revision that the first delivery admits, but its grant is revoked
  (`source_authority.py:586`), although `admission.py:197` says "Replaying the same request
  key converges on the existing workload." `LiveSourcesGranted` speaks of files that have
  been there all along.
* *Failed write.* When `end_run` or `record_outcome` raises (`daemon.py:429`), the
  re-entrancy count stays raised and the entry is skipped until a restart; `daemon.py:451`:
  "A recurring entry must retry after a bounded cooldown". `EntriesFire` excepts it.
* *Cut-off runs.* A run that a shutdown cancels is recorded as a success
  (`daemon.py:427`), because `CancelledError` is not an `Exception`.
* *Lost reservation.* When the head of an event stream cannot be written
  (`http_routes_agent.py:1947`), nobody releases the reservation: the pool is one place
  smaller until the restart. `http_turn_pool.py:148`: "Release an unused/completed
  reservation exactly once." `PermitsReturn` excepts it.

## 11. What is proved

For every set of units, workers, plans, notices, senders, deliveries, keys, workspaces,
entries, requests and principals, and every value of the policy constants and bounds, from the
assumptions named in the modules (`UnitsAssumption` ... `ClassesAssumption`,
`NoRecordAssumption`, `BoundsAssumption`, `DeliveriesAssumption`, `JobsAssumption`,
`TimingAssumption`, `NamesAssumption`, `PoolAssumption`, `PlansAssumption`,
`LimitsAssumption`). They give the constants their
types and keep apart a value that stands for nothing; the only ones that say more are
that bounds and policy numbers which the code needs positive are so, that the
scheduler's table has room for the entries that an earlier process left in it and its count
of runs for the numbers that are declared, and that a plan is one the compiler lets through: its stages are finite in number and in the order
of their dependencies, a reduction has one of them and a fan-in of two or more, a cap is
positive, and a stage that depends on none is a singleton or has a unit for each source.

| theorem | module | states |
| --- | --- | --- |
| `TypeCorrect` | `DurableWorkloadProofs` | `[]TypeOK` |
| `LeaseFencing` | `DurableWorkloadProofs` | `[]LeaseConsistent` |
| `ResultProvenance` | `DurableWorkloadProofs` | `[]ResultFromNewestAttempt` |
| `ResultsAreFinal` | `DurableWorkloadProofs` | `ResultsFinal`, an action property |
| `WhatIsOverStaysOver` | `DurableWorkloadProofs` | `OverIsOver`, an action property |
| `StatesMeanWhatTheySay` | `DurableWorkloadProofs` | `[]StatesMeanIt` |
| `NoUnitIsStranded` | `DurableWorkloadProofs` | `[]NothingStranded` |
| `StartsAreAuthorised` | `DurableWorkloadProofs` | `[]StartsAuthorised` |
| `LeasesAreBounded` | `DurableWorkloadProofs` | `[]LeaseBounded` |
| `UnitTransitionsAreLegal` | `DurableWorkloadProofs` | `UnitTransitionsLegal`, an action property |
| `TransitionsAreLegal` | `DurableWorkloadProofs` | `TransitionsLegal`, an action property |
| `ShownAtMostOnce` | `DurableOutboxProofs` | `[]AtMostOnce` |
| `AcksTruthful` | `DurableOutboxProofs` | `[]AckTruthful` |
| `ProviderCallsBounded` | `DurableOutboxProofs` | `[]CallsBounded` |
| `Refinement` | `DurableOutboxProofs` | `Spec => Notice!Spec` |
| `InductiveInvariant` | `DurableStagesProofs` | `[]IInv` |
| `EachCandidateBecomesOneUnit` | `DurableStagesProofs` | `[]CandidatesOnce` |
| `InputsStayFrozen` | `DurableStagesProofs` | `InputsFrozen`, an action property |
| `ReductionStaysBounded` | `DurableStagesProofs` | `[]ReductionBounded` |
| `NoInputLostUntilRetry` | `DurableStagesProofs` | `[](generation = 0 => NoInputLost)` |
| `DeliveriesAreSound` | `DurableSubmissionProofs` | `[]DeliveriesSound` |
| `OneJobPerKey` | `DurableSubmissionProofs` | `[]SameKeySameJob` |
| `OneJobPerScope` | `DurableSubmissionProofs` | `[]OneLiveJob` |
| `SourcesStayGranted` | `DurableSubmissionProofs` | `[]LiveSourcesGranted` |
| `GateIsRespected` | `DurableSubmissionProofs` | `GateRespected`, an action property |
| `AppliedOnce` | `DurableControlProofs` | `[]NothingAppliedTwice` |
| `AnswersAreStable` | `DurableControlProofs` | `AnswersStable`, an action property |
| `ActsOnWhatIsSeen` | `DurableControlProofs` | `ActsOnWhatWasSeen`, an action property |
| `DismissalIsFinal` | `DurableControlProofs` | `DismissedIsOver`, an action property |
| `DismissableIsClean` | `TemporaryStorageProofs` | `[]CleanIsClean` |
| `CheckpointsAreKept` | `TemporaryStorageProofs` | `CheckpointsKept`, an action property |
| `EntriesRunAsAsked` | `SchedulerV2Proofs` | `[]RunsAsAsked` |
| `RunsAreAccounted` | `SchedulerV2Proofs` | `[]RunsAccounted` |
| `LimitsHold` | `HttpTurnPoolProofs` | `[]LimitsKept` |
| `PermitsBalance` | `HttpTurnPoolProofs` | `[]Accounted` |

**Types.** `TypeOK` is inductive as it stands; its substance is that `tokens` never goes
below zero although `claim_next` decrements it, and that each attempt written exists.
There is one lemma per operator that builds rows, one per group of actions, and
`TypeInvariance` combines them over the disjuncts of `Next`.

**Leases and results.** Both invariants speak of one unit at a time. `GoodUnit` joins
them and is inductive with `TypeOK`: that a held row names its newest attempt is what
makes the attempt a worker ends the newest one, and that only held rows name a worker is
what makes `Matches` mean "held" for a worker that slept for hours. Every action changes
a unit in one of five ways (`ClaimKeeps`, `StartKeeps`, `EndKeeps`, `CommitKeeps`,
`QuietKeeps`); the settlement, the promotion of retries and the clocks are all `Quiet`:
they leave the hands of every row alone. `ResultsAreFinal` then needs only that no other
action writes results.

**What is over.** `mark_running`, `commit_result`, failure, hand-back and the reconciler do not
look at the workload state, so `WhatIsOverStaysOver` rests on `StatesMeanIt`: a workload that
is paused or over has no held row, hence no worker whose record still matches
(`NothingTouchesTheOver`), and only claims look at the state. For the second half,
`SettleNeverCompletes` and `OnlyEvaluationCompletes` leave completion to the evaluation, which
refuses while usage is missing; and nothing is lost of a workload that was completed
(`UsageKnown`), because nobody holds a lease in it.

**Rows.** One transaction may release a lease, promote a retry, repair exhausted units and
cancel waiting ones. `UnitStep` lists what can come of that for one unit, and `EveryStep`
shows that nothing else can; the rest is about one row. `StartsAuthorised` counts the past
and is not inductive: a claim that was not started, a returned grant and an answered
attention fact all stand for a start to come. `Ready` counts them together (`Claims`) and
bounds the sum by the attempts claimed so far and the owner's decisions; for an effect that
may not be replayed a pending row counts as well. That a row waits for a retry only while
it has an attempt left is the other half: it makes a promoted row claimable, so
`NothingStranded` follows and the graph of unit states needs no edge for the repair.
`ClaimsTrue` (the lease of a worker that has not started is not running) ties the start of
a worker to the lease it was counted for.

**Workload states.** What a settlement makes of a workload is shown once (`SettledState`,
`SettleMeans`) for the nine actions that end with one: where it can lead, and that its
rows then agree with it. An action that releases a lease starts from a state that is not
quiet, so only the outcome of the settlement is left to look at. Attention stays surfaced
over an owner's decision because no row is ever noted with a later generation than the
revision's.

**Lease bounds.** `LeaseBounded` allows for a clock that was set back. The invariant says
more: a lease is at most its duration past the revision's clock high water (`LeasesNoted`),
which every claim and renewal moves up to the present; time passing and clock jumps move
lease, deadline and high water alike. Every other action leaves held rows alone
(`LaneLeaves`, `OwnerLeaves`, `ServiceLeaves`).

**Outbox.** `AtMostOnce` is not inductive: a sender about to call the provider may be
the second one to do so. The invariant of `DurableOutboxProofs` adds where a sender can
be (`Position`); that no record is newer than its row, and that a delivery in progress
has the row's newest fence while the row is leased and marked as started, or was given up
as doubtful meanwhile (`Holding`); that no two senders hold the same record (`Apart`);
what the row says of the past (`RowTruth`: a row that has not been started has never been
shown); what a sender's position says of the screen (`SenderTruth`: one about to call has
shown nothing yet, and a definite answer is true); and how many calls the fences have
paid for (`Budget`). The refinement maps each action to a step of `NoticeOnce` or to a
stutter.

**Stages.** `CandidatesOnce` speaks of finished stages; the invariant `IInv` says of every
stage what its cursor stands for (`StageOK`): one unit for each source, parent, entry or
group behind it and nothing else. Two facts about the whole table keep it so. A stage is
not begun before its parents have ended (`Ordered`), and rows of ended parents never change
again (`ParentsFrozen`), because a result is final and a stage that is complete is not
worked on; `InputsFrozen` follows at once. Every step is then one of two (`StepCases`): a
run of the workers, the owner or the settlement keeps cursors and the place of every unit,
and a step of one stage leaves all the others alone. What remains is one lemma for each
mode about the stage that works. That no key is met twice, so that the cursor never
replays a candidate, needs all of `StageOK`: the keys of the units behind the cursor are
known, and that of the next one is not among them.

For reductions the six steps are listed (`ReductionStep`). `GroupsFit` follows because
`combined_bytes` is the size of the joined array (`CombinedSize`) and results are final.
`NodeBoundHonest` is not inductive; `CountsOK` is: the units of the levels below, with the
bound for the inputs of the current level, stay within the bound for all inputs, and a
level makes at most one group for every two inputs, but for its last. A stage that runs
into its cap then has one smaller than its bound (`OverflowBound`). For `NoInputLost`,
`RootOf` says of a root that it has no input, or belongs to a level that stopped, or is
all of its level; only the last kind can commit while the owner has retried nothing, and
it has every leaf since no level below loses any (`LevelsLoseNothing`). The theorem stops
at the owner's first retry because the property does: see finding 2.

The sums of sizes, `NodeBound` and `Leaves` are recursive. That their recursion has a
solution, and what it gives, is proved without an induction scheme: `LeastNat`, an
instance of the well-foundedness of the naturals, yields the first number for which a
statement fails, and the definition refutes it there (`FoldExists`, `BoundsExist`,
`NodeBoundGrows`, `LeavesExist`).

**Submission.** What a delivery read before a lock or a transaction may be out of date in
the next one; the invariant says what of it still holds, delivery by delivery (`Sane`).
`LocksHeld`: which steps are taken under which lock. `NamesItsJob`: the job a delivery
names is for its arguments. `RoundsTrue` is why `submit_candidate` converges: a job is a
draft exactly in its first version and admitted only in its second (`JobsTrue`), so a
conflict of versions means that the job is past the state that was read, and the third
round finds it queued or beyond. `ScopeClear`: what `find_active` saw still holds when the
draft is created, because every other creator for that scope needs the same lock; a
delivery that dies releases the lock and leaves a draft that the next one finds. Every
step lets jobs move only `Onward`, which is what keeps the other deliveries sane
(`OthersSane`); with `KeysUnique`, the database's `UNIQUE`, the theorems follow.

**Commands.** `AnswersStable` needs that each key has one row, and that the row holds the
answer given (`AnswersRecorded`); `ActsOnWhatWasSeen` that a version stands for a state
(`SeenIsTrue`); `OneWinnerPerVersion` that a row which changed the workload is older than
it (`VersionsPast`); `DismissedIsOver` that a dismissed workload is at rest
(`DismissedSettled`), because a dismissal consults no keys.

**Workspaces.** A clean report is true because the workspaces were locked while nobody had
them open (`Exclusive`), retired before they were purged (`Fenced`, `RetiredUnused`), and
because the version the report carries stands for the state the cleaner saw
(`Snapshot`): a workload that moved on since makes the report too old to dismiss by.

**Scheduler.** A fire ends on the row that has its id, by then perhaps changed, deleted, or
another registration. `Good` ties a row to what the loop has in hand on its id, as a predicate
of the two alone: whose run it is (`Belongs`), how the row's countdown compares with the
copied one (`Counted`, `CopyCounted`), that the runs so far and those still ahead stay within
what is allowed (`Budget`), that an entry which is off was served (`Ended`), that a countdown
is out of step with the copy or with the runs only for a registration marked `inherited`
(`Faithful`), and that such a one has a run to spare until a fire of an exhausted copy uses it
(`Stale`, `Spare`). One lemma for each way to change either says that the tie is
kept; the actions then only choose among them. Boot is such a holder of copies too: what it
recovers row by row may meet rows that clients have changed since (`RecoverKeeps`).
`RunsHeld` and `ThreadsTrue` count the open runs and the threads by the fires in flight, for
which a batch has one fire of a name (`FiresUnique`).

**Turn pool.** Permits of a principal can be counted only if all of its requests use one
gate. `GateKnown` says so, `GateOwned` that no other principal has it, and `UsersCounted`
that `gate.users` is the number of requests on their way, so that the gate is forgotten
only when nobody uses it. An event stream whose head could not be written (`lost`) keeps its
permits and counts as a holder for ever. `JobsHeld` turns the count of permits into one of turns.

**What proving changed in the models.** `SchedulerV2` took an id beyond its table for an
add that wrote nothing; the ids are now bounded by a constant of their own (`MaxId`) and
an add beyond them does not happen. `SameKeySameJob` was false for deliveries of different
kinds under one key, which the run did not contain: a registered and an adapted request
never share a key's history, so both have to be other than adapted. `TypeOK` of
`DurableSubmission` needs `MaxVersion` to be positive. `RunsServed` needs the declared number
of runs to be within what the model counts (`NamesAssumption`). `PlansAssumption` had left out that
a plan has finitely many stages and that what a runner returns is a payload.

Only model-checked: everything under fairness, for which the prover has no `ENABLED`
(`StopsEnd`, `Settles`, `StagesEnd`, `CleanupEnds`, `EntriesFire`, `PermitsReturn`), and
the two runs that show a violation.

## 12. Plan

1. *(done)* `DurableWorkload`: core transactions, workers, owner, clock; types.
2. *(done)* Fencing, provenance and finality of results as theorems.
3. *(done)* `NoticeOnce` and `DurableOutbox`, with the refinement proved.
4. *(done)* `DurableControl` and `DurableSubmission`.
5. *(done)* `DurableStages`: all cardinality modes, reduction trees.
6. *(done)* `TemporaryStorage`, `SchedulerV2`, `HttpTurnPool`.
7. *(done)* Theorems: every invariant and every action property that a passing run checks,
   with `NoInputLost` up to the owner's first retry. An abstract fenced register that
   `DurableWorkload` implements would say no more than `LeaseConsistent`,
   `ResultFromNewestAttempt` and `ResultsFinal` do together, and is not stated.
8. `DurableService` (lane pool, shutdown grace, backoff), `DurableArtifacts` (staging,
   two-phase publication), `PendingDialogs`, deferred turns and model slots, the executor
   scheduler, invocation log and undo.

## 13. Not modelled, and why

* The plan compiler, inventory, schema and contract verification, and the executor-birth
  programs (the largest files of the repository) are sequential checks of documents,
  signatures and file permissions without shared mutable state: their difficulty is in
  data a finite model does not tell apart.
* What the agent engine decides is a language model's; executors, channels, the browser
  sidecar, installers and the Rust clients are input and output.
* Inside the modelled parts: reuse of results of an earlier revision, cursors from before
  the cursor existed, fair sharing between workloads, the lane pool's backoff, the
  scheduler's owner purge and one-time migration of names.
* Planned and still open: section 12, item 8.
