# Agent Runtime: a TLA+ development

This directory models the parts of the Agent Runtime that several processes write at
once or that must survive the failure of one of them: the ledger of a run, the
capacity counters, the delivery of callbacks, the business side's launch, projection
and deletion of a run, the workflow of the memoir agent, its model calls, its paid
audio jobs and the publication of its document. TLC checks small instances; TLAPS
proves every safety property the runs check, and the refinement, for every value of the
constants that section 4 does not exclude by name.

Commands, from this directory:

    tlc -workers 2 -config RunLedger_lifecycle.cfg MCRunLedger
    tlapm RunLedgerProofs.tla

A proof module (`...Proofs`) extends the module it is about; `AudioNodeProofs` takes the
longest, about six minutes.

## 1. Inventory

The Runtime executes *agent runs* for business systems. One database holds the shared
state of the Runtime and Redis its rate limits; processes are an API server, workers, a
reconciler, an outbox dispatcher, and on the business side a launcher (cron, every
minute), the tool endpoints and the callback endpoint. They meet only in rows and in
three HTTP paths: callbacks and tool calls (Runtime to business), and
create/start/query/cancel/purge (business to Runtime). In the deployed production set-up
the launcher is switched off by default
(`src/头脑风暴/docs/AgentRuntime/云服务器性能优化/`); what the models say of the launcher
applies where it is switched on.

| Component | State | Operations | Correct when |
|---|---|---|---|
| Run ledger (`agent_run_service`, `lease_service`, `run_queue_service`, `worker`, `executor`, `checkpoint`) | `AgentRun`, `AgentCheckpoint`, `CallbackEvent`, run_dispatch notice | create, start, cancel, purge, retry, approve, reject, claim, heartbeat, node boundary, pause, settle, drain | events are numbered without gap, a fencing token has one holder, outcomes are not replaced and announced, a purge leaves nothing |
| Reconciliation scan, its lease and admission (`reconciliation_service`, `reconciler`, `reconciliation_lease_service`, `admission_service`) | the same rows, `AdmissionBucket`, the lease row | reap, end, count, rebuild, acquire, renew, release | every run ends, an end stays, counts come to equal the rows they count |
| Outbox and dispatcher (`outbox_service`, `dispatcher`, `callback_service`, `callback_gateway`) | `RuntimeOutboxEvent` | claim, send, retry, dead letter, replay | at least once; delivered was accepted |
| Business projection (`memory_agent_callback_service`, `..._reconciliation_service`) | `MemoryAgentRunRef`, idempotency records | receive, query, confirm purge | shows something the run really was, moves forward only, catches up |
| Launch, deletion, revisions (`memory_runtime_launch_service`, `runtime_launcher`, `memory_agent_binding_service`, `memory_deletion_compensation_service`, `memory_revision_gc_service`, `memory_archive_service`) | `MemoryArchive`, playback documents, launch and compensation events, epochs | create held run, bind, start, compensate, publish, delete, revert, purge, collect | one live run, a deleted archive is purged, the player always finds a document |
| Memoir workflow (`runner`, `bounded_loop`, `evaluator`, `guardrails`, `memoir_media_service`) | memory of one attempt, usage ledger, published document | the nodes of the frozen graph, the bounded loop, repairs, images, review | published scenes are grounded and cover the materials; nothing unsafe leaves; it ends |
| Model gateway, usage, policy (`model_gateway`, `model_usage_service`, `policy_engine`) | `AgentModelUsage`, permits, windows and circuits in Redis | reserve, acquire, start, send, settle, fall back, reconcile | what was sent is on record, limits hold, verdicts stay |
| Tool gateway and audit (`tool_gateway`, `tool_call_audit_service`) | `AgentToolCall`, idempotency record of the business tool | look up, query, begin, send, settle | a document is published once and reported truthfully |
| Audio jobs, node and maintenance (`memoir_audio_jobs`, `memoir_audio_service`, `memoir_audio_maintenance`) | `MemoirAudioJob`, `MemoirAudioRunBudget`, objects in a bucket | reserve, submit, settle, poll, upload, resume, reap, clean | nothing is paid twice, charges stay in the budget, objects are neither lost nor deleted while published |
| Packages, API/authentication, observability, harness, configuration | see `PROJECT.json` | | |

What is hard here:

- *Two ways of writing a row.* A conditional `UPDATE` tests and writes at once. An
  ORM session loads the row, changes the object, and at commit writes back the
  changed columns without a condition; `SELECT ... FOR UPDATE` locks the row but does
  not refresh an object the session already holds.
- *Leases and permits.* A worker that lost its lease, a reconciler that lost its
  lease and a call whose permit expired do not know it until they next ask.
- *Delivery.* Callbacks are repeated, delayed and reordered, batches are committed
  as a whole, dead letters end delivery, answers to create, start and publish are lost.
- *Long transactions.* A launcher round spans all its HTTP calls and rolls back as a
  whole; the tasks of an audio node share one session; the settlement of a model call
  stays in the worker's transaction until the next commit.
- *Money and privacy.* A request without an answer may have been charged; a text that
  left for a provider cannot be called back; a purge must reach every run.

`PROJECT.json` lists the hazards at their lines with the properties that would catch
them.

## 2. Modules

| Module | Models | Checked by |
|---|---|---|
| `RunFeed` | abstract: what an observer may rely on (summary and callbacks of a run, one transaction at a time) | refinement target of `RunLedger`, environment of `CallbackDelivery` |
| `RunLedger` | one `AgentRun` with API sessions, workers, reaper, reconciler, environment | `MCRunLedger`: lifecycle, liveness, late_result |
| `AudioNodeProofs`, `CallbackDeliveryProofs`, `CapacityProofs`, `MemoirWorkflowProofs`, `MemoryLaunchProofs`, `ModelGatewayProofs`, `PublishNodeProofs`, `RunLedgerProofs` | theorems about the module of that name | TLAPS |
| `Capacity` | one admission bucket, all its writers, the reconciler's scan and lease | `MCCapacity`: capacity |
| `CallbackDelivery` | outbox, dispatchers, receiver, launcher's queries for one bound run | `MCCallbackDelivery`: delivery, catchup |
| `MemoryLaunch` | launch, publication, deletion and collection for one archive | `MCMemoryLaunch`: launch |
| `MemoirWorkflow` | the nodes of a memoir run, its loop, model budget, review, images | `MCMemoirWorkflow`: workflow |
| `ModelGateway` | the model calls of a run: usage rows, permits, provider | `MCModelGateway`: model |
| `PublishNode` | the publication of a run's document by successive attempts | `MCPublishNode`: publication |
| `AudioNode` | audio node attempts of one run, job ledger, providers, bucket, maintenance | `MCAudioNode`: purchase, music |

The modules share the run: `RunLedger` has its life with a node as one step `Work`;
`MemoirWorkflow` opens that step and has model calls, images and publication as single
steps; `ModelGateway`, `PublishNode` and `AudioNode` open those. `Capacity` takes the
dispatch transitions of `RunLedger` and adds the counters; `MemoryLaunch` and
`CallbackDelivery` see the run through `RunFeed`'s eyes.

### RunLedger

One row `run` with the columns the control depends on. `fencing_token` and
`execution_attempt` are always incremented together and are the one field `token`.
A session (`tx[c]` for an API request or the scan, the `view`/`mine`/`events`
fields of `wk[w]` for a worker) is the row as loaded, the object as changed and the
callbacks appended. `Flush` merges the changed columns into the row as it is at
commit; `Clash` is the one check the database makes then, the unique
`(run_id, event_seq)` of `CallbackEvent`. An API operation is a `...Begin` action
(load and change) followed by `TxCommit`; approve and reject, whose code locks the
row, are one action. A worker goes through `Poll, Consume, Claim, Execute, NextNode,
Heartbeat, Work, NodeCommits | NodeFails | OptionalFails, SaveNode, PauseForHuman,
Settle, CommitResult`; between two of them any other actor may act. Every repair
of the scan that writes an `AgentRun` is an action of its own. `env` is what time and
operators do: the run deadline, a revoked package, a changed authorization.
`Faults` and `ApiOps` select what may happen in an instance.

### Capacity

A run is reduced to `dispatch_state`, status and `last_event_seq`; the four buckets it
is counted in always move together and are one. `Load`/`Commit` are API transactions
and finishing workers, `Claim` and `Reap` the conditional updates of workers
(`WorkerLoop.run_once` reaps before it claims). A scan acquires the lease, counts the
rows (`Acquire`), rebuilds the bucket (`Rebuild`), repairs run by run (`Repair`), asks
for its lease again before each step (`Guard`, `LastGuard`) and commits everything at
once (`CommitScan`) or nothing (`Abort`, `ScanFails`, `ScanCrashes`). Its session keeps
the bucket object it loaded (`base`, `obj`), so that a later unit is moved from counts
that may be old. `due` are the runs past a TTL or deadline or with a dead `run_dispatch`.

### CallbackDelivery

The run is any behaviour `RunFeed` allows, one callback per commit. A dispatcher
loads due rows (`Scan`), claims and sends one at a time (`Deliver`,
`DeliveryTimesOut`, `RefuseWithdrawn`, `SkipClaimed`) and commits the batch
(`CommitBatch`). A timed-out request may stay in `inflight` and arrive later. The
receiver replays known keys, drops stale versions and asks for reconciliation when
a success is not published yet. The launcher's transaction (`boss`) keeps the
identity map: an object once loaded is not read again; `SnapshotReads` chooses
between reads that see the latest commit and MySQL's repeatable reads.

### MemoryLaunch

A launcher round (`runtime_launcher.run_once`) is one transaction: `Begin` takes the
due event, `CreateAnswers`/`CreateFails` and `StartAnswers`/`StartFails` are its calls,
`BindCreated`/`BindStarted` the local part, `Restart` and `AdoptOrCancel` the two
compensations, `CommitRound` or `RoundFails` the end. The locks it takes
(`eventLock`, `archiveLock`) last until then. The Runtime is what its client sees of it:
`Created` with the idempotency key and its expiry, `Started`, cancel, purge, the held
timeout. `DeleteArchive`, `DeleteSource`, `Maintain` (deliver compensations, confirm
purges, collect revisions under the reconciler's lease) and `Publish` interleave with it.
Two documents are enough: the baseline and the enhanced one; `week` is the retention.

### MemoirWorkflow

The executor's position (`pos`), the runner's memory (`work`), the loop's variables
(`loop`) and the usage ledger. `Graph104`, `Graph105` and `Graph108` are the graphs of
the package versions that differ in control. A material has a type, a size and a form
(digest, only metadata, nothing usable); a scene has an identifier, a kind, references
and whether the guardrails object to its text. What the model answers is any draft
(`Drafts`) with wrong references, wrong kinds, a repeated identifier or a harmful text;
what the node does with it is the code's. `Takes`, `ScanEnd` and `OverCap` are how a
batch is cut by count and token cap; `Skipped`, `Consumed`, `Mend`, `CloseLoop`,
`RepairCoverage` are the ends of a round, of the loop and the two repairs. A crash starts
the next attempt from the first node with an empty memory, because no checkpoint holds
content and every node may run again.

### ModelGateway

An attempt is one claim of the run; a replaced attempt keeps running. `Reserve, Acquire,
Start, Send, Answer, Settle` are the call with its commits; the row of the settlement is
`pend` until the session's next commit (`Boundary`). The Redis script is a set of
operators on one record (`Reap`, `Grantable`, `Granted`, `Starts`, `Settled`, `Failed`,
`Recovered`): permits expire by time (`PermitLapses`), those of calls not sent give their
rate back, those of calls that were sent keep it. `Reconcile` is the scan's update of
overdue rows. A permit lives at least as long as the request's timeout allows, so that
`PermitLapses` does not hit a request in flight; see section 5.

### PublishNode

Every attempt that reaches the node looks for an earlier call (`Look`), asks for its
result (`Query`), adopts it (`Adopt`) or begins and sends its own (`Begin`, `Send`). The
answer may be lost, late or never come (`TimesOut`, `Disconnects`), the request may still
be in `net` and arrive later. The business side replays its record, publishes or refuses.
`seen` is the run row as the session loaded it: a take-over or a closed gate after that is
noticed only at the next transaction, a lapsed lease at once. The node's branch for a
conflicting idempotency key (`runner.py:926-964` and `:966-990`) is left out: `KeyIsNotReused`
(a part of `AuditIsSound`) shows that the audit's digest check keeps it from being reached.

### AudioNode

Every execution attempt is a process with one session. Every ledger write first
locks the `AgentRun` row and keeps it until the session commits, so `led` (what the
lock holder sees) and `disk` (what is committed) differ only while the lock is held;
`View(p)` is what a plain read of a process returns. `Verdict` is the guard of every
update (run gate, attempt of the row's owner, token, lease, state), `Reservable` and
`Reserved` are `reserve_job`. A task is a slot's program counter; scenes, segments
and music of all live attempts interleave at every `await`. The provider counts
accepted submissions per slot in `charged`; a failed generation is taken back. The
bucket, abandoned upload threads (`late`), the published document and maintenance
after the retention window complete the life of an object.

## 3. Runs

Passing runs. States are distinct states; each finishes in about two minutes on two
workers.

| Run | Instance | Shows |
|---|---|---|
| lifecycle | 2 workers, 1 client; start, cancel, retry, approve, reject; lapsing leases, failing and pausing nodes, withdrawn package and authorization, held and queue timeouts (1.3 M) | callbacks are numbered without a gap and in order (attempts do not interleave, nothing follows the end); tokens are unique; an outcome is not replaced but by a retry; `RunLedger` implements `RunFeed` |
| liveness | 1 worker, 2 nodes, 1 client; purge, retry; crashes, drain, pauses, optional node, deadline (0.3 M) | every run ends, every purge completes and leaves no checkpoint |
| capacity | 2 runs, 2 ORM transactions, 2 reconcilers, one lease lost under a scan (0.4 M) | an end stays; expired leases are reaped; the counters converge to the rows |
| delivery | 2 dispatchers, 2 callbacks, 2 attempts, 1 replay, crashes, lost and late requests | delivered was accepted and stays |
| catchup | 2 callbacks of 3 kinds, 1 delivery attempt, lost requests, failing queries, retry, purge, deletion, expiry of records | the projection is true, moves only with news, shows success only when published, and reaches the outcome although every callback may be a dead letter |
| launch | 2 overlapping rounds, 2 runs, 1 failure of any kind, deletion of archive and source, collection (0.07 M) | one live run, started runs are bound, the player finds its document, nothing is bound or raised after revocation; orphans, launches and purges converge |
| workflow | 3 package versions, 2 material lists, batches of 2, 4 calls, 2 attempts (0.2 M) | published documents are safe, grounded and cover the materials; images show nothing unsafe; success means everything was read or is over the cap; the run ends |
| model | 2 attempts, 2 routes with one rate limit key that fall back on each other, 2 calls, limits of 1 (1.1 M) | what was sent is on record, a delivered answer is recorded, limits hold, verdicts stay |
| publication | 3 attempts, 2 documents, 2 calls, every fault (1.8 M) | one revision, one open call, one document per key, a report of success is true |
| purchase | 2 attempts, a scene of one segment, paid music, submission limit 2, budget for 3 of 4 possible purchases (0.95 M) | no slot is charged twice, charges are in the committed budget and under the cap, a replaced attempt writes nothing |
| music | 2 attempts, copied and paid music, failed commits, lapsing job leases, abandoned uploads, cancel, maintenance (0.08 M) | objects are tracked, a work has one piece of music, published objects are kept, the node returns |

Some properties are conjunctions of named parts that share a mutant: `CallbacksInOrder`,
`PublicationIsShown`, `LedgerIsSound`, `AuditIsSound`, `RunsAreSound`, `LaunchConverges`,
`RecordIsSound`, `WithinLimits`, `PlaybackIsSafe`; the parts are defined next to them.

Bounds. Two workers, attempts, launchers or reconcilers and two or three callbacks are
enough for the races in question: each needs one late actor, one current actor and one
other writer. `MaxToken`, `MaxNodes`, `MaxRetries`, `MaxEvents`, `MaxReplays`,
`MaxAttempt`, `MaxOps`, `MaxLapses`, `MaxRuns`, `MaxTrouble` and `MaxScenes` are bounds of
the instances; `MaxAttempts`, `MaxSubmits`, `Cap`, `MaxCalls`, `MaxTokens`, `RouteCap`,
`BatchMax`, `Concurrency`, `Rpm`, `Threshold` stand for the code's limits with smaller
values that are still reached. `MaxQueued` and `MaxRunning` of the capacity run are not
reached; see `full_queue` in section 5. Deadlock checking is off because a run that has
ended may do nothing for ever. Symmetry is used in safety runs only. `music` has no scenes
and `purchase` no copied music: the two kinds of slot meet only in the budget and the lock,
which both runs have. In `capacity`, `launch`, `catchup` and `model` a plain read sees the
latest commit (`READ COMMITTED`); MySQL's default is `REPEATABLE READ`, and section 5 says
what changes.

One run shows a disagreement between the code and what the repository says of it:

| Run | Steps |
|---|---|
| late_result | `finish()` checks `can_write`, the lease lapses and the reaper requeues the run, and the result is then written without a condition (`lease_service.py:149`) |

### Fairness

- `RunLedger!Fairness`: sessions and worker steps end, the reaper, the deadline
  repair and the purge scan run at every interval (`reconciler.py` loops), deadlines
  arrive and leases that are not renewed lapse. Nothing is assumed of callers.
- `Capacity!Fairness`: transactions end, `WorkerLoop.run_once` reaps in every turn, some
  reconciler acquires a free lease and a scan goes on, the lease of a dead one expires.
  The number of new requests, claims and lost leases is bounded, so that the system calms
  down; convergence is not claimed under a load that never pauses.
- `CallbackDelivery!Fairness`: dispatchers and the launcher's steps end; cron starts
  the launcher again. Strong fairness on `ReadRemote` and `ReconcileAndCommit` says that
  a query tried for ever is answered some time. No callback need ever be delivered.
- `MemoryLaunch!Fairness`: cron starts rounds, maintenance runs at every interval, the
  Runtime ends what it was asked to end. `AdoptOrCancel` and `Callback` have strong
  fairness: other rounds may take the locks in between, each round tries again. Failures
  are bounded by `MaxTrouble`.
- `MemoirWorkflow`: the worker goes on (`WF_vars(Worker)`). Nothing is assumed of the model.
- `AudioNode!Fairness`: the event loop runs some task that can run (`asyncio`), the
  node's deadline arrives (`ctx.remaining`), `generate` returns. Nothing is assumed
  of the provider: a song may run for ever.

## 4. Proofs

Every theorem is about `Spec` of its module with the constants left open: any sets of
workers, clients, dispatchers, launchers, attempts, documents or routes, any limits and
bounds, and any choice of faults unless the theorem excludes one by name. Each module
has one inductive invariant, one lemma per action that it preserves it, and theorems that
follow from it; `RunLedgerProofs` adds a second and a third, `AudioNodeProofs` a second.

| Module | Theorem | States |
|---|---|---|
| `RunLedgerProofs` | `TypeCorrect` | `TypeOK` |
| | `EventNumbersGapless` | `EventSeqIsGapless` |
| | `FencingTokensUnique` | `TokensAreUnique` |
| | `CallbacksOrdered` | `CallbacksInOrder` |
| | `PurgeLeavesNothing` | `PurgedHasNoCheckpoint` |
| | `OutcomesStand` | `OutcomeIsNotReplaced` (action property) |
| | `FeedImplemented` | `ImplementsFeed` (refinement of `RunFeed`), if `OneAtATime` |
| `CallbackDeliveryProofs` | `TypeCorrect` | `TypeOK` |
| | `AtLeastOnce` | `DeliveredWasAccepted`, without the fault `expire` |
| | `ProjectionTrue` | `ProjectionIsTrue`, without `overdue`, `SnapshotReads = FALSE` |
| | `ShownMovesForward` | `StatusOnlyMovesWithNews` (action property), same conditions |
| | `PublicationShown` | `PublicationIsShown` |
| `PublishNodeProofs` | `AuditSound` | `AuditIsSound` |
| | `PublishedAtMostOnce` | `PublishedOnce` |
| | `ReportsAreTrue` | `ReportedIsPublished` |
| `MemoryLaunchProofs` | `RunsSound` | `RunsAreSound` |
| | `PlayerFinds` | `PlayerFindsDocument` |
| | `RevocationIsFinal` | `RevokedStaysRevoked` (action property) |
| `ModelGatewayProofs` | `RecordSound` | `RecordIsSound` |
| | `LimitsHold` | `WithinLimits`, without the fault `slow` |
| | `VerdictsStand` | `VerdictIsFinal` (action property) |
| `CapacityProofs` | `TypeCorrect` | `TypeOK` |
| | `EndsStay` | `EndStays` (action property) |
| `AudioNodeProofs` | `LedgerSound` | `LedgerIsSound` |
| | `PublishedKept` | `PublishedIsKept` |
| | `NeverChargedTwice` | `ChargedOnce`, without the fault `commit` |
| | `LateIsFenced` | `LateNodeIsFenced` (action property), without the fault `commit` |
| | `ChargesReserved` | `ChargesAreReserved` |
| `MemoirWorkflowProofs` | `PlaybackIsSafeAlways` | `PlaybackIsSafe` |
| | `PublishedCoversAlways` | `PublishedCovers` |
| | `SucceededReadEverythingAlways` | `SucceededReadEverything` |

Assumptions on constants are the named `ASSUME` of each module, which the runs evaluate.
They say that bounds are numbers, faults are known, and that the values standing for
"nothing" are not members of the sets they are compared with: `PublishAssumption` also
that there is a document, and that `"none"` is not one; `MemoryLaunch` that `None` is no
launcher, run or phase; `Capacity` that there is a run; `AudioNode` that a piece of music is
not a scene's slot and that a document has finitely many scenes and pieces of music, without
which a budget has no sum; `MemoirWorkflow` that no two materials of a snapshot have the same
reference (a reference is a table and its primary key). Seven theorems exclude a fault or a
combination of requests because the code does not keep the property under it:

- `expire`: the receiver's idempotency record is kept seven days; an event replayed after
  that is applied or dropped without its key being known, so that "the receiver has a
  record" is no longer true of it.
- `overdue` and `SnapshotReads`: the two start compensations of section 5
  (`memory_runtime_launch_service.py:265`, `:269`).
- `slow`: httpx counts its timeout per phase, so that a request may outlive the permit
  whose life was computed from the sum of them.
- `commit`: a commit of the job ledger that fails takes back a settlement or a reservation
  that a task goes on with (*unsettled* and *reissued_token* in section 5).
- `OneAtATime`: there is one client, or the clients send no start, purge or retry; and there
  is no start or no run deadline. The code reads the row without a lock, and a request
  without a callback is not stopped by the event number: two retries, two purges, and a
  start after a deadline that has already ended the run give commits `RunFeed` does not
  allow (`agent_run_service.py:406`, `:299`, `:205` in section 5). Cancels, approvals and
  rejections may come from any number of clients if these are left out; workers, the reaper
  and the scan are never limited.

The arguments:

*RunLedger, numbers and tokens.* A commit writes a number that was computed from a row
loaded long ago, and a worker holds a token from an earlier claim, so none of the three
properties is inductive. `LedgerInv` adds what connects a session to the row: in every
session `mine.seq = view.seq + Len(events)` (`Numbered`), a worker that is not inside a
transaction has no uncommitted events, a worker that settles has an outcome, and every
worker's token was issued by the row (`Fit`). `Clash` lets a commit with events through
only if the committed number is still the one loaded, so the flushed `seq` is the old
length plus the events; a commit without events does not write `seq`; and `token` is only
written by `Claim`, which takes the next one.

*RunLedger, history.* `Ledger` adds `History` to it. What a session may append depends on
the row it loaded, not on the row it meets, so the invariant says of every loaded row what
cannot have changed since without another callback (`Seen`): the attempts that had ended,
whether the run was finished, which status it had. A session that appends callbacks
commits only if none came in between, and what it read is then still the truth. A worker's
object differs from its row only in what its own events say (`SameRow`, `OwnEvents`), a
request only withdraws or reopens (`RequestFits`). A checkpoint is saved under the lock of
an active row (`SaveFits`), and a scan that completes a purge drops every checkpoint there
is, because none can be added while the privacy is withdrawn (`PurgeFits`).

*RunLedger, feed.* `FeedInv` adds `Current` to `Ledger`. `RunFeed` compares the status and
the version before and after a commit, but what is committed was computed from a row loaded
earlier, and changes without a callback (a lease that is reaped or released, a reopening)
are not stopped by the event number. `Recent` bounds what they can have done to a loaded
row: as long as no callback came, the status is the same or became pending, and the version
is the same or one higher. `Voice` says that the callbacks of a worker end with its
object's status and carry versions between those of the row it loaded and of its object;
`AtWork` that a worker that still has the run finds it running, which is why a node's
`step_changed` is true. `Asks` and `Alone` say what each request changes and that one that
starts, withdraws or reopens still finds the row as it read it; they need `OneAtATime`. A
step is then described by what it may do to the row under the others (`Mild`, `Calm`,
`Spares`; `Preserve` concludes the invariant), and `FeedStep` turns such a commit into a
step of `RunFeed`.

*CallbackDelivery.* A claimed row is pending and nobody else's until the batch commits
(`DispatcherFits`), so `delivered` is written only with an answer in hand. The reference,
the launcher's objects and what it read from the Runtime each say what some callback said
(`Tells`, `RefFits`); the one status the launcher writes without a condition meets the
row it was read from, because the lock was taken before (`LauncherFits`).

*PublishNode.* The run row a session loaded is current while the lease it shows has not
run out (`WriterHolds`), so one attempt at a time writes the audit, and what it has read
of it is still true when it writes (`HolderIsCurrent`). A call is therefore begun only
after all earlier ones failed and only for their document (`OneOpenCall`, `OneDocument`);
the unique record of the business side does the rest (`RecordedOnce`).

*MemoryLaunch.* A live run is the one the create key names, and the key outlives it
(`LiveHasKey`). Only a run whose reference is committed has a start event
(`EventsNameRuns`); a round that decided to bind holds the archive's lock in generation 1
(`RoundsAreLocked`); a publication that could still be carried out is older than any
revocation (`RevocationHolds`).

*ModelGateway.* A usage row belongs to one attempt until its settlement is committed or
rolled back (`RowsAreOwned`), so the status of the row follows from where its attempt is
(`StageFits`) and a settlement waiting for its commit meets a row nobody else has judged
(`PendingIsNew`). The Redis side never holds more permits or starts than the limits
(`KeysAreLimited`), and a request in flight has its permit (`PermitOutlives`).

*Capacity.* A request or a worker that ends a run has loaded a row its operation applies to,
and no row is finished without another callback (`Current`), so the unique event number
lets it end only a run nobody has ended since. A scan that has ended a run keeps its row
locked until it commits (`Exclusive`), and took it from an open run (`MovesAreOpen`).

*AudioNode.* A committed key is not replaced by what is being written (`KeysAgree`), a task
uploads only under a committed key and reports what is in the bucket (`TasksFit`), and what
the ledger calls uploaded is there until maintenance begins (`UploadsStand`); this part of
the invariant holds with failing commits too. Money needs that commits do not fail: the one
task whose token is the row's is the row's owner (`Tokens`), of a slot that costs something
only the lease is ever uncommitted (`PaidAgree`), a slot open for a purchase was not charged
for (`RowsFit`), and a task that calls the provider holds a row that says `submitting`
(`PurchasesFit`). So nobody but the holder can say that a purchase failed, and it says so
only when it was refused, taken back or settled. Steps of a task are of three kinds, with one
lemma each: the row stays (`StillStep`), its holder writes it (`UpdateStep`), it gets a new
token (`ReserveStep`, `RotateStep`).

*AudioNode, budget.* Attempts charge while nobody's session can be trusted to commit, so the
bound must not rest on what a task believes. `Budget` says it of the two ledgers: in each the
budget is the sum of what the rows have reserved and within the cap (`Books`), a committed
row has reserved no more than the uncommitted one (a reservation may be taken back by a
rollback, never a charge), and for every slot the charges made *and the calls about to be
made*, at its price, fit into what the committed row has reserved (`Covers`). A task is about
to call only after its reservation was committed, so failing commits are allowed. The sum
over slots is a fold over a set, about which nothing can be proved by induction here; the
proof replaces the fold by the graph of its partial sums (`Tally`, `Sums`) and every
induction by the smallest set that would be a counterexample (`SumExists`, `TallyUnique`,
`SumGrows`, `SumIsMonotone`).

*MemoirWorkflow.* What is published depends on ten nodes that each took what the earlier ones
left, in an attempt whose memory a crash empties. `IInv` therefore says for every position
what has been established there: the snapshot has been read and its types found (`Prepared`),
the cursor counts materials that were read or left out unless a round failed (`LoopFits`), the
scenes in hand are framed, then cover the types, then carry nothing harmful (`DraftFits`), and
what the review lets through is `Sound`. Any draft may come back from the model, so each
node's lemma is about its own code only: a scene of an unknown kind is not accepted, the loop
is left only with a cover and a summary, the coverage repair adds a card for each missing
type and drops none, and a review that objects shows the baseline instead.
Lists are cut by functions on positions (`Nth`, `Picks`) instead of recursion over the list;
where a least position is needed it comes from the well-founded order of the naturals.

Left to TLC:

- the liveness properties: fairness and ENABLED are outside the prover;
- what `RunLedger` does under `ImplementsFeed` outside `OneAtATime`: it does not hold there
  (section 5), so there is nothing to prove.

Each module is proved on its own: `CallbackDelivery` has `RunFeed` as its environment by
construction, and no theorem composes the two.

## 5. Disagreements and observations without a run

These were seen as counterexamples of smaller or differently set instances, or follow
from one definition; no run is kept for them. `D` is `src/头脑风暴/docs/回忆录技术探索/`.

Run ledger and capacity:

- `agent_run_service.py:205`: `start` commits `dispatch_state = queued` on a row that a
  held timeout, a deadline or a cancel has ended since it was read; the run is terminal and
  queued, and its purge never completes. `D/14:70` says an ended run is `finished`. A cancel
  racing the timeout fallback or the approval of a waiting run does the like.
- `run_queue_service.py:49-50`: after a heartbeat that was refused because of a cancel,
  `finish` asks the outdated object and settles `failed`; the comment says such a result
  cannot be settled.
- `agent_run_service.py:276`: a cancel committed after an approval of the same version
  changes the status and leaves `status_version`; `D/14:68` says every status update is
  conditional and increments it.
- `agent_run_service.py:406`: with two clients, a second retry of a failed run commits after
  the first one's attempt has succeeded and takes the outcome and the version back;
  `D/14:66,475`. `OutcomeIsNotReplaced` allows a reopening and is proved for any number of
  clients; `RunFeed` does not allow this one, so `ImplementsFeed` is checked with one client
  and proved where `OneAtATime` holds.
- `agent_run_service.py:299`: `purge` tests `privacy_state` on the object it has loaded. A
  second request, loaded before the first was committed and committed after
  `complete_purge`, writes `purge_requested` over `purged`; the next scan completes it again.
- *full_queue*: with the queue full, one expired lease makes `reap_expired` raise
  `AdmissionRejected` in every `WorkerLoop.run_once` (`worker.py:136`) and in every scan
  (`reconciliation_service.py:138`), until something leaves the queue; as the worker claims
  only after reaping, nothing does. `lease_service.py:239` and `worker.py:117` describe
  reaping as what keeps the queue moving.
- `reconciliation_service.py:341`: a bucket whose counts are equal stays in the session's
  identity map and later moves of the same scan start from it; a cancel racing a claim leaves
  a unit of `running` that no run has. The next scan heals both (`AdmissionConverges`).
- `reconciliation_service.py:207`: a dead `run_dispatch` event of an earlier attempt is
  found again after a retry has queued the run, and ends the new attempt.

Delivery, launch and deletion:

- *stale_snapshot* (`CallbackDelivery` with `SnapshotReads = TRUE`): with repeatable reads
  the launcher's start reads the reference from its first snapshot, overwrites a terminal
  status with `pending`, and the reconciling update requires a newer event that never comes
  (`memory_runtime_launch_service.py:265`).
- `memory_runtime_launch_service.py:269`: the start compensation writes `pending` from an
  object loaded before the request although a callback has advanced the row; the docstring
  at :257 excludes it. It needs a lost start answer, an overdue launch event and a callback,
  which no passing run combines.
- `memory_agent_adapter.py:190` refuses a remote status `partial`, which the reconciliation
  accepts: a partial run whose callback is lost is never shown, and the exception rolls back
  every launcher round.
- `memory_agent_callback_reconciliation_service.py:104` does not watch references that look
  final: the outcome of a retry whose callbacks are dead letters is never asked for.
- `memory_agent_callback_reconciliation_service.py:90`: `session.refresh` discards the purge
  confirmation, because the production session does not autoflush; the test that covers it
  uses one that does.
- `memory_deletion_compensation_service.py:105-111`: a deleted source stays shown when the
  baseline was collected or the source is deleted before the publication;
  `invalidate_deleted_source` is called by tests only.
- `start_held` is sent before the archive is looked at; `deliver_pending` takes the oldest
  20 events and can starve the rest; an orphan of a deleted archive is cancelled and not
  purged; a publication checks the epoch on the object its session holds.

Memoir node, model and tool calls:

- *unsettled* (`AudioNode` with the fault `commit` for paid music): the commit of the music
  settlement fails and its result is ignored; delivery fails too, the row is committed as
  failed without a settlement, and the next attempt buys the music again
  (`memoir_audio_service.py:1237` against the comments at :1270, :1281, :1497).
- *reissued_token* (`AudioNode` with the fault `commit` for copied music): copied music is
  reserved and goes on without a commit (`memoir_audio_service.py:894-906`). When another
  task's commit in the same session fails, its rollback (:1512) takes the reservation back;
  the next attempt gets the same `lease_token` on the same `job_id`, and the late attempt's
  writes pass `_load_for_write`, which compares the token and the row's own owner
  (`memoir_audio_jobs.py:1134`). The docstring of `rotate_lease` (:846) says late writes of an
  earlier session are all refused.
- `memoir_audio_service.py:1218`: a resumed paid piece whose key is fixed builds a new key,
  is refused with `OBJECT_KEY_CONFLICT` and is never delivered, while the comment at :1282
  says the same key is uploaded again. Only the copied music keeps its key.
- *failed_blocks*: `find_publish_attempt` skips failed calls (`tool_call_audit_service.py:266`),
  but `_begin` (:102) compares the digest with any call of the key: after a failed call with
  another document the node can never publish.
- Image rows count against `max_model_calls`: a run resumed after its media node may fail
  with `LOOP_BUDGET_EXHAUSTED`, although `memoir_media_service._record_usage`, the 1.0.8
  graph (11-18) and `ENV_CONFIG.md:538` keep images out of the model's budget.
- A throttled call inside a loop round leaves two rows, which the executor takes for a
  violated contract (`LOOP_MODEL_CALL_CONTRACT_VIOLATED`); an exhausted loop of 1.0.6 and
  later practically always fails (`ENV_CONFIG.md:551`); materials over the cap are dropped
  without a trace; the cap depends on the remaining tokens; a type with only sensitive
  materials fails every run from 1.0.5 on; after a crash behind publish the status is that
  of the last attempt.
- A crash between `reserve` and `mark_started` leaves a `reserved` row for ever; httpx
  counts its timeout per phase, so that a request may outlive its permit; the reserved cost
  counts the input price only; a rolled back transaction takes a pending settlement with it
  and the scan then finds the call `unknown`.

Smaller observations: the receiver locks reference then archive, the launcher archive
then reference; the dispatcher's claim does not test `next_attempt_at` again; the
callbacks of a batch use the privacy state as first loaded; a refused segment reservation
keeps the `AgentRun` row locked until the session's next commit.

## 6. Not modelled

Contents (prompts, texts, numbers of a document), HTTP encoding, signatures,
credentials, configuration, logging and metrics have no state that a property here
depends on. Package registration and activation, the read-only endpoints, the command
line, the test harness and mock servers, the object stores and the providers' protocols
are left out: they are pure I/O, or tooling around the services, or CRUD of one row.
Step rows and traces are append-only and no decision reads them. Several archives in one
launcher round, and several buckets whose limits differ, are reduced to one.

Next:

1. Package activation against the freezing of a run's package.
2. A refinement of `RunLedger`'s `Work` by `MemoirWorkflow`.
