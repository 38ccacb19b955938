# Verification of noodle-mcp-runtime

TLA+ modules for the parts of the runtime in which several processes, transactions
or providers meet, with TLC runs on small instances and proofs for all of them. Paths
are relative to `src/packages/` unless they start with `src/`. `PROJECT.json` maps each
definition to the lines it models and lists the hazards, runs, findings and theorems.

    tlc -workers 2 -config CoordinationCustody.cfg MCOperationCoordination
    tlapm OperationCoordinationProofs.tla

## 1. The system

A service (`service`) accepts deployments of compiled MCP servers, keeps them in
PostgreSQL, serves their tools through `protocol` and `transport-http`, and executes
tool calls with `runtime`, which dispatches to connectors. Several instances share one
database; a self-hosted installation shares one asset volume between processes.

| Component | State it keeps | Operations | Talks to | What is hard | What makes it correct |
|---|---|---|---|---|---|
| Operation coordination (`service/src/operation-coordination*.ts`) | a row per held external resource, append-only receipts | acquire, finish, resolvePrevious, review | runtime, PostgreSQL, connected account | lost answers, late finishes, reconnection, reopening under a new epoch | one holder; a write only by the holder; an uncertain write keeps the resource |
| Coordinated execution (`runtime/src/operation-execution.ts`) | a frame per invocation: lease, write started, evidence | invoke, admit nested action, report, finish | connectors, coordination | deadlines while a provider is silent, death between write and finish | no second write; missing evidence is never success; always ends |
| Asset lock (`asset-storage/src/filesystem-coordination.ts`) | lock and recovery path, owner and lease in the file | acquire, heartbeat, recover, release | file system | death at any call, suspended holders, crossing recoveries | exclusion, acknowledged updates survive, nobody wedged |
| Knowledge publication (`knowledge-operations/src/publication.ts`) | a plan per deploy, caches | publish, activate, compensate, finish, sweep | registry, revision store, index | commits in the middle of another transaction | artifact and revision stay a pair |
| Revision store (`knowledge/src/postgres-revision-store.ts`) | revisions, texts, pins, leases | stage, activate, rollback, collect | PostgreSQL | row locks, garbage collection beside publication | one active revision; what is pinned stays |
| Registry (`service/src/registry*.ts`) | in-process caches over deploy records | deploy, rollback, access, archive, recover | config store, publication, artifact store | outer transaction, retries, automation superseded | retries tell the truth; one active record per scope |
| Deployment lifecycle (`service/src/deployment-execution.ts`, `archive-sweeper.ts`) | audit, reachability, retention | deploy route, archive, sweep | registry, asset store | death between two stores | no live app loses its data |
| Compute worker pool (`compute/src/worker-pool.ts`, `worker-entry.ts`) | slots, queue, timers; the worker's pending calls | execute, close, dispatch, host call, result, deadline, expiry, lost worker | worker threads, host bridge, code connector | late results and calls, expiry in the same tick, workers that hang or die | each job is answered once and in time; no free place beside a queue; no thread left over |
| Operation evidence (`service/src/operation-evidence.ts`) | journal of dispatches | begin, finish, sweep | runtime | late finish against deadline | an outcome is written once |
| Ingestion (`service/src/business-information/`) | fenced leases, checkpoints | claim, scan, commit page, fail, reset, pause, replace, refresh, suppress | source connectors, PostgreSQL | the provider changes under a scan, leases lapse, commits whose answer is lost, a scan continued by another worker | a caught-up replica is the source; it never goes back in time; a refresh is answered by a later scan |
| State handles (`runtime/src/state-handles*.ts`) | revisioned values with expiry | read, write, delete | runtime | expiry under a writer | a stale revision never wins |
| Confirmations (`runtime`, `protocol`, `service/src/mcp-confirmation-nonce-postgres.ts`) | single-use nonces | issue, consume | clients, instances | replay on another instance | at most one use |
| Admission limits (`admission-limits`) | daily counters, attempt receipts | consume, replay | PostgreSQL | retry after a lost answer | never over the limit, never twice |
| Asset objects (`asset-storage/src/filesystem-store.ts`) | bytes, metadata, reservations; a registry of tokens per process | plan, upload, verify, record reachability | asset lock, deployment execution | death or power loss between renames, streaming outside the lock, siblings with other quotas | no metadata without bytes; what was acknowledged stays; quotas hold across processes |
| OAuth, device flow, purge reconciliation | codes, tokens, approved artifacts | issue, redeem, rotate, apply | PostgreSQL | replays | single use |
| Protocol, connectors, transport, compiler, authoring, CLI, assistant, observability | little or none | conversion, I/O, user interface | | | data, out of this project's question |

## 2. Modules

| Module | Models |
|---|---|
| `Custody` | what coordination promises, without saying how |
| `OperationCoordination` | coordination and coordinated execution, refining `Custody` |
| `AssetLock` | the asset lock and the reservations it protects |
| `KnowledgePublication` | deploy, publication, revision store, rollback and garbage collection together |
| `ComputeService` | what the compute pool promises its callers |
| `ComputeWorkerPool` | the pool and the worker threads it talks to, refining `ComputeService` |
| `SourceIngestion` | the replica of one connected source: claims, scans, page commits, refresh requests |
| `AssetObjects` | hosted assets on the shared volume, above the lock of `AssetLock` |
| `MC*` | symmetry and constant functions for TLC |
| `*Proofs` | theorems about the module of the same name |
| `KnowledgePairingProofs` | theorems about `KnowledgePublication`: one active revision, artifact and revision a pair |
| `ComputeRefinementProofs` | `ComputeWorkerPool` implements `ComputeService` |

Definitions marked *Mutant* in a comment are what-if variants of the definition below
them (a dropped guard, a missing reset). No specification uses them; they show that a
property notices when the code goes wrong that way.

### OperationCoordination

`rows` is the custody table and `receipts` the append-only resolutions. A store call is
one transaction under the resource's advisory lock, hence one step. Whatever an `await`
separates is separate: `Start`, `Authorize` and `Claim` are the halves of `acquire`;
`AdmitAction`, `Dispatch` and `Answered` those of a nested write; `ResolveStart`,
`ResolveSend` and `ResolveCommit` those of `resolvePrevious`. A random token is named by
the invocation that drew it. `generation` is the connected account's live generation and
`epoch` the epoch of the running service. There are two deadlines, as in the code:
`abortAt` of the AbortSignal armed before acquisition, and `deadline` of the record,
computed after `authorize()` answered.

`pc` is where the invocation is and `call` the host call its connector has made. Sandboxed
code is suspended during a host call (`compute/src/sandbox-eval.ts:254`), so a connector
has one in flight at most and returns by itself (`Return`) only without one. Its worker may
be lost though, the pool closed or the backstop fire (`compute/src/worker-pool.ts:133-154`,
`305-327`): then the connector's promise rejects, the `finally` of
`runtime/src/operation-execution.ts:463-469` reports, and the host call goes on without it
until it is answered or the abort signal stops it (`WorkerLost`). `adrift` remembers the
invocations to which this happened between the admission of a write and its dispatch while
the signal had not fired. Such a write may leave after the row was recovered or reviewed
away (finding 5); `Custody` has the case too (`CutOff`, `StrayWrite`), and the properties
name it instead of assuming it away.

Assumed of code outside: a connector reports `completed` or `rejected` only when true;
it resolves a prior operation only after the source showed that write's fate; abort
timers are punctual; provider and reviewer do what they like, when they like. A
resolution by a reviewer is allowed to hand a resource on over an open write: the
properties say "unless reviewed" because that is what a reviewer is for.

Left out: `importUnknown` (a one-off operator import behind a fence) and `list`.

### AssetLock

One step per system call another process can see. A lock file is an inode: the holder
links its own to the lock path and keeps it open. `owner` and `leased` are what is
written in the file. An inode number is reused once no path links it and no living
process has it open, which is what makes inode comparison meaningful. `Stall` lets a
lease run out under a living holder, at most `MaxStalls` times; a heartbeat may have
passed its check before. Operations of one process queue in `withProcessLocalLockTurn`,
so a process is one actor. Private files (pending, temporary, released) have no state of
their own. The protected transition is reduced to its shape: read all, assert, write all
plus one entry, assert, return.

A process id is not reused in the model. After an identity mismatch in `releaseLock` or
in the check after publishing, the operation throws; its effect on the files is what
`Verify` and `ReleaseCheck` say. A system call of `acquireLock` that fails while the lock is
still its own, after which `safeUnlinkIdentity` removes it (`:325-328`), is left out.

### KnowledgePublication

A deploy holds the organisation's advisory lock (`orgLock`) in an outer transaction; the
revision store commits transactions of its own in the middle, on other connections. Only
`activate` and `rollback` of the store can be open across a step of another caller (they
take row locks), so they are an *Open* and a *Commit* step; `target` and `displaced` are
the rows such a transaction has seen. The outer transaction writes only at its end as far
as others can see, so `artifact` and `records` change in `Commit`. `cached` is the
record a process keeps in `#records` from before the COMMIT. A retried call may be
served by that process or by another: both are allowed.

Reductions: one organisation, one component; the index is rebuilt from durable text, so
`Persist` only asks that the text is there; a rollback's work under the lock is one step,
its pairing after the lock is not; a garbage collection is one statement and one step
(a row it waited for is skipped); `publishSiteCorpus`, the crawler's own publication, is
left out, and so is `customer_auth_audience_conflict` after persisting, which answers a
failure but commits.

`excused` collects the events after which the code does not restore the pair, so that
`PairRetained` can say that nothing else parts it. It is bookkeeping of the model:

| Event | Why the pair is not restored |
|---|---|
| `crash` | process dies between activation and COMMIT, or between rollback and pairing; there is no recovery step |
| `disconnect` | the outer connection is lost and with it the advisory lock; the deploy goes on unprotected until its next use of it |
| `commit` | COMMIT fails after publication has returned |
| `release` | `finish` throws in the `finally` block, past the catch that compensates |
| `compensate` | compensation fails or cannot get its row locks; `.catch(() => undefined)` |
| `pair` | pairing after a rollback fails |
| `automation` | the run is refused after publication has returned (finding 2) |
| `overlap` | another caller takes the lock between a rollback and its pairing |
| `retry` | the deployment rolled back to is not pinned to exactly its own revision (finding 3) |

`OneActiveRevision` excuses only two of them, `RecordedAreKept` none.

### ComputeWorkerPool

The pool lives on the main thread, so each of its callbacks (`execute`, `close`, a
message, a timer, an exit event) is one step, `#pumpQueue` at its end included: `Pump`
is given the slots, workers and answers the callback has produced so far and moves the
queue up from there. The worker's half (`worker-entry.ts`) takes steps of its own. The
sandbox is suspended during a host call, so one message of a run is under way at most,
and `stage` says which:

| `stage` | Meaning | Left by |
|---|---|---|
| `ready` | the thread has no run | dispatch |
| `sent` | the run message is under way | `TakeRun` |
| `running` | the sandbox is evaluating | `PostCall`, `PostResult` |
| `calling` | a host call, control call or log entry is under way | `OnHostCall` |
| `awaiting` | the host is serving it (`serving`) | `Respond` |
| `replied` | its reply is under way | `TakeReply` |
| `posted` | the result is under way | `OnResult` |

`active` is what the main thread waits for and `exec` what the thread has. They differ
once a run was abandoned: a terminated thread may go on for a while, beside its
replacement, and post more messages. A message `#onMessage` ignores changes nothing and
is no step. `thread` is `dying` once `terminate()` was called, and `lost` between the
thread's end and its exit event, during which the pool may still dispatch to it.

Reductions: a worker is named by the job it was started for, which is unique, instead
of by an index; `#slots.find` takes the first idle slot and the model any; a slot closed
by `close()` keeps its `active` in the code, marked as settled, and loses it in the
model; `error` and `exit` both reach `#onWorkerLost` and the second is the case of a
dropped slot; a result stands for a value or the sandbox's own error, the interrupt's
`timeout` among them. Timers are taken as punctual: the main thread never runs sandbox
code, and a late timer only shifts every answer by its delay.

### SourceIngestion

One binding with its lease, scan, position and replica, and any number of workers that
run `runOne`. A store call is one transaction under the organisation's advisory lock,
hence one step; a worker's `Scan` reads the provider outside of any transaction, and its
page is committed, refused or lost later. `lease[w]` is the copy the worker took with it
at `claimDue`, `fence` what the row says now.

The provider has its own clock: `changedAt` is the version of a record, and every change
moves the clock on. Assumed of it: a snapshot lists the records in a fixed order and ends
with the time it started at as its checkpoint, or with none; a changes scan lists changes
in the order they happened. A page speaks of one record; several per page would only
take fewer steps.

| Code | Model |
|---|---|
| an expected revision that is stale answers `conflict` | a stuttering step |
| `commitPage` succeeds and its answer is lost | `CommitUnknown`, after which the worker reports a failure |
| a worker outlives its lease, or dies | `LeaseOutlived`, `Crash` |
| `replaceSourceBinding` deletes records and suppressions and supersedes requests | `ReplaceBinding`, with a new fence, so the binding's own generation number is left out |
| the retention purge | `PurgeExpired`, remembered in `lapsed` until the record is observed again |

Left out: replay of a refresh request by its idempotency key and pruning of old requests
(both change nothing the properties see), `reauth_required`, capacity budgets, the fields
of a record.

### AssetObjects

The files are `bytes`, `meta` and `caps`; the `*Disk` variables are the same files as far
as a directory sync has made them durable. A rename is visible at once and durable with
the sync after it, so a locked section is one step per rename: a sync is part of the
step that follows it. `at`, `holder` and `job` say how far the one section there can be
has come; `AssetLock` says when the lock is exclusive, and this module takes it to be.
`known` is `FilesystemUploadRegistry`, one per process. An upload's way through
`#handleUpload` is `Put`, `PutReconciled`, `Check`, `CheckDone`, the streaming outside the
lock, one of the four endings of `#commitStagedUpload`, and `Revoke` after an error.

`SectionFails` is a system call that throws after the section's last rename: the lock is
released and the rename may not be durable. `unsynced` remembers for which objects that
is so until somebody syncs the directory.

`acked` and `recorded` are what callers were told, and nothing is ever taken out of them.
The code breaks a promise in two ways, each with a history of its own that `PromisesKept`
names, so that it says of everything else that it is kept:

* `replaced`: an upload of the same object under another identity (the source file moved)
  and the repair of corrupt bytes start the metadata afresh, with an empty list and
  `retainIndefinitely: false` (`filesystem-store.ts:506-516`). The deployments recorded
  before are forgotten, those of a saturated list too, although
  `asset-storage/src/filesystem-layout.ts:36` says of saturation that "every current or
  future collector must retain this asset".
* `undone`: a section fails between the rename of the metadata and its sync; a later upload
  finds the metadata and is answered 201 (`CommitExisting`, `filesystem-store.ts:477-484`), or
  a deployment finds itself recorded (`MarkNothing`); then the power goes before anybody has
  synced, and the metadata goes back to what it was.

Reductions: all objects have the same size and one scope, so a quota is a number of
objects; processes may have different quotas, as the store's own tests do. A token is
bound to its process and asset and may be drawn again once nobody remembers it.
A second PUT of a token under way is `PutAgain`, which has the effects of the
reconciliation; when there is nothing to sweep it is no step. `PlanRefused` also stands for a model that ran out of tokens. Serving changes nothing.
Checks of paths, headers, sizes and images end as `UploadFails` or `PutReconciled`. Writing
metadata above 64 KiB throws before anything is renamed and leaves no trace.

## 3. Runs

Twelve runs. All bounds are constants of the modules.

| Run | Instance | Question |
|---|---|---|
| `CoordinationCustody` | 2 invocations, 1 resource, time 0..2, one reconnection or reopening, with fairness | Is every write sent under custody unless it was adrift, does an open write keep its resource, are receipts final, does time never free a resource, is recovery under the original authority, is it all an implementation of `Custody`, does every invocation end? |
| `CoordinationCutOff` | 2 invocations, 1 resource, no crash needed | Counterexample of `ProvenIsSettled` (finding 5) |
| `AssetLockSurvivor` | 2 processes with 3 operations, 1 death | Does the survivor recover, exclusively and without losing an acknowledged entry? |
| `AssetLockContended` | 2 processes, a stale lock at the start, 1 death, 1 stall, with fairness | Is no lock orphaned, does success mean the operation was alone, does every operation end? |
| `AssetLockRecoveryRace` | 2 processes, a stale lock, no fault at all | Counterexample of `AcknowledgedKept` (finding 1) |
| `KnowledgePairing` | a deploy, its retry by an automation run, a rollback; all six faults | Do recorded deployments keep their revision, does nothing but the listed events part the pair, when can two revisions be active, does every call end? |
| `KnowledgeSuperseded` | one automated deploy, no fault | Counterexample of `FailureRetainsPair` (finding 2) |
| `KnowledgeRetriedRollback` | a deploy, its retry, a rollback, no injected fault | Counterexample of `RollbackReselectsOwn` (finding 3) |
| `KnowledgeFalseReplay` | a deploy and its retry, COMMIT may fail | Counterexample of `RetryReportsCommitted` (finding 4) |
| `ComputePool` | 3 jobs, 1 worker, budgets 1 and 2, grace 1, recycling after 2 runs, time 0..4, with fairness | Is each job answered once, in order and in time, is a free place used, are threads and abandoned calls accounted for, is it all an implementation of `ComputeService`? |
| `SourceReplica` | 2 workers that commit 1 and 2 pages per run, 2 records, 1 refresh key, provider time to 2, 2 upsets, with fairness | Does a caught-up replica mirror the source, does a record never go back, is a refresh answered by a later scan, and answered in the end? |
| `AssetObjects` | 2 processes that allow 1 and 2 objects, 3 objects, 4 tokens (two of them for one asset), 3 deployments, lists of 1, 1 fault and 1 power loss | Do quotas hold across processes, does what was acknowledged survive but for the two breaks, does no list outgrow its parser? |

Why the bounds are enough. Two invocations are a holder and one that recovers, reviews
aside; what a third would do after a handover is what the second does, and the proofs have
any number. `MaxChanges` bounds reconnections and reopenings together: either makes an
authority stale. A second resource adds nothing to a property of one: no step
reads two, and the proofs do not depend on the number. `Bound = 1` and `MaxTime = 2` make
a deadline pass during, and after, each phase; an invocation that cannot end before
`MaxTime` does not start, so that the clock's end is not mistaken for a hang. Three
inodes are one for each process and one for a stale lock. Each fault kind of
`KnowledgePairing` may strike any caller and any number of times; `MaxFaults` bounds how
many kinds occur in one behaviour and is set to all of them.

Three jobs for one worker are one that runs, one whose time can run out in the queue and
one behind it, and the second of two runs recycles the worker. With `MaxWorkers = 2` the same configuration passes as well (1.4 million states);
it is not kept as a run because the proofs cover every pool size.

Two records are one before and one after the cursor of a snapshot. An upset of
`SourceReplica` is a failure, a lapsed lease, an operator's action or a poll: two of them
make a takeover of a takeover, or a takeover of a scan that was continued. With provider
time to 3 (14 million states) the same invariants and the inductive one hold.

Three objects are one more than the larger quota, so that forgetting what is stored would
show. `MaxFaults` bounds deaths, failing calls, expiries and rotten objects, `MaxLosses`
power losses: one of each make both breaks of `PromisesKept` happen (a failing call before
the power loss, a rotten object that is uploaded again), and leaving `replaced` or
`undone` out of the property, or the objects kept in `undone`, lets TLC find a violation.
What takes more faults is covered by the proofs, which bound nothing. An object may also
change its identity: with a fifth token, for the icon moved to another path, and two
deployments, the same properties hold (7.4 million states); the proofs cover it as well,
and it is not kept as a run because of its size. A list of one deployment is full when the second arrives. `Symmetry`
exchanges the deployments; the run checks no liveness.

`CHECK_DEADLOCK FALSE` everywhere: each system stops when every call has ended.

`AcknowledgedKept` appears twice. It holds when one process alone can recover
(`AssetLockSurvivor`) and fails when two recover together (`AssetLockRecoveryRace`): the
pair of runs says where the lock can be trusted, and section 5 proves it for any number
of operations and inodes. What holds in both is
`AcknowledgedAlone`, the assertion right before the result is returned.

## 4. Fairness

* `OperationCoordination`: time passes, and a running process gets on with what it has
  awaited (`Progress`). Nothing is assumed of providers, reviewers, connectors or of a
  recovery's success; a connector returns at the latest when its signal fires, and a host
  call whose connector is gone is fair on its own, as its promise is still pending.
* `AssetLock`: a living process keeps running its operation and its heartbeat writes.
  Nobody is made to begin, to die or to stall.
* `KnowledgePublication`: a deploy or rollback under way takes some step, where failing
  is a step too, and a lease expires. A transaction that waits for rows has an end because
  PostgreSQL breaks deadlocks and statements have a timeout; that is why the failing steps
  may satisfy the fairness. A failing `acquireLease` is not fair: getting past a dead
  publisher has to come from the lease going stale.
* `ComputeWorkerPool`: timers fire and time passes. Workers may hang or die, a host may
  never answer, nobody is made to call or to close.
* `SourceIngestion`: a due binding is claimed, a worker that has not died gets on with its
  run, leases lapse and retries come due. Dying, outliving a lease, losing an answer,
  operator actions and the provider's changes are under no fairness, and neither is
  resuming a paused binding.
* `AssetObjects`: none; it has no liveness property.

## 5. Proofs

Proved by TLAPS for all values of the constants that satisfy the assumptions named in the
modules (constants are disjoint where they name different things, limits are naturals,
`Procs` is finite).

`OperationCoordinationProofs`. `CoordinationInv` is inductive together with `TypeOK`. The
wanted `UnsettledWriteHeld` is not: a finish could release a row on false evidence, or a
recovery one whose writer is still alive. The strengthening says, in conjuncts of their
own: rows belong to their token (`RowsBelong`) and are one per resource; the signal fires
no later than the recorded deadline (`AbortsFirst`), so a lease outlasts every dispatch its
connector waits for (`LeaseHolds`); a write still to be dispatched has its connector waiting,
or is adrift, or is too late (`WaitedFor`, `AdriftOnce`), and custody that was not given
back on evidence is still there or was resolved (`CustodyAccounted`); what is offered as
previous has ended or passed its deadline (`PreviousIsOver`), so only an adrift write of it
can still leave and any other proof of the source stays true (`ProofStands`); decisive
evidence implies a settled write (`EvidenceIsTrue`); receipts are of started invocations
(`ReceiptsAreOld`). From it follow `UnsettledWriteHeld`, `ResolvedIsFinal`, that a blocked
invocation never writes (`BlockedNeverWrites`, a part of the invariant), the action
properties `WritesUnderCustody` and `UncertainStaysHeld`, and step simulation of `Custody`.

`RecoveryUnderOriginalAuthority` needs none of this, but three facts of its own
(`AuthorityInv`): a row carries the authority its invocation was started under, a lease
offers only what was started under the lease's own, and whoever is at work belongs to the
running epoch. The source compares epochs when it grants the lease and generations again
when it recovers; the last fact is why the first comparison is still good then.

`AssetLockProofs`. `HoldsLatest` says that while a holder finds its own inode at the path
nobody has acquired the lock since: an open inode is not handed out again. It gives
`AcknowledgedAlone`. `NoOrphanedLock` is inductive with the types.

Finding 1 refutes `Exclusive` and `AcknowledgedKept` in general, so two theorems say
where they hold. `ExclusionKeepsAcknowledged` has no condition on the constants: an
acknowledged update is lost only by way of a second holder, because what a holder has
read stays current while it is alone (`SnapshotCurrent`). `SurvivorIsAlone` gives
exclusion under `SingleRecoverer`: no lease lapses under a living holder, and whoever
meets a lock of the dead is the only one to recover it, as nobody dies, or one of two
survives, or there is one process only. This is narrower than how the lock is used, and
is meant to be: it is the boundary that finding 1 marks. The invariant is in two parts:
until a death the file at the path is the holder's own and the recovery path is empty
(`HoldersLock`); after it one process is left (`SoleSurvivor`). The two theorems together
are `SurvivorKeepsAcknowledged`.

`KnowledgePublicationProofs`. `RecordedAreKept` needs to know that a revision is as
durable from activation on as once recorded (`PublishedAreKept`), and which revision an
open transaction is about (`OpenTargets`). `RowStays` is the heart: pins only grow,
activation retires at worst, and collection looks at pins.

`KnowledgePairingProofs`. Neither property is inductive, since both speak of the store
alone and what a caller has seen of it may be old. `OneAtWork` says that, as long as
nothing excuses otherwise (`Serialized`), at most one caller is between its first look and
its last commit, and that a deploy there holds the lock. `OneActive` adds what an open
transaction has seen: its commit retires all that is active (`ActivationIsExclusive`).
`PairRetained` follows from `Paired`, which says what the caller at work owes: a deploy
past activation has its own revision active and remembers the one of the served artifact,
a compensation aims back at that one, a rollback aims at the artifact it has selected;
with nobody parted, artifact and active revision are the pair. As only one caller is at
work, `Paired` is a matter of that caller alone (`PairHasOwner`, `OwnPair`). Excuses only
grow, so an excused state stays out of the claim for good.

`ComputeWorkerPoolProofs`. No property of the pool is inductive by itself: that nobody
waits in vain depends on where every slot stands, and a job's time on when it was put
there. `PoolInv` consists of parts about a queue, slots, workers and answers given as
parameters (`Sound`), because within one step they are first freed and then refilled:
`Frees` is what a result, a deadline and a lost worker have in common; it leaves the parts
sound with one vacancy (`FreeingIsSound`); pumping from there leaves them sound without
any (`PumpIsSound`), as long as a queued job has not given its name to a worker, is in
the queue once and is dispatched with exactly its remaining time (`DueIsExact`). Thread
steps and host calls are one lemma (`MoveInv`): they touch neither slots nor queue.
`NoCallAfterAnswer` follows because an active run's job has no answer yet.

`ComputeRefinementProofs`. The step simulation of `ComputeService` under the mapping of
`ImplementsService`. Slots and running jobs are equal in number because no two slots have
the same job (`RunningCount`, a bijection), so that the service's limit is the pool's size
and a job waits exactly when the service is full. Every end of a run is `Complete` of the
service, with the expired jobs the pump finds at the head as its `n` (`EndServes`); an idle
worker that dies is replaced in silence, since nobody waits beside it (`IdleEndServes`).

`SourceIngestionProofs`. `ReplicaMirrorsSource` speaks of a replica that has caught up,
so its strengthening says what a replica still owes on the way. Only the worker of the
newest fence can commit (`Fenced`) and its copy of the binding is the binding's row
(`Held`). Everything up to the checkpoint, and during a changes scan up to the cursor, is
mirrored (`Mirrors`); a snapshot's records up to its cursor are listed under its own
generation and none beyond is (`Listing`), which is why continuing a scan must keep its
generation. A fetched page stays true of the records that have not changed since
(`PageInHand`), and requests are tied to generations (the `Asked` part).

`AssetObjectsProofs`. `Stored` is the order of renames as an invariant: metadata that is
present, or durable, has its bytes present and durable. `Behind` says that metadata
differs from the disk only while a section is between rename and sync or after one that
failed there; with it, whatever is promised and not broken in one of the two ways is in the
metadata and, unless that is unsynced, on disk too (`Kept`); so a power loss takes back
promises on unsynced metadata only. Quotas are not
inductive for `caps` alone, because a power loss may bring back the reservations synced
last: `Fitting` bounds both together, and `Working` says that an object about to get its
metadata is still reserved, hence counted already. Steps that touch none of this are one
lemma (`CalmInv`).

Every safety invariant, every action property and both refinements of the passing runs
are theorems; `Exclusive` and `AcknowledgedKept` under the condition named above. Each
inductive invariant was checked by TLC on the run's instance before it was proved.

Model-checked only: all liveness (`EveryInvocationEnds`, `NeverWedged`, `EveryCallEnds`,
`EveryJobSettles`, `RefreshSettles`), as fairness and ENABLED are out of the prover's
reach, and the five counterexamples, which need no proof.

## 6. Findings

1. `AssetLockRecoveryRace`. `finishRecovery` compares inodes and then unlinks by path
   (`asset-storage/src/filesystem-coordination.ts:402-404`). Two finishers can both pass
   the comparison; the second removes the first's new lock.
2. `KnowledgeSuperseded`. A superseded automation run rolls its record back after
   `withKnowledgePublication` returned (`service/src/registry.ts:371`): the new revision
   stays active beside the old artifact.
3. `KnowledgeRetriedRollback`. Compensation pins the previous revision to the failed id;
   a keyed retry reuses that id, and a rollback to it finds two pins in no stated order
   (`knowledge-operations/src/publication.ts:303`).
4. `KnowledgeFalseReplay`. The cached record survives a failed COMMIT, and a retry that
   reaches the same process is told that it was deployed
   (`service/src/registry-deploy-transaction.ts:137`, `registry-state.ts:108`).
5. `CoordinationCutOff`. A worker is lost, or the pool closes, while the nested write of its
   connector is between admission (`runtime/src/operation-execution.ts:213`) and dispatch
   (`331-336`). The `finally` (`463-469`) reports `unknown`, so the row is recoverable at
   once; a recovery that finds no write at the source releases custody; and then the write
   is dispatched. `service/src/operation-coordination.ts:150-151` says "No expiry authorizes
   a retry. Only proven completion or proof of no dispatched effect releases custody". The
   deadline's abort signal bounds the gap, which is what `coordinated-deadline.test.ts:201`
   tests; before the deadline nothing stops the call.

The two breaks of `PromisesKept` (section 2, AssetObjects) are disagreements with the code's
comments as well. They have no run of their own: the property names them, and TLC and the
proof show that there is no third.

## 7. Not modelled

Contents (manifests, documents, credentials, schemas), encryption, HTTP, rendering and
the pure translations of compiler and authoring. Several instances of one component that
share no state are one instance. The components marked *not_modelled* in `PROJECT.json`
have a reason there; the hazards without a property name the module planned for them.

Three components with state of their own wait for modules and are exposed to retries and
expiry: operation evidence (`service/src/operation-evidence.ts:191`, a finish that
races the sweep), state handles (`runtime/src/state-handles.ts:297`, an expired handle
recreated under a writer) and admission limits
(`admission-limits/src/postgres-counter-store.ts:154`, a retry whose first answer was lost).

## 8. Plan

Done: the coordination of external writes first, as its failures reach customers' systems
and cannot be undone, then the lock, the pairing, the compute pool, the ingestion of
sources and the objects above the lock.

Next, in this order:

1. `DeploymentLifecycle`: append, activate, archive, sweep, caches and the client pool,
   composed with `KnowledgePublication`'s outer transaction and `AssetObjects`' records.
2. `OperationEvidence`, `StateHandles`, `AdmissionCounters`, `ConfirmationNonce`: late
   finishes, optimistic writes, limits and single use, against atomic specifications.
   They are small, share a clock and the database, and are meant to be composed for one run.

Proofs to add: those of the modules above as they are written.
