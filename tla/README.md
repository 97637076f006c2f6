# Swamp in TLA+

Swamp is an automation CLI with a long-running server (`swamp serve`), written
in TypeScript for Deno. Its state lives in a repository and a datastore that
several processes share: one-shot commands, serve instances, workers. This
directory holds TLA+ models of the parts whose correctness depends on
interleavings, crashes and failing calls, the TLC configurations that check them
on small instances, and TLAPS proofs of what matters most. Paths are relative to
the repository; `PROJECT.json` maps every definition to the lines it models.

## 1. The system

Commands and serve use one library (`src/libswamp`) over domain code
(`src/domain`) and stores (`src/infrastructure`). Processes never talk to each
other to agree on something: they agree through a **control-plane store** (small
keys, with a create-if-absent), through **lock files**, and through the **commit
store** of the v3 datastore. Serve additionally talks to workers and followers
over sockets.

| Part | State | Operations | What is hard | What makes it correct |
|---|---|---|---|---|
| Writer lease (`domain/datastore_v3/writer_lease.ts`) | keys `fence-N`, `released-N`, `heartbeat-N` | acquire, renew, advance, release, force release, prune | writers race on creating a fence, stale readers meet pruned records, holders die anywhere | one process per fence; the highest fence never goes back; a dead holder locks nobody out |
| Writer lock of a process (`infrastructure/datastore_v3/v3_writer_lock.ts`) | one `Held` entry per datastore: hold, reference count, promises of work under way | acquire, join, release, renewal timer, retake, advance | callers, timer and advance share one entry across awaits | no hold nobody will release; a one-shot command never writes under a second fence; serve gets a lost hold back |
| Commit store (`infrastructure/datastore_v3/sqlite_commit_store.ts`) | commits, heads, partitions, the writer fence | append, raise the fence, truncate, feed | appends queued before a takeover run after it | one writer per fence, fences ordered along the log |
| Units of work (`v3_datastore.ts`, `commit_log_unit_of_work.ts`) | staged operations, the fence at opening | open, commit, roll back | the lease moves while a unit is open | no commit under a fence its process lost |
| Commit outbox and recovery (`sqlite_commit_outbox.ts`, `commit_outbox_recovery.ts`) | prepared entries, the chain of fences | prepare, settle, discard, recover | a writer killed between prepare, append and settle | what a unit reports is what happens to its commits; nothing lands after its failure was reported |
| Replication (`replication_group_commit.ts`, `published_lineage.ts`, `litestream/v3_copy.ts`, `v3_repo_context.ts`) | the copies, the published mark, lineages by fence with their heads | restore, start or continue a lineage, sync, publish, check the lease, collect | a takeover at any step of a sync; a lease lost and taken again; a head and a copy's record that disagree | an acknowledged commit is in what every later writer restores |
| Offline writes (`offline_rebase.ts`, `offline_flush.ts`) | local commits, quarantine | rebase, flush, quarantine | the base moved meanwhile | nothing is lost without being quarantined |
| Chunks and compaction (`chunk_collector.ts`, `compaction.ts`) | chunks, references | collect, compact | a collection races a commit that refers to a chunk | no referenced chunk is removed |
| Serve leadership, followers (`serve/serve_leadership.ts`, `follower_*.ts`) | the leader record, the role, the feed's position | tick, lead, step down, follow, forward | two serves over one lease, feeds cut off | one leader acts at a time; feeds apply in order |
| Wait keys and signal waits (`domain/workflows/wait_key_claim.ts`, `signal_wait_cleanup.ts`, `libswamp/workflows/signal.ts`) | claims and releases by generation, registrations, outcomes written once | claim, register, signal, time out, cancel, adopt, remove | a step is executed again after a crash; records are removed while others claim | one open wait per key; an accepted signal is read |
| Early signals (`early_signal.ts`, `pending_signal.ts`) | pending slots per key | hold, take, deliver | the signal arrives while the wait opens | delivered at most once, not lost |
| File lock (`infrastructure/persistence/file_lock.ts`) | one lock file with a nonce | acquire, heartbeat, re-key, clear stale, release, force | reading and removing the path are separate calls | exclusive while holders are in time; no file is left behind but by a death or a failed call; two holders do not last |
| Continuation claims (`continuation_claim.ts`) | claims by generation, heartbeats, a copy of the run per instance | launch, take over, compare, claim, release, restore | several serves with copies that go stale continue one suspended run | a suspension that a live process took over is not continued by another; a failed resume gives its claim back |
| Workflow runs (`workflow_run.ts`, `execution_service.ts`, `orphaned_run_reaper.ts`) | the run record, jobs, steps | start, checkpoint, suspend, resume, cancel, reap | several processes save one run | terminal states stay; a live run is not reaped |
| Dispatch to workers (`dispatch_service.ts`, `worker_gateway.ts`, `scheduler.ts`, `rpc_channel.ts`) | workers, reservations, leases of steps, writes per attempt, the pin of an affinity group | place, lease, register, send, write, lose, answer, drain | a worker lost before or after its first write, or between placement and send | a step that wrote is not run twice; slots are not promised twice; every step ends |
| Serve audit (`domain/serve_audit`) | ring buffer, write-ahead log, hash chain | emit, rotate, replay, sink | rotation and crash between append and chain | the chain has no gap |
| Extensions, data, vaults, access, webhooks, schedules, CLI, dashboard, telemetry | files, grants, schemas, pages | | mostly sequential, I/O or pure decisions | |

How they interact: a unit of work asks the writer lock for the fence
(`v3WriterFence`) when it opens, and the commit store refuses it at the append if
the fence moved on. The writer lock drives the writer lease (acquire, renew,
advance, release) and raises the store's fence before it hands a hold out. Serve
leadership follows the writer lock; replication and the outbox key their records
by its fence. A workflow step that waits for a signal claims a key and registers
in the control plane; `signal`, resume, cancel and the removal of old runs meet
there. The lock file guards the v2 datastore and, during an upgrade, the writers
of the v3 one.

## 2. Modules

| Module | Models | Role |
|---|---|---|
| `WriterLease` | writer lease, fence of the commit store, units of work as far as fences go | composition of the three, every store call a step |
| `FencedLog` | — | what lease and store promise: a log with one writer at a time |
| `KeyedWait` | — | what the waits of one key promise: one open at a time, settled once, forgotten only when over |
| `DurableLog` | — | what replication promises: one published log, whose acknowledged part only grows at its end |
| `MCWriterLease` | — | instance with one bound for fences and units of work |
| `V3WriterLock` | the entries shared inside one process | over an abstract lease (highest fence, owner, released) |
| `CommitOutbox`, `MCCommitOutbox` | the outbox, its recovery and the units of work of one copy, over the commit store's answers | composition of outbox, units and recovery; instance with one bound for faults, later units and processes at once |
| `Dispatch`, `MCDispatch` | dispatch service, gateway, leases, data plane and workers | composition of serve and its workers; instance with two workloads |
| `WaitKeyClaim`, `MCWaitKeyClaim` | wait keys, signal waits, removal of ended runs | component; instance with symmetric steps and one bound for executions and removals |
| `FileLock` | the lock file | component |
| `ContinuationClaim` | the resume of one suspended run by several instances | composition of copies, run lock, claims and heartbeats |
| `Replication` | the copies of the log, the lineages published per fence, syncs and restores | composition of the writers, readers and the registry of lineages |
| `MCLocksLive`, `MCLockAndClaims`, `MCKeyAndReplica` | — | instances of two components each, side by side |
| `WriterLeaseProofs`, `FileLockProofs`, `V3WriterLockProofs`, `ContinuationClaimProofs`, `WaitKeyClaimProofs`, `DispatchProofs`, `CommitOutboxProofs`, `ReplicationProofs` | — | TLAPS proofs, each about the module it is named after; `V3WriterLockProofs` and `WaitKeyClaimProofs` also about the side-by-side instances |

### WriterLease

`rec[f]` and `rel` are the keys `fence-f` and `released-f`; the nonce of a record
is the process that wrote it, since a process here is an incarnation. `storeFence`
and `log` are the commit store's; `raiser` and `won` are history (who raised the
store's fence, which fences a process was confirmed at). `pc`, `mode`, `floor`,
`want`, `doomed` are a take under way: which call is next, what it is for
(acquire, retake, advance), the floor it read, the fence it wants, the keys its
prune has left. `hold`, `lost`, `unit`, `sent` are a process's hold and its unit of
work.

An acquire is `StartAcquire`, `ReadList`, a verdict (`JudgeHeld` or
`JudgeExpired`), `Create` (the create-if-absent), `TakeConfirmed` or `TakeFenced`
(the check of the first renewal), `TakeBeat`, `PruneList`, `PruneKey`…, `PruneDone`, and
`Raise`. `StartAdvance`, `MarkOwn`, `ReleaseOld`, `AdvanceTaken` are the move to
the next fence; `FindLost`, `EndHold`, `EndMark` the loss and the end of a hold;
`OpenUnit`, `SendCommit`, `StoreAppend`/`StoreRefuse`, `CloseUnit` a commit.
`TakeRenewThrows`, `PruneListThrows`, `RaiseThrows` and a marker that is not written
are the failing calls, switched on by `Faults`.

There is no clock. `judgeWriterLease` compares a heartbeat with a TTL and a skew;
here an unreleased lease may be judged held or expired at any time. Safety
therefore does not rest on timing, which is what the code says of itself ("a
too-early takeover is safe, the old fence is refused").

### V3WriterLock

One process: `current` is the map `held`, `retakes`, `hold`, `timer`, `take`,
`renew`, `adv`, `ending` the fields and promises of a `Held` entry, `pc`, `at`, `joined` its
callers. JavaScript runs a task to its next await, so a step is what runs between
two awaits; the helpers `EndingWakes`, `CallersWake`, `RenewalSettles`,
`TakeSettles` say whom a settled promise wakes. Other processes take and mark
the lease at any time (`OtherTakes`, `OtherMarks`).

### WaitKeyClaim

Claim and release records of one key by generation, registrations and outcomes of waits (a
wait is a step and the number of its execution), where each step is (`AdoptableWait` to
`Register`, `Resume`, `CancelRun`), a signaller between its decision and its create
(`decided`), a sweep of what ended runs left behind, and one pass that removes ended runs.
Deadline and grace are flags that time raises at any moment. Every call of the store may
throw, and a write may be there or not when it does: in `claimWaitKey` and in the
registration (`StoreThrows`, then `CloseUnopenedWait`, which may fail as well), when a wait
is taken over (`AdoptionFails`), when a run ends (`CancelRun` and `RemoveRegistration`: the
run is saved as over although its wait could not be closed) and in the removal
(`RemovalThrows`). `late` is history: waits whose claim was created under a number that had
been removed meanwhile.

A wait counts as open (`Open`) from its registration until it is settled or the removal of its run
begins, whatever has become of its run; one in `late` is not counted.

### FileLock

The file at the path by nonce, complete or not, stale or not; `stage` of acquire and
release, `rw` of the rewrite under way (heartbeat or re-key: check, then replace). Removing
acts on the path, whoever's file is there by then. A removal may fail, which the code logs
or ignores and never retries (`RemoveFile`, `WriteFails`, `ReplaceLockFile`); a read may
fail, which revokes a hold whose file is still there (`StillOwned`) or makes a waiter take
the file for held (`ReadHolder`). `left` is history: the process of the file at the path
died, or such a call of its own on that file failed. `lapsed` is history as well: someone
died, was late or was forced out.

### CommitOutbox

One copy of the datastore: `outbox` and `unsynced` (entries that a settle removed
without an fsync, which a power cut brings back) are its SQLite file, `chain` the
row with the last fence, the start of the run of fences that were this copy's, the
floor and the noted fence. `lease`, `storeFence` and `log` are shared with other
copies; a process that takes the lease skips the fences they took. Processes are numbered in
the order they take it: `TakeLease`, `NotePendingFence`, `RaiseFence`, `RecordFence`,
then the recovery (`List`, `MarkLeft`, `RecoverSettle`, `RecoverDrop`, `RecoverSend`,
`RaiseFloor`) and one unit of work with a data group and a run group. A flush is
`Build`, `Prepare`, `AppendCommit`, and `Settle`, `LandedDespite` or `Refused`;
giving up is `Abandon`, `Discard` and what `Close` retries. `told` is what callers
were told has failed, `report` how a unit ended; `late` and `recovered` are history.

### Dispatch

`pc` is where each remote step stands in `executeRemote` and `#dispatchLent`; an attempt is
a step and a number, with its lease record, the transitions that wait in its tail (`chain`),
its marks (`noted`: the in-memory sets, `marked`: the lease record) and its write requests.
`pool`, `status`, `leaving`, `active`, `reserved` are the gateway's and the scheduler's view
of the workers; `leaving` alone is the worker's own. `pin`, `pinned` and `first` are the
affinity group. The steps run between awaits: `Reserve`, `TakeLease`, `MarkDeclared` if the
step declares writes, `Register`, `Send`, `Accept`, `Result`, or `Fate` when the socket
closed, and `Resume` once the lease has ended. A write is `OpenWrite`, `RecordWrite`, the
lease's `Transition`, `Persist`. `asked` fixes which workload a behaviour runs.

Every write of the lease ledger may throw, for the steps in `Faulty`, with the record
written or not: the acquire (`FrameFails`), the mark of declared writes (`MarkDeclared`), a
mark at a first write and the end of a lease (`TransitionThrows`). The in-memory sets are
not rolled back, as in the code. `unmarked` and `unended` are history: attempts whose mark
threw and is not in the record, and attempts whose lease the ledger failed to end or threw
for once it was acquired.

### ContinuationClaim

`remote` is the run record in the datastore, `copy` what each instance has of it (an
instance does not refresh a copy; `Start` reads it once), `dirty` what is not pushed. A
resume is `Launch` (with the early look), `TakeOver` (the run lock), `Look`
(`requireCurrentRecord`), `Find`, `Judge`, `Create` (`acquireContinuation`), `SaveRunning`,
and `Begin` or `Restore`. Suspensions are numbered where the code has a digest of the
suspended record. A holder is judged by its heartbeat alone (`beat`), which goes stale when
its process is gone and, for the instances in `Silent`, while it runs: its writes fail or
stall (`HeartbeatEnds`), and may succeed again later (`HeartbeatReturns`). `ran` and
`overridden` are history; a claim is overridden when a person's resume replaced it, or when
serve did because the heartbeat of its living holder had gone stale.

### Replication

Every checkout has a copy of the log (`disk`: the commits by cursor, `lineage.json`,
`copy.json`) and at most one process (`proc`: its lease, whether it knows that is lost,
where it is between the lease and its first commit, the mark it published, the sync under
way). `started`, `confirmed` and `heads` are the registry in the control plane, `shipped`
what the replica path of a lineage holds; `acked` is history, the commits callers were told
are replicated. A writer is `TakeLease`, `RestoreForWrite` (`ensureV3CopyCurrent`),
`PrepareLineage` and then commits; a sync is `SyncStart` (the mark), `Ship`, `PublishHead`,
`ConfirmLineage`, `RecordCopy`, `CheckLease`, and `CollectLineages` after a first
confirmation. The lease is one number that anyone may take next; how it is taken is
`WriterLease`'s. Serve finds it lost (`FindLost`), takes it again (`Retake`) and, once
`StartUpkeep` listens, restores before it commits. A restore keeps the commits up to the
head's mark and never reuses the cursors of those it removes (0 in a log).

`AckedSurvives` is the promise: whoever has the newest lease and made its copy current
has every acknowledged commit, and so has the head that later writers restore.

### Side by side

TLC runs several components in one run where they share no variable: an initial flag
says which of the two moves, so the state space is the sum of theirs (`MCLocksLive`,
`MCLockAndClaims`, `MCKeyAndReplica`). `PartsTypeOK` is the conjunction of the two type
invariants. That such a specification implements each of its parts is proved
(`LockAndClaimsAreParts`, `KeyAndReplicaAreParts`), so every theorem about a part holds of the
run as well.

## 3. Runs

| Run | Checks | Bounds, and why they are enough |
|---|---|---|
| `lease_safety` | `TypeOK`, `OneWinnerPerFence`, `PreviousFenceKept`, `NoFenceLeaked`, `ImplementsFencedLog`, `HighestFenceStays` | two processes (one serve) and four fences, the least with which a pruned fence can be created again by a process that listed before; fences, open units and commits together at most four (`MaxWork`), so a commit and an open unit on either side of a takeover, or three fences and one of them; the listing in `#prune` does not fail |
| `lease_live` | `AbandonedLeaseIsTaken` | three fences, failing markers and prunes |
| `lease_prune_throws` | `NoFenceLeaked`, violated | the same property when the listing in `#prune` may throw |
| `lock_claims` | `PartsTypeOK`; `NoOrphanedHold`, `OneShotTakesOnce`; `NoLeakedClaim`, `ContinuedByOne` | the writer lock: two callers, two entries, without advances: one caller leaves or fails while the other joins, and a new entry while the old one ends; the claims: two serve instances and a local command, one resume each, one of the instances also on request, the other one also with a heartbeat that goes stale while it runs (`Silent`), so that a live holder is replaced by a boot pass; creates, saves and deletes may fail |
| `locks_live` | `EndedHoldIsReleased`, `LostHoldIsTakenAgain`; `FileTypeOK`, `Exclusive`, `NoOrphanFile`, `TwoHoldersHeal` | the writer lock: two callers, three fences, with advances, under fairness; the file lock: two processes and four nonces, so that both hold, one re-keys and one is replaced; every read, write and removal may fail |
| `lock_advance_leak` | `NoOrphanedHold`, violated | the same property with advances |
| `key_replica` | `PartsTypeOK`; `OneOpenWait`, `SignalBeforeDeadlineIsRead`, `OpenWaitHoldsKey`, `HighestStays`, `ImplementsKeyedWait`; `AckedSurvives`, `FeedBoundIsAcked`, `ImplementsDurableLog` | the key: two steps and three generations: a holder, a claimant that finds it abandoned or overdue, and the re-execution of either; or one pass that removes records and a claim above its release (executions and passes together at most three, `MaxWork`, so both steps are never executed again in one behaviour; at most two deadlines or graces pass, `MaxLapsed`; any call may throw); replication: two checkouts, one of which serves, three leases, so that a writer overtaken in a sync meets its successor and comes back or is followed by a third, two transaction ids per lineage, and two commits (`MaxSyncWork`); or two leases, a commit and a failed sync |
| `key_signal_lost` | `AcceptedSignalIsRead`, violated | one step, one crash |
| `outbox` | `TypeOK`, `CommittedHasLanded`, `RunNamesLandedData`, `ChainIsOurs`, `ReportedFailureIsFinal`, `OvertakenNeverLands` | three processes and three fences: a writer, its successor that recovers and may write, and a third that recovers both or a fence of another copy; failing calls (two at most), a unit of work of the second process, and processes running at once together at most three (`MaxWork`), so one process meets two faults, or two processes overlap while one call fails |
| `dispatch` | `TypeOK`, `WrittenNeverRunsAgain`, `LeaseTellsWrites`, `SlotsCountedOnce`, `GroupRanOnOneWorker`, `LeaseEndsWithStep`, `StepEnds` | two steps, two workers with one slot, one change of the pool (drop, drain or cut-off, with what follows from it), one cancellable step, for which writes of the ledger may also throw (`Faulty`); workloads: a group whose first step writes up to twice, so that a second write follows a mark that failed, and whose second step its pin may not fit; and two steps on their own with one write each and one worker that fits, of which one declares its writes |
| `dispatch_late_write` | `WrittenNeverRunsAgain`, violated | the same with a write request that may be open when the socket closes |
| `replica_acked_lost` | `AckedSurvives`, violated | the same replicas when a sync may find nothing to ship |

Deadlock is not checked: processes may stop for good (commands end, keys are
settled, bounds are used up). Each property has a mutant in `PROJECT.json`, a
plausible slip in the code that makes it fail.

### What the violated runs show

* **`lease_prune_throws`.** `#take` gives its fence up when the first renewal
  throws, "rather than keep others out until it expires" (`writer_lease.ts:414`),
  but the listing of `#prune` is outside that `try`. When it throws, the fence stays
  taken by a process that has no hold, until the TTL.
* **`lock_advance_leak`.** `endHold` awaits the `renewing` promise it finds
  (`v3_writer_lock.ts:212`). An advance waiting for that same promise goes on and
  makes a new one; `endHold` releases the old hold; the advance installs the next
  fence on an entry that is in no map any more, and nobody releases it.
* **`replica_acked_lost`.** `syncAndPublishNow` reads the mark and then syncs, so a commit
  that lands in between is shipped under the transaction id that the head names with the
  lower mark. A sync with nothing new answers `no_change` and the same id, and the head is
  published again with it and the higher mark. A checkout that restored between the two has
  removed the commit, and `decideLocalCopy` compares only the ids
  (`published_lineage.ts:185`): it takes the lease, counts as current and goes on without an
  acknowledged commit. `v3_repo_context.ts:800` says "the lease first, then the restore:
  every commit the previous writer acknowledged is in what this one restores".
* **`key_signal_lost`.** `adoptableWait` closes an overdue wait without looking at
  what `settle` returned (`execution_service.ts:7895`): a signal decided just before
  the deadline that wins the create is reported delivered and never read.
* **`dispatch_late_write`.** `#failedDispatchError` reads whether the attempt wrote when
  the channel closes (`dispatch_service.ts:1084`) and then waits for the worker's
  grace window. A write request that was still reading its body is marked and saved
  in that window, since the dispatch is registered and its lease active until the wait is
  over; the lease then ends "no writes had occurred" and the step is sent again.
  `design/enablers/remote-execution.md:1684` says "If a **write** had landed, the
  step fails the run".

### Fairness

* `lease_live`: every await of a take resolves unless its process dies, and a
  process that keeps judging a lease nobody renews any more finds it expired in the
  end (its TTL runs out). That `maxWaitMs` runs out or that a call throws is not
  assumed. The property is conditional on the others staying away, since a process
  may lose every race to others.
* `locks_live`, the writer lock: awaits resolve and the interval fires; renewals that keep
  being made read the lease in the end, and a take that keeps being tried while the lease is
  free wins in the end. `LostHoldIsTakenAgain` is conditional on the other writers being
  done with the lease.
* `dispatch`: serve goes on with some step, leases make their transitions, runners
  end, a drain message arrives and a grace window expires. One weak fairness over all
  of them is enough for `StepEnds`, since none can be taken forever. It includes the queue
  timeout: with no timeout configured a step may wait for a worker forever, as the code
  means it to. Workers need not come, reconnect or stay.
* `locks_live`, the file lock: heartbeats fire and file-system calls return. `TwoHoldersHeal`
  assumes that again and again no process is between the check of its nonce and the
  rename: rewrites are a third of the ttl apart and take one read and one rename.

## 4. Proofs

Every theorem holds for all values of the constants that the named assumptions of its module
allow (bounds are naturals, `NoOne` is no process, subsets are subsets), so for any number of
processes, fences, steps, workers and faults. A theorem that needs more says so as its
hypothesis, and the hypothesis is always a setting of the model's own switches: the run named
with it, or a counterexample recorded in section 5, shows that it cannot be dropped.

| Module | Theorem | Property | Hypothesis |
|---|---|---|---|
| `WriterLeaseProofs` | `TypeCorrect` | `TypeOK` | |
| | `Invariant` | `IInv` | |
| | `WinnerIsUnique` | `OneWinnerPerFence` | |
| | `LogHasOneWriter` | `SingleWriterLog` | |
| | `PruneKeepsPrevious` | `PreviousFenceKept` | |
| | `HighestStays` | `HighestFenceStays` | |
| | `LeaseImplementsFencedLog` | `ImplementsFencedLog` | |
| | `FencesAreGivenUp` | `NoFenceLeaked` | `Faults` without `prune` (run `lease_prune_throws`) and `mark` |
| `FileLockProofs` | `FileTypeCorrect` | `FileTypeOK` | |
| | `FileInvariant` | `FileInv` | |
| | `LockIsExclusive` | `Exclusive` | |
| | `FileHasOwner` | `NoOrphanFile` | |
| `V3WriterLockProofs` | `LockTypeCorrect` | `TypeOK` | |
| | `HoldsAreEnded` | `NoOrphanedHold` | `Advances = FALSE` (run `lock_advance_leak`) |
| | `OneShotKeepsItsFence` | `OneShotTakesOnce` | `Advances = FALSE` |
| | `LockAndClaimsAreParts` | `MCLockAndClaims` implements `V3WriterLock` and `ContinuationClaim` | |
| | `LockAndClaimsTypes` | `PartsTypeOK` of `MCLockAndClaims` | |
| `ContinuationClaimProofs` | `ClaimTypeCorrect` | `ClaimTypeOK` | |
| | `ClaimsAreReturned` | `NoLeakedClaim` | |
| | `OneContinuesARun` | `ContinuedByOne` | `StallsAt` within `{"save"}` (section 5) |
| `WaitKeyClaimProofs` | `KeyTypeCorrect` | `TypeOK` | |
| | `NumbersNeverComeDown` | `HighestStays` | |
| | `OutcomesAreFinal` | `OutcomeIsFinal` | |
| | `SignalIsRead` | `SignalBeforeDeadlineIsRead` | |
| | `OneWaitIsOpen` | `OneOpenWait` | |
| | `OpenWaitIsFound` | `OpenWaitHoldsKey` | |
| | `KeyIsKeyedWait` | `ImplementsKeyedWait` | |
| | `KeyAndReplicaAreParts` | `MCKeyAndReplica` implements `WaitKeyClaim` and `Replication` | |
| | `KeyAndReplicaTypes` | `PartsTypeOK` of `MCKeyAndReplica` | `Cases = {}` |
| `DispatchProofs` | `DispatchTypeCorrect` | `TypeOK` | |
| | `SlotsAreCounted` | `SlotsCountedOnce` | |
| | `LeasesEnd` | `LeaseEndsWithStep` | |
| | `GroupRunsTogether` | `GroupRanOnOneWorker` | |
| | `SavedWritesAreTold` | `LeaseTellsWrites` | `~Parallel` (section 5) |
| | `WrittenIsNotRepeated` | `WrittenNeverRunsAgain` | `~LateWrites` (run `dispatch_late_write`) |
| `CommitOutboxProofs` | `OutboxTypeCorrect` | `TypeOK` | |
| | `ChainHasOwnFences` | `ChainIsOurs` | |
| | `ReportedDoneHasLanded` | `CommittedHasLanded` | |
| | `RunLandsAfterItsData` | `RunNamesLandedData` | |
| | `ReportedFailureStays` | `ReportedFailureIsFinal` | `Unjudged = {}` (section 5) |
| | `OvertakenStaysOut` | `OvertakenNeverLands` | `Unjudged = {}`, `PromptRecord`, `PromptMark` (section 5) |
| `ReplicationProofs` | `ReplTypesHold` | `ReplTypeOK` | `Cases = {}` (run `replica_acked_lost`, section 5) |
| | `AckedSurvivesHolds` | `AckedSurvives` | `Cases = {}` |
| | `FeedBoundIsAckedHolds` | `FeedBoundIsAcked` | `Cases = {}` |
| | `CurrentNeverGoesBack` | the lineage a restore reads never goes back | `Cases = {}` |
| | `LogsMatchHolds` | `LogsMatch`: two logs that share a commit are the same up to it | `Cases = {}` |
| | `ReplicationIsDurable` | `ImplementsDurableLog` | `Cases = {}` |

Each proof file has the same layout: frame lemmas (what a step may do to the records and to
the processes that do not take it), one lemma per action or per conjunct of the invariant, and
the theorems that put them together.

Three components are shown to implement an abstract specification: lease and commit store a
log with one writer at a time (`FencedLog`), the records of a key one wait at a time
(`KeyedWait`), and replication one durable log (`DurableLog`). Each is both a run's property
and a theorem. `SingleWriterLog` and `OutcomeIsFinal` are consequences of the first two;
they are proved on their own, since they need less, and the runs check the refinements.

### WriterLeaseProofs

None of the properties is inductive: that commits of one fence are
one process's depends on who holds which fence, which depends on records that
prunes delete. `IInv` adds

* `Shape`: where a process is in the code ties its variables together;
* `Owned`: every fence a process was confirmed at is **backed**, that is, its
  record is still the process's or a higher fence exists; what it holds, its unit and a
  sent commit name such a fence, none above the store's; keys a prune is about
  to delete are at least two below its own fence;
* `Contiguous`: the fence below the one a take is about to create exists, or
  existed and a higher one does;
* `StoreOwned`: the store's fence and every commit's are fences confirmed by their
  process.

A second process can be confirmed at fence `f` only if it created `f` and then saw
no higher fence. If the first is confirmed at `f` and backed by its own record, the
create fails. If it is backed by a higher fence, the check fails, and the highest
fence cannot vanish in between, because a prune removes only fences two below
one that exists (`RecStep`, `Monotone`). The log's order follows from
`storeFence` only rising and every append naming exactly it. The refinement maps the raise
of the store's fence to `TakeOver` and an append to `Write`; all else stutters.

`FencesAreGivenUp` rests on `LeakFree`: a record of a process that keeps others out is the
fence the process holds or the one it is taking, unless the process is dead (`Remembered`). The
rest of it makes that inductive: outside a take no fence is wanted (`Settled`), a fence about to
be created is not yet its own (`Fresh`), and a hold known to be lost is overtaken or released
(`LostIsFenced`). A listing that throws, and a marker that cannot be written, are the two ways
by which a process forgets a fence it did not give up.

### FileLockProofs

`FileInv`: every nonce was drawn and no two processes have the same one (`Drawn`); a process
that waits, or was revoked, has no file at the path, and the file of one that got in is
complete and held (`Whose`); while no holder lapsed, no file is stale, none is removed by
force, and whoever is past the creation of the file finds its own nonce there (`InTime`).
Two holders would then need two nonces in one file. `NoOrphanFile` is one of the conjuncts;
it needs no `InTime`. Failing calls enter through `left`: the file of a process that got in
is held and complete, *or left*. A file that was left is nobody's until its ttl has passed,
so it keeps others out but never lets two in.

### V3WriterLockProofs

`LockShape` ties the promises of an entry together: what a take, a renewal or an advance
under way has in hand, and that a caller which counted itself in is at an entry. `HoldInv`
adds who is behind a take under way (`TakeBacked`: its first caller, a caller of serve, or
the renewal that found the hold lost); that an entry which ends has no timer and left the
map, that one which is released has no renewal, and that any other entry with a hold is the
current one (`Ended`); that a take won a fence above the entry's hold (`Ahead`); and
`NoOrphanedHold` itself. With advances the new hold is stored in an entry that may have been
released meanwhile, as the violated run shows.

### ContinuationClaimProofs

Generations are unbounded here (`Nat \ {0}`), so that the highest claim of a suspension
exists is itself part of the invariant (`Ordered`). `NoLeakedClaim` follows from
`AllReleased`: the one claim an instance has on the suspension its copy shows is that of the
resume under way, and earlier ones are on suspensions that the copy is past.
`ContinuedByOne` needs `OneInv`: the claim of an instance that runs, if no person's resume
replaced it, is the highest of its suspension (`RunningIsHighest`); between the check of the
record and the claim a resume holds the run lock (`HasLock`), so what it found there is
still the highest (`Judged`) and its holder is gone, or is about to be overridden by this
very resume; claims are of instances that started (`Known`, `Started`); who continued a
suspension shows it in its claims and in its copy (`RunTrace`). A stall between comparison
and claim breaks `HasLock`, and with it `Judged`.

### WaitKeyClaimProofs

`NumbersNeverComeDown` rests on `KeyShape` (a removal stays below the highest record) and
`OutcomesAreFinal` on `RegInv` (a step has one registered wait at a time, and what was
removed is of runs that are over). `SignalInv` says when a step gives a wait up, past its
deadline or after it was closed (`GivenUp`), so that one signalled in time stays registered
(`StaysRegistered`). `KeyInv` gives the two properties of a key: a generation is one claim
or a release (`OneRecord`); a claim with a record above it is settled, `late`, or its run is
being removed (`OnlySettledBelow`); a removal selects records of runs that are over, none
above the highest (`SelectedIsOver`); the record a claimant read is not above the highest,
is what it read as long as it is the highest, and stays until its run is removed (`Sees`);
the wait named there no longer holds the key when the claim is created (`Cleared`); a
registered wait has its claim (`HasClaim`). That an ended run may leave its wait open
changes none of this, since such a wait keeps its claim, the highest of the key, until it is
settled or its run is removed. A create lands above every record (`AddsClaim`), or under a
number that was removed meanwhile, and then makes its wait `late` (`AddsLateClaim`).

`KeyIsKeyedWait` maps `open` to the waits that are registered and not settled, and the
outcomes to themselves. Registering opens a wait, or stutters when it was settled meanwhile;
the create of an outcome is `Settle`; the removal of an ended run is `Forget`. Two things
are not immediate: that nothing else is open when a wait opens (`OneWaitIsOpen`), and that a
step which drops its registration has settled the wait before (`SettledFirst`), so that no
wait ceases to be open without an outcome.

### DispatchProofs

* `SlotShape`: the counter of a worker is the number of steps placed on it and not yet
  registered, and together with the registered ones within the capacity; `PlaceShape`: a step
  past its placement has a worker.
* `LeaseShape`: the lease of the attempt under way is active until its end is on the chain, and
  only marks are before that; `AttemptShape`: nothing is known of an attempt before it begins, and
  none that another followed is active, but one in `unended`.
* `MemberShape`: a placed member of the group is bound to the pin or is the first;
  `CompletedShape`: a completed member ran on the pin, or its step has yet to hear of it. While
  the group waits for its first step there is no pin.
* `WriteShape`: the requests of an attempt come one after the other, each after the mark or after
  the mark has thrown (`Told`).
* `CleanShape`: an attempt that another follows, or may follow, has saved nothing and can save
  nothing any more.

Writes and clean attempts are invariants of their own, because each needs its own hypothesis.

### CommitOutboxProofs

The units of work, the outbox, the plans of recoveries and the log know of one another's commits
only in part, so the invariants say what each may hold, and four lemmas say where it comes from:
`EntryStep` (an entry after a step is one from before with marks, one a power cut brings back, or
one `Prepare` writes), `PlanStep` (a planned step was planned, turned from a send, or listed),
`LandsNow` (what lands was at its unit's append or planned to be sent) and `ToldNow`.

* `ChainInv`: fences in the chain, and the noted one, are fences this copy took.
* `UnitInv`: where a flush is ties its groups together (`FlushShape`); a commit in an entry,
  a plan or the log was staged by its unit, or its process is gone (`KnownTxns`); what was
  settled without an fsync, or is about to be, has landed (`SettledHasLanded`). The other
  invariants extend it.
* `CommitInv`: a staged group is still to land, has landed, is reported failed, is being
  given up, or the unit is unsure (`Accounted`). A unit reports done when nothing is left of
  the first and the last two.
* `NamesInv`: once the run names the data, no entry, plan or landing of the run exists before
  the data landed (`Follows`): a flush comes to the run only when the data is done and not refused.
* `ToldInv`: a unit knows its entries, but for those marked, landed or unsure (`Knows`);
  what it gives up it marks or removes and does not prepare again (`GivesUp`); recoveries
  send only for processes that are gone (`SentIsGone`, which needs `Unjudged = {}`). A
  failed commit is then out (`IsOut`): its unit does not flush it, its entry is marked, no
  plan sends it.
* `LateInv`: fences are recorded in the order they are raised (`Recorded`, from
  `PromptRecord`), so the highest fence a recovery was completed at is covered by the start
  of the chain or the floor (`Covered`), and every recovery drops an unmarked entry below
  it. An entry that is prepared late is unmarked and stays so, as nobody lists it to leave
  it (`IsOvertaken`, from `PromptMark`), and its own writer is fenced by the store.

### ReplicationProofs

That a takeover loses no acknowledged commit depends on who may write which head, on what a
copy has of a lineage, and on which lineage a later restore reads, so the invariant `IInv`
has four layers. TLC checked it on a small instance (two checkouts, three fences) before it
was proved. The proof first reduces the actions to sixteen effects (`DoesTake`,
`DoesPublish`, `DoesAck`, ...) on the state the invariant speaks of, with one lemma per
action (`StepDoes`); the invariant is proved over the effects.

* Holds and lineage files (`LeaseOK`). Every fence from the one a lineage file names to the last one
  noted in it was taken by that file's checkout. So a lineage has one owner (`OwnFence`), and a
  sync writes heads of its own lineage only, as the writer of its own lease.
* The registry (`RegOK`, `KnownOK`). No record is of a lineage its owner has not reached, no head of
  a writer past the owner's last fence. A lineage whose record or head a collection removed is
  below the current one, which never goes back (`LineagesGrow`).
* Logs (`HeadsOK`, `CopyOK`, `SyncOK`). Heads of a lineage extend one another in the order of
  their writers. A copy that records a lineage and transaction id extends every head up to that id:
  this is where `no_change` breaks the argument, since one id then stands for two heads.
* Acknowledgements (`PublishedOK`, `AckOK`). `HoldsAll(y)` says that the log `y` has every
  acknowledged commit and every mark a process reported. The head a restore reads holds
  them; so does a copy made current under its lease, and what its sync publishes, unless a
  lineage *above the lease* was confirmed since. `AckIsCurrent` closes the circle: a sync
  that finds its lease to be the newest is of the current lineage, and its head is the one
  every restore reads from then on; every other checkout that could miss the commit has a
  lower lease and fails its own check. `retake_in_sync` and `retake_at_boot` break it here:
  the lease that is checked is no longer the one the copy was made current under.

`ConfirmAtOnce` acknowledges nothing new in these states (`ConfirmAtOnceDoes`): what lies under a
reported mark is acknowledged already.

The invariant says that acknowledged commits survive, but not where: a follower reads the
feed by cursor. `LogsMatch` says that two logs of copies, syncs or heads that have a commit
in common have it at the same cursor and agree on everything below. It follows step by step
from `LogPlaces`: up to any of its commits, a log after a step is what some log in use was
before it, unless the step made that very commit. The refinement then maps the published log
to the log of the head a restore reads, empty while no lineage is confirmed. A step that
makes another head current keeps the acknowledged commits (`PublishedOK`) and shares them
with the head before, so it keeps everything below them as well: `Publish` of `DurableLog`
(`PublishStep`). A check of the lease acknowledges the commits up to the mark of the current
head, its `Acknowledge` (`AcknowledgeStep`). What was published and not acknowledged may be
replaced by the next writer, and the abstract log allows just that.

### Only model-checked

* Liveness (`lease_live`, `locks_live`, and `StepEnds` of `dispatch`): fairness and `ENABLED` are
  outside this prover's reach.

No invariant or action property of a passing run is only model-checked.

## 5. Limits

* No clocks (see above). What the TTL, the skew and the renewal at a third of the TTL
  guarantee, that a live holder in time is not taken over, is not stated.
* The control-plane store is taken to be linearizable and to keep its keys. A take
  reads the commit store's fence once as its floor (`v3_writer_lock.ts:513`); what
  happens when the lease's records are lost while a take waits is not modelled.
* `V3WriterLock`: between the marking of the old fence and `entry.hold = next` an advance's
  own hold looks lost to a caller (`v3_writer_lock.ts:163`), which then waits for a writer
  that is its own process. The model has it; no property rules it out.
  `tryAcquireV3WriterLock`, whose hold is shared with nobody, is left out.
* `WriterLease`: a `putIfAbsent` of a fence record that throws after it was applied
  (`writer_lease.ts:406`) is not modelled; the fence then stays with a process that has no
  hold until the TTL, as in `lease_prune_throws`.
* `WaitKeyClaim`: waits that accept early signals are left out, and so are unreadable
  records, `ensureRegistered` (`signal.ts:647`, which writes a registration again that was
  damaged or removed) and `removeKeyRecordsOfWorkflow` (`delete.ts:168`, which does delete
  the highest record, with its workflow). One removal runs at a time, and a run that failed
  is not retried under its id. A wait that is registered and unsettled is not counted as
  open in two cases:
  * Its claim stalled until its number was gone (`late`). A claimant that reads the highest
    generation and stalls while the next one is claimed, settled, superseded and removed
    creates that number again below the highest, and is told that it has the key
    (`wait_key_claim.ts:452`; the header says that "the highest record is never deleted,
    since a reused number would let two claimants both create a claim"). Two waits may then
    be open, and a signal by key does not find the late one. It takes a removal of *ended*
    runs during one claim, so a suspended host. The other waits of the key are not disturbed
    by it, and this is what is proved.
  * The removal of its run has begun. If closing the wait failed when the run ended
    (`repo_context.ts:2249`) or its step failed (`execution_service.ts:6165`), the wait is
    open until a sweep, holds its key alone until then, and loses both to the removal: the
    release record comes first, the registration after it. In between, or for good if the
    removal throws there, another step may open its wait under the key while the
    registration of the ended run is unsettled.
* `FileLock`: two calls that read or stat the file are one step; the process checks of one
  host are the flag `stale`. `NoOrphanFile` excepts a file whose own process died or failed
  to remove it (`file_lock.ts:365`, `:469`, `:522`) or to read it, after which a release
  removes nothing (`:609`, `:357`). Such a file keeps others waiting for its ttl, and
  nothing retries.
* `CommitOutbox`: entries queued offline, forwarded to serve, rejected, quarantined or
  unreadable, chunks and their sweep, and withdrawn groups are left out. A refusal at a
  flush that is not the last, whose entry could be neither marked nor removed
  (`commit_log_unit_of_work.ts:607`), is thrown to the caller and not counted as told here;
  the unit's own end is then reported as unconfirmed. The run makes three assumptions; TLC
  shows that each is needed, the last with four processes.
  * `Unjudged = {}`: `writerAliveFrom` takes a writer whose liveness cannot be judged for
    gone (`commit_outbox_recovery.ts:137`). If it still runs, a recovery may land an
    entry that it gives up and reports as failed.
  * `PromptRecord`: a process that stalls between the raise of the store's fence and
    `recordFence` (`v3_datastore.ts:1313`) until its successor has recorded and recovered
    records its lower fence last, which restarts the chain and takes the floor
    back; a commit of the overtaken writer may then land.
  * `PromptMark`: a recovery that stalls between its listing and `markLeft` may mark an
    entry which the overtaken writer prepared again in between, after another recovery was
    completed: the update (`sqlite_commit_outbox.ts:717`) asks only that the row has no
    mark. If that writer then dies, the next recovery sends what the floor is meant to drop,
    "an entry a writer that lost the lease prepares after it is overtaken"
    (`commit_outbox_recovery.ts:169`). The proof of `OvertakenNeverLands` failed here first.
* `Dispatch`: workers' verification, protocol versions, tokens, lock hand-off, uploads in
  parts and the reconciliation of leases at boot are left out. In the passing run no write
  request is open when its socket closes (`LateWrites`, see above) and a method awaits each
  write (`Parallel`): a second write does not wait for the first one's mark of the lease
  (`data_plane.ts:553`), so one that overtakes it is saved before the lease says so.
  `LeaseEndsWithStep` excepts cancelled steps: a cancel during the grace window throws out
  of `#awaitWorkerFate` (`dispatch_service.ts:1216`) before the lease is ended, and the
  lease stays active until the next boot expires it. When the ledger throws, two more things
  go wrong, which the model shows and the properties except by name:
  * `unmarked`: `#recordWrite` and `recordFirstWrite` note the attempt in memory before they
    mark its lease (`data_plane.ts:556`, `dispatch_service.ts:320`) and do not undo the note
    when the mark throws. The first write fails, the method's next one does not mark, and is
    saved with a lease that says nothing was written, against "must never under-report them"
    (`data_plane.ts:868`). The note keeps the step from running again in this process
    (`WrittenNeverRunsAgain` has no such exception); what reads the lease alone is misled.
  * `unended`: the end of a lease that throws fails the step or is swallowed
    (`dispatch_service.ts:1000`, `:1019`, `:1106`), and an acquire or a mark of declared
    writes that throws is outside the `try` (`:814`-`:835`). The lease stays active until
    the next boot, "so it cannot leak as active" (`:1104`) notwithstanding.

  A pin is held by worker name here as in the code, and `releaseAffinity` at the end of a
  run is left out, as a behaviour is one run's. Workers have the capacity that serve counts
  with, so the worker's own refusal `worker_busy` (`dispatch_service.ts:565`) does not
  occur. `GiveUp` has a queue timeout; set to 0 there is none (`:343`), and `StepEnds` does
  not hold.
* `ContinuationClaim`: approvals, nested runs, failed runs and the reconciliation of runs of
  dead instances are left out. An instance may stall past its run lock after its claim only
  (`StallsAt`). One that stalls between the comparison of its copy and the creation of its
  claim can create a generation that was released meanwhile, below a higher one, and
  `ContinuedByOne` fails (`design/primitives/workflows.md:354`: "Two serve instances on one
  datastore must not both resume a run"). Claims that were overridden are not counted: a
  person's resume may replace a holder that is alive and not known to be, and a boot pass
  replaces a holder whose heartbeat is older than its ttl
  (`control_plane_continuation_claim_store.ts:134`). The heartbeat's writes may fail or
  stall while the instance runs on, which only logs (`instance_heartbeat.ts:87`): two
  instances then continue one run. What is left, and proved, is that nothing else lets serve
  in: not copies that are stale, claims of an unknown holder, a failed resume or a race of
  several replacements.
* `Replication`: the start of a lineage and its file (`v3_copy.ts:880`) are one step, and so
  are the install of a restored copy and its record (`v3_copy.ts:322`); a crash in between only
  has the first one done again. The fence that a first acquire or a read-only hold records
  locally (`v3_writer_lock.ts:538`) is left out. A process with a lost hold refreshes its copy
  as well (`v3_repo_context.ts:361`); here only one without a lease does. The registry is read
  in one step, all checkouts name one replica root and no lineage is broken; pruned heads,
  the fork rules of the collection, the supervision of the sidecar, restores that fall back
  from an exact transaction id and the waiters of group commit are left out, and so is the
  feed of followers. `Cases` names three situations; `AckedSurvives` fails in each, and the
  passing run allows none of them.
  * `no_change`: see the violated run.
  * `retake_in_sync`: `checkV3WriterLease` asks the hold the process has by then
    (`v3_writer_lock.ts:420`). When serve loses its lease and takes it again while a sync runs, the
    sync publishes on the superseded lineage, passes the check, and acknowledges.
  * `retake_at_boot`: only `startV3ReplicationUpkeep` makes a copy not current when its lease is
    taken again (`v3_repo_context.ts:2422`). A loss and a retake before serve starts it leave
    serve committing on a copy that lacks the other writer's commits.

  `FeedBoundIsAcked` is about a leader whose hold is not lost: `bound()` answers the head
  of its own copy once it is (`v3_repo_context.ts:2261`), although a "writer sends only what it
  published" (`v3_repo_context.ts:2239`). That a copy was restored is remembered by the process only
  (`restoredCopies`), so the writer of the next process may continue a lineage over the restored
  database; the model allows it, and what Litestream makes of the path is outside it.
* Not modelled: see `components` in `PROJECT.json`, each with its reason.

## 6. Plan

In this order, the most important first:

1. **`EarlySignal`**: pending slots joined to `WaitKeyClaim`'s records, at-most-once
   delivery.
2. **`ServeLeadership`** over `Replication`: tick, lead, step down, the leader record
   written before leading, and the feed a follower applies. A leader that restarts as a follower
   before its successor's lineage is confirmed keeps what it never published
   (`serve_leadership.ts:250`); the feed is needed to say what readers then see.
3. The waiters of group commit: one returns only when its mark is covered, and does return.
4. **`WorkflowRun`**, with the reaper of orphaned runs, and with trigger conditions and
   topological order as operators checked against reference definitions over small graphs.
5. **`OfflineFlush`**: the entries `CommitOutbox` leaves out, rebased or quarantined.
6. **`LeaseClock`**: the timed verdict and renewals.

Runs stay few: a new module joins an existing run where it shares no state with it, as
`MCKeyAndReplica` does, or replaces runs that differ in bounds only.

Theorems worth proving next: `Replication`'s with one of its three `Cases` allowed and the
code changed so that the case is harmless (a head compared by mark as well as by transaction
id; the lease of the sync's own hold checked), as a statement of what a correction would
have to establish.
