# A TLA+ model of PartitionCTL

PartitionCTL plans and carries out index operations on partitioned PostgreSQL
tables. A *planner* reads the catalog and writes a sealed *plan*, a small graph
of nodes; the *executor* walks the plan one node at a time, sending one
`CREATE INDEX CONCURRENTLY`, `ATTACH`, `REINDEX` or `DROP` after another. Each of
them may take hours, commits on its own and cannot be rolled back by what comes
after it. What the tool promises is therefore about records: whatever ends a run
(a crash, a refused statement, a full disk, Ctrl-C, `cancel`), the state store and
the catalog together must tell the next `resume` where to go on, and nothing may be
destroyed that the tool cannot prove it made.

The modules here model that protocol on three levels: the run and its node records,
the process that walks them and the catalog it changes (`RunEngine`); the commands
that meet on one target, with its lock, the leases and the heartbeats (`TargetLock`);
and the store calls both are made of, statement by statement and write by write
(`SqlStore`, `FileStore`). TLC checks them on small instances. TLAPS proves the safety
properties for every plan, catalog, number of processes and number of faults, under the
hypotheses section 4 names: that the records are kept, that nothing is dropped or lost
track of without right, that what the planners make is what the engine relies on, that a
new plan gets an interrupted operation to its end, and that engine and stores implement
their abstract specifications. Paths below are relative to `src/`.

## 1. Inventory

### Parts, their state and their operations

| Part | Where | State it keeps | Operations |
| --- | --- | --- | --- |
| Node state machine (D7) | `engine/protocol/nodestate.go`, `nodekind.go` | none, a table | `ValidTransition`, attributes of the nine node kinds |
| Run state machine | `engine/state/run.go` | none, a table | `ValidRunTransition`, resumable / incomplete / terminal sets |
| Executor | `engine/executor/executor.go`, `authorize.go`, `backoff.go` | in memory: node states, attempts, stop channels | `Run`, `recoverOrphans`, `runNode`, `Authorize`, `dispatch`, `markObject`, `adoptObject`, `verifyPhase`, `transition` |
| Command layer | `adapters/cli/cmd_execute.go`, `cmd_resume.go`, `cmd_cancel.go` | none beyond the call | `execute`, `resume` (adopt, cleanup, walk), `walk`, `finish`, `cancel` |
| Orphan protocol | `engine/state/orphan.go` | none, writes the store | `MarkOrphaned`, `AdoptOrphan` |
| File state store | `engine/state/file.go`, `atomic.go` | plan, run, node records, lease, audit log, all files | `CreateRun`, `TransitionNode`, `SetRunStatus`, `AcquireLease`, `RenewLease`, `ReleaseLease`, `RequestCancel`, `RecordAuthorization`, audit append |
| Advisory lock | `engine/state/file.go` `TryLock`, `Refresh`, `Unlock` | one lock file per target | take, take over when expired, refresh, release |
| SQL state store | `engine/state/sql.go` | the same ports over tables and `pg_try_advisory_lock` | the same |
| Ownership policy | `engine/planner/indexes.go`, `engine/protocol/marker.go`, `engine/state/claim.go` | none: reads the marker (a COMMENT) and the node records | `DecideProvenanceDrop`, `DecideLeftoverDrop`, `MayMark`, `ClaimsObject` |
| Planners | `operations/create-index`, `drop-index`, `reindex-index` | none | catalog to node graph, or a refusal |
| Verifier | `engine/verifier` | none | assertions and verification predicates |
| Naming | `engine/protocol/naming.go`, leftover bases | none | generated names, `_ccnew`/`_ccold` resolution |
| Plan sealing | `engine/protocol` plan, digest, canonical JSON | the plan file | seal, `TopologicalOrder`, fingerprints |
| Reporting commands | `plan`, `status`, `verify`, `render` | none | read and print; `plan` writes one file |
| Liquibase extension | `liquibase-partitionctl` (Java) | Liquibase's own changelog table | changesets planned against the live catalog |

### How they interact

* `execute` takes the lock, creates the run with every node record, acquires the
  lease and walks. `resume` finds a run, marks it orphaned if nothing renews its
  lease, adopts it, cleans up unusable indexes under generated names, and walks.
* The walk is calls downward only: executor to store, executor to PostgreSQL.
  Every decision the walk takes is preceded by a write of the node's record.
* Three channels ask a process to stop: a signal, the run's `CancelRequested` flag,
  and the status `CANCELLED`. All are read at a node boundary; the signal is read
  in a retry's backoff too.
* `cancel` is another process. It reads the lease: alive means leave a flag, dead
  means the run is `CANCELLED` at once.
* PostgreSQL is shared with people. Somebody may create, comment on or drop an index
  under a name the plan uses, at any moment.

### What is hard

1. **A window after every statement.** Commit, COMMENT and checkpoint are three
   steps. Dying between them leaves a catalog ahead of the records.
2. **Statements that fail half way.** The CONCURRENTLY forms commit early
   transactions first: a refused build leaves an invalid index, a dropped one a
   dead index, a rebuild a `_ccnew` index.
3. **Proof of ownership.** Between `CREATE` and `COMMENT` only a node record says
   whose an index is. Claims that end too early strand it; claims that end too late
   take what is not ours.
4. **Stale authorization.** Minutes of backoff lie between the attempts of one drop,
   and hours between resume's decision to clean up and its last drop.
5. **Two writers of one run record**: the walk's end and `cancel`, with the lease
   lapsing under a process that is alive.
6. **Writes that land and still report an error**, when only the audit append failed.
7. **Stop requests at every point** of adoption, cleanup, walk and backoff, and the
   one that is left standing when the run is adopted again.
8. **More than one process**: the lock file's takeover, the heartbeat that does not
   run during cleanup, an `execute` that looks for prior runs before it has the lock.
9. **The stores themselves**: transactions that number their events alike, a pool
   whose connections are pinned by those who wait for another, an append that stops in
   the middle of a line, a cached sequence number that is no longer true.
10. **Names that are cut to fit**: a leftover's stem may be another index's name.

`PROJECT.json` lists these hazards one by one with the line each one bites at.

### What makes each part correct

* Records: at most one node is under way, everything before it complete, everything
  after it untouched (`Frontier`); the process's view is the record
  (`MemoryMatchesStore`); every change is an edge of D7 or of the run's diagram
  (`FollowsD7`, `FollowsRunStatus`).
* Executor: a node is attempted within its budget (`TypeOK` bounds `tries`), a stop
  starts nothing new (`NoNewNodeAfterStop`), every command returns (`SessionEnds`).
* Ownership: every destructive statement has a fresh grant (`FreshAuthorization`),
  a marker (`DroppedWasMarked`), and an index of ours under it
  (`NothingForeignDestroyed`, `ForeignCommentKept`); nothing of ours is ever out of
  reach (`UnmarkedIsClaimed`).
* Lock: two commands hold one target only after a lock lapsed (`SoleHolder`), and then
  do not go on beside each other for ever (`FencedOut`); commands that nothing disturbs
  leave no run RUNNING for nobody (`NothingLeftRunning`).
* Stores: records move by compare-and-set, the trail is numbered without a gap and says
  what the records say, a statement follows its authorization (`ImplementsContract` of
  `MCStores`, `TrailTells`); the trail can be read after any crash (`NoneMalformed`);
  every call is answered (`Answered`).
* Planners: a new plan made from whatever an interrupted run has left goes through
  (`NewCreateBuilds`, `NewDropRemoves`, `NewReindexCleans`); over what another operation and
  other people have left, `reindex-index` refuses before its first rebuild whatever its last
  verification would reject (`NoHopelessReindex`).
* Names: leaves are told apart, and a leftover leads back to its own base or to none
  (`ChildNamesApart`, `LeftoverBasesFound`).
* Run: completion is the truth about the tree (`CompletedMeansBuilt`), resuming ends
  (`Convergence`), and the whole is the contract a reader of the plan signed
  (`ImplementsContract`).

## 2. The modules

| Module | Models | Extends |
| --- | --- | --- |
| `NodeLifecycle` | D7, run statuses, node kinds, as sets and functions | |
| `OwnershipPolicy` | marker statuses, the three authorization modes, `MayMark`, `ClaimingNode` | `NodeLifecycle` |
| `PgIndexes` | the indexes of one table and what each statement does to them (external) | `OwnershipPolicy` |
| `RunEngine` | store, process, environment: the protocol | `PgIndexes`; instance of `PlanContract` |
| `PlanContract` | the abstract specification of a run | |
| `Planner` | the three planners, catalog to node graph | `PgIndexes` |
| `FreshPlan` | planning anew from what a run has left, and executing that plan undisturbed | `RunEngine`, `Planner` |
| `RetryPolicy` | the delays of `backoff.go`, in integers that wrap | |
| `Naming` | child index names and leftover names, cut to fit | |
| `Operation` | a run with its names and its pauses: what it relies on of both | `FreshPlan`, `Naming`, `RetryPolicy` |
| `TargetLock` | the commands on one target: lock, runs, leases, heartbeats | `NodeLifecycle` |
| `StoreContract` | the abstract specification of the state store port, for one run | `NodeLifecycle` |
| `StoreCalls` | what both stores are asked, and what a call changes | `NodeLifecycle` |
| `SqlStore` | the PostgreSQL store, statement by statement | `StoreCalls` |
| `FileStore` | the file store, write by write | `StoreCalls` |
| `RunEngineProofs` | eight theorems about `RunEngine`, its refinement of `PlanContract` among them | `RunEngine`, TLAPS |
| `CatalogProofs` | five theorems about what `RunEngine` does to the indexes | `RunEngineProofs` |
| `OperationProofs` | the planners' plans, what they come to, names and waits | `CatalogProofs`, `Operation` |
| `TargetLockProofs` | three theorems about `TargetLock` | `TargetLock`, TLAPS |
| `StoreCallsProofs` | lemmas about calls, for the next two | `StoreCalls`, TLAPS |
| `SqlStoreProofs`, `FileStoreProofs` | four and three theorems about the stores, each with its refinement | `StoreCallsProofs` and the store |
| `MCCreate`, `MCDrop`, `MCReindex` | instances: a catalog, and the plan its planner makes of it | `Operation` (`MCDrop`: `FreshPlan`) |
| `MCTarget` | instance: two executes and a resume | `TargetLock` |
| `MCStores` | instance: both stores, one at a time, against `StoreContract` | `StoreCalls`; instances of the stores and the contract |
| `MCStoresProofs` | four theorems about the port over either store | `MCStores`, TLAPS; instances of `SqlStoreProofs`, `FileStoreProofs` |

`RunEngine` takes its plan as a constant, any function from nodes to records whose
dependencies point backwards; the MC modules let `Planner` compute it from the
catalog. So the runs walk the plans the program would emit, the theorems of
`RunEngineProofs` and `CatalogProofs` are about every plan that meets three assumptions
(`Ordered`, `DropsProven`, `VerdictsStand`, each a predicate of a plan), and
`OperationProofs` shows that every plan of the three planners does.

### RunEngine: state

`status`, `cancelFlag` are fields of the run record; `state` and `dispatched` are the
node records (`dispatched` abstracts the attempt counter to "not zero", all
`claimingNode` asks); `lease` is the lease file together with who holds it. `cat` is
the catalog. The process has `pc`, `cur` (the node in hand), `mem` (its node states),
`tries` (the attempts of this visit), `adopt`, `todo` and `target` (the cleanup's
items), `outcome`, `signalled` and `resuming`; all of them are lost when it dies. Two
history variables are read by no action: `granted`, authorizations recorded and not
yet used, and `maker` in an index, who created it.

### RunEngine: actions

A label of `pc` lies between two effects that another party could see. Each action is
one store write, one statement, or one read that decides something.

| Actions | Code |
| --- | --- |
| `Execute` | `cmdExecute` up to `CreateRun` |
| `Resume`, `MarkOrphaned`, `RewindOrphans` | `cmdResume`'s choice of a run; `state.MarkOrphaned`, status first, then a write per node in flight |
| `AdoptRun`, `AdoptLease`, `RewindFailed` | the three writes of `AdoptOrphan` and `rewindFailedNodes` |
| `Inspect`, `Recheck`, `CleanupComment`, `CleanupDrop`, `CleanupFailed` | `App.cleanup`, `recheck`, `adopt`, `dropOwnedIndex` and the failure path |
| `WalkLease`, `LoadStates`, `Recover`, `Boundary` | `App.walk`'s lease, `Executor.Run` and its node loop, `recoverOrphans`, `stopRequested` |
| `Ready`, `Attempt`, `Run`, `AdoptComment`, `Evaluate`, `Statement`, `Mark`, `Verifying`, `Verify`, `Finished`, `Halted` | `runNode`, `authorizeNode`, `dispatch`, `execDDL`, `markObject`, `verifyPhase`, in the order of `runNode`'s checkpoints |
| `Retry`, `Deferred`, `Backoff` | the retry branch: safe kinds go round within the budget, others stop the run |
| `Finish`, `Release` | `App.finish` and the lease release |
| `Crash`, `ExpireLease`, `LeaseLapses`, `Heartbeat`, `BackendFinishes`, `Signal`, `Cancel`, `Dba` | what happens around the process |

`Checkpoint` is `Executor.transition`: the record, then the view. Its error branch
ends the walk, and the write may or may not have landed.

A statement's outcome is a set of catalogs: `Committed` (empty when PostgreSQL
refuses it), `Wreckage` (its early transactions only), `StillBuilding` (the client is
gone, the backend is not). A crash draws from the same sets, so a statement can have
committed and the process be dead before it hears so.

### TargetLock: state and actions

`cmd[p]` says where the command of process `p` is and which run it works on; `lock` is
the lock file (none, blank, or held, fresh or expired) or the session lock; `runs` are
the plan's runs, each a status and a lease; `fenced` are the walkers whose heartbeat
found lock or lease to be somebody else's. Every store call is one step.

| Actions | Code |
| --- | --- |
| `PriorRuns` | `priorRuns` and `refuseExecute`, before the lock |
| `TryAdvisoryLock` | `SQLStore.TryLock` |
| `CreateLock`, `FillLock`, `ReadLock`, `TakeOver`, `ReadBack` | `FileStore.TryLock`: `O_EXCL`, the body, the expiry test, the write over an expired file, the read back |
| `CreateRun` | `cmdExecute` |
| `FindOrphans`, `MarkOrphaned`, `ChooseRun`, `AdoptOrphan`, `TakeLease` | `RecoverOrphans`, the choice of the newest resumable run, the writes of `AdoptOrphan` |
| `Cleanup` | `App.cleanup`, which no heartbeat accompanies |
| `AcquireLease`, `EndWalk`, `Finish`, `ReleaseLease` | `App.walk` and `App.finish` |
| `ReadToRefresh`, `Renew` | one beat: `Refresh` reads and then writes the lock file, then the lease is renewed; a lock or lease of somebody else's fences |
| `ReadToUnlock`, `RemoveLock` | `fileLock.Unlock`, `sqlLock.Unlock` |
| `ExpireLock`, `ExpireLease`, `Crash`, `LoseSession` | time, the end of a process, the end of its session |

Walking is one place: what happens in it is `RunEngine`'s.

### The stores: state and actions

The records of one run are `status`, `stop`, `state`, `lease`, and counters of
authorizations and of authorized statements. A client is a goroutine; `job[c]` is the
call it is in, with the values it has read so far. `StoreCalls` says which calls there
are (the ones that pass validation), what a call compares (`Matches`) and what it writes
(`Recorded`). The stores say in which steps.

`SqlStore`: a checkpoint is `Begin`, `Touch` (the guarded `UPDATE` and its row lock),
`InsertAudit` (`MAX(seq) + 1`), `Unblock` (the unique index makes the second of two equal
numbers wait, and fail if the first commits), `Commit`. `Diagnose` is the read after a
miss, on another connection. Lease calls and `RequestCancel` are their single
statements. `Free` counts the connections a process has pinned: transactions, the
planner's snapshot, the session lock. `Fail` is any error or death: the server rolls
back. `log` is the table of events.

`FileStore`: a call takes the mutex (`Enter`, and the lease calls), renames a record into
place (`Write`), appends its event (`Emit`), and lets the mutex go (`Leave`). `EmitFails`
leaves a part of the line or all of it; `Crash` does so to a process and takes its mutex,
cursor and calls away; `SweptAway` is a temporary file another process has removed.
`lines` is the audit file, `cursor` the cached sequence number with the file size it
belongs to.

### FreshPlan

At every place where a run can be left, `Executed(CreatePlan(cat), cat)` is what a plan
made now and executed undisturbed makes of the catalog: statement by statement with the
effects of `PgIndexes`, stopping where a check fails, PostgreSQL refuses, or `execute` may
not drop. The planner asks for the claims of all live runs, so also for those of the
interrupted one.

### What is abstracted

* `RunEngine` has one process at a time, which is what `TargetLock` is about;
  `lease = "lapsed"` brings `cancel` into conflict with a process that is alive.
* In `TargetLock` a beat's write comes before anybody's next beat, except as often as
  `MaxFaults` allows (`ahead`): a refresh is a file operation, the interval 15 s. Records
  are written by compare-and-set in one step, which `SqlStore` and `FileStore` show.
* The stores keep one run. Over files the goroutines of one process are concurrent and a
  `cancel` comes as a process of its own, before or after (`Alone`): what keeps other
  processes out is the target lock.
* Two events of one transaction are one, and sizes of the audit file are counted in lines.
* SIGINT before the walk, and an error resume returns before it has a run, are
  `Crash`: they leave what a crash at that step leaves.
* Errors are "refused" (a terminal SQLSTATE that follows from the catalog) or "any"
  (`Fault`, which the classifier may call terminal or retryable).
* The order of cleanup items is any order.
* A name is a sequence of symbols one or two bytes wide, over limits of four and six
  bytes; a tag is one symbol. What a hash computes is left open.
* A marker is one of four statuses: absent, ours, foreign, unreadable.
* Reading the comment and writing it in `markObject` is one step.
* `explicit` authorization re-checks what is sealed in the plan, and always grants.
* Other runs' claims are the constant `PriorClaims`; planner and engine read the same.
* `SKIPPED` is produced by nothing in the executor; the tables have it, no step writes it.
* `create-index` plans carry no throttle beyond the `wait` nodes; `PaceSeconds = 0`
  for reindex, so it has none.
* REINDEX leaves a `_ccnew` only when that name is free (PostgreSQL would pick a
  numbered one); `_ccold` is not modelled.

## 3. What the runs check

| Run | Instance | Interference | Properties |
| --- | --- | --- | --- |
| `create_survives` | create-index, two partitions, no index yet (11 nodes) | 2 crashes, 2 failed statements, 1 store error, 1 stop request | `TypeOK`, `Frontier`, `MemoryMatchesStore`, `UnmarkedIsClaimed`, `CompletedMeansBuilt`, `NewCreateBuilds`, `FollowsD7`, `FollowsRunStatus`, `NoNewNodeAfterStop`, `ImplementsContract` |
| `create_beside_dba` | create-index over a dead build of ours, the `_ccnew` of a rebuild somebody ran on it by hand, and a finished child | 1 of each, and two moves of somebody else (create, comment, drop, a drop that dies half way) | `FreshAuthorization`, `DroppedWasMarked`, `NothingForeignDestroyed`, `ForeignCommentKept`, `NoHopelessReindex` |
| `create_converges` | as `create_survives`, every commit recorded | 1 of each | `Convergence` |
| `create_returns` | as `create_survives`, lock_timeout without end | 1 failure, 1 store error, 1 stop request | `WaitsAreCapped`, `ChildNamesApart`, `SessionEnds` |
| `drop_survives` | drop-index of a half-built tree of three: one child attached, one ours and unmarked under a prior run's claim, one somebody else's | 1 crash, 2 failures, 1 store error, 1 stop request | `FreshAuthorization`, `CompletedMeansBuilt`, `NewDropRemoves`, `DroppedWasMarked` |
| `reindex_survives` | reindex-index of a complete tree of two with one leftover | 1 of each, and one comment of somebody else's | `CompletedMeansBuilt`, `NewReindexCleans`, `LeftoverBasesFound`, `DroppedWasMarked` |
| `target_lock` | two executes and a resume of one plan, over either store, at most two runs | 1 of: an expiry, a lost session, a crash, a slow heartbeat | `TypeOK`, `SoleHolder`, `NothingLeftRunning`, `FencedOut` |
| `stores` | over SQL: walk, heartbeat and a second process, 4 calls, 3 connections; over files: walk, heartbeat and a cancel, 3 calls | SQL: a rollback at any step; files: 2 crashes or failed writes | `TypeOK`, `TrailTells`, `NoneMalformed`, `ImplementsContract`, `Answered` |

Four more runs show a disagreement between the code and what it says of itself;
see section 6.

### Why these instances are large enough

Two partitions give two leaf chains between a shared root and a shared verify node:
the least plan in which nodes are independent, one chain can be complete while
another is half way, and the attach that completes the tree differs from one that
does not. `drop-index` needs three, because its leaves come in three classes
(attached, ours unattached, not ours). Two attempts are the least budget in which a
retry and an exhausted budget both occur. Two crashes let the second strike inside
the recovery from the first, so in every step of adoption and cleanup; two failed
statements let a cleanup fail that was caused by one. One store error suffices for
each write to be the one that is lost, or lands unreported. Two moves of somebody
else let an index appear under one of our names and then get a comment, or be
dropped after it was commented on. Three commands are the fewest in which a run is
opened, adopted by another and met by a third; two runs are what two executes can open
when one looks for prior runs before the other has its lock; one fault is what separates
a holder from its lock, and every two-holder history starts with one. (With two faults
and one run, 300,000 states, everything holds too.) In the stores, two calls collide on
a number and a third or fourth finds what they left; a third client is what waits while
two hold what it needs; three connections are the session lock, one transaction and one
read, the least a walk with a heartbeat gets by with. The second of two faults strikes
the process that repairs what the first one left. Delays are checked for every base,
cap and attempt in integers of six bits, names for every pair of names of up to three
symbols. The names of indexes are strings, because the planner's
leaf order tells the leaves apart: no symmetry is used.

Deadlock is not checked: a `COMPLETED` or `CANCELLED` run has nothing left to do, and
the bounds on interference run out. `Convergence` and `SessionEnds` say what must not
get stuck.

At every place where the create-index of `create_beside_dba` can be left, a reindex-index is
planned. All of `ReindexRefused`'s reasons occur: the parent of a half-built tree is invalid
and a leaf missing or unattached; over a finished tree, the leaf with the leftover has lost
its marker. And the parent alone is to blame when somebody's `DROP INDEX CONCURRENTLY` of a
verified leaf dies half way before its `ATTACH`: every leaf is then attached, the leftover's
base marked, and only `resolveParentIndex` keeps a plan from being made.

`Answered` is checked for a pool limited to three connections. That is the documented budget
(`adapters/cli/connect.go:16-23`; two in `engine/state/sql.go:39-41`), not one the code
enforces: `sql.Open` sets no limit, under which nobody waits for a connection.

Three properties leave something out that the code can do, and do not claim it. `Convergence`
is checked without unseen commits, in a plan without drops or rebuilds; that `resume` diverges
with them is what `crash_diverges`, `cleanup_takes_node_work` and `reindex_leftover_stays`
show. `SoleHolder` excepts lapsed locks, so the race of two takeovers is left to `FencedOut`.
`NothingLeftRunning` excepts the halted cleanup (section 6).

### Two switches

`UnseenCommits = FALSE` keeps out every step that leaves a committed statement
unrecorded (except attach and reindex, which can be repeated). It is what
`Convergence` needs, and `crash_diverges` shows that it does.

`DbaInGap = FALSE` keeps other people from touching the indexes between the check
that decides to destroy one and the statement that does. PostgreSQL gives no way to
check and drop in one statement, so there the hazard is inherent and not the code's;
with the switch on, `ForeignCommentKept` fails at that place. Everywhere else
(between cleanup items, between attempts, before and after every other statement) they
come and go as the bound allows.

### Fairness

`FairSpec` adds three conditions.

* `WF_vars(Process)`: a process that is alive goes on (the walk is one goroutine; it
  waits for file operations and statements only, every lock wait of a statement is
  bounded by `lock_timeout`, and a build, which has no timeout, ends), and the operator resumes a
  run that can be resumed. The second is what "`resume` converges" presupposes. No
  strong fairness and no fairness of single actions is assumed: how often a statement
  fails is bounded by its own constant, or, in `create_returns`, not bounded at all.
* `WF_vars(ExpireLease)`: a lease nobody renews expires by the clock (60 s).
* `WF_vars(BackendFinishes)`: a backend whose client is gone ends its build.

`TargetLock` assumes `WF_vars(Heartbeat(p))`: the ticker ticks on however long the
statement in flight takes, since it is a goroutine of its own. That is all `FencedOut`
needs; no command need ever get on. `MCStores` assumes `WF_vars(Advance(c))` for each
client in a call: its goroutine is runnable, or waits for a lock or a connection
that somebody will give back.

Nothing else is fair: no crash, signal, cancel or other person need ever act.

### Why each property can fail

Each property of each passing run is paired in `PROJECT.json` with a changed form of
one definition, an operator marked `Mutant:` and kept beside the definition it
changes, which breaks it: a store error that is logged and forgotten
(`CheckpointHopefully`), a best-effort marker (`MarkBestEffort`), a walk that takes
any node whose dependencies are complete (`BoundaryAnyOrder`), an authorization
reused by the retries (`AttemptAuthorizedOnce`), an outcome written over a
cancellation (`FinishLastWriteWins`), a cached number trusted after a failed append
(`NextSeqCached`), a lock file taken over before it expires (`ReadLockGreedy`), a base
found by its stem (`BasesStemFirst`), and so on. None of these is used by `Next`.

## 4. What is proved

### The run

The theorems about `RunEngine` hold for every plan (any finite number of nodes of any kinds whose
dependencies point backwards), every catalog, every `MaxAttempts` and every bound on
crashes, faults, store errors, stops and moves of others, under the assumptions
of `RunEngine`: `SizeAssumption` (at least one node, at least one attempt),
`PlanAssumption` (plan order is topological, which sealing a plan establishes),
`ObjectAssumption` (the names used are names) and `BoundAssumption` (types of the
bounds). `DropAssumption` and `VerifyAssumption`, which the next subsection explains,
serve only the theorems of `CatalogProofs`.

| Theorem | Property | Argument |
| --- | --- | --- |
| `TypeCorrect` | `TypeOK` | `TypeInv`: types, and that a process in a node has one, that a cleanup item has a target, and that the budget is not exceeded at any label from which another attempt follows |
| `MemoryIsRecord` | `MemoryMatchesStore` | `RecordInv`: at each label inside a node, which states the node's record can be in |
| `RecordsFollowD7` | `FollowsD7` | from `RecordInv`: the edge a checkpoint takes is determined by its label and the record there |
| `AlwaysFreshlyAuthorized` | `FreshAuthorization` | inductive with `TypeInv`: `Attempt` and `Recheck` grant, `Statement` and `CleanupDrop` use up, a crash forgets |
| `RecordsShowTheFrontier` | `Frontier` | `FrontierInv` = `RecordInv`, `Frontier`, and that the node in hand is the first incomplete one |
| `RunsFollowTheirDiagram` | `FollowsRunStatus` | each write of `status` under its guard |
| `StopsStartNothing` | `NoNewNodeAfterStop` | only `Boundary` takes up another node, and only if nothing asks to stop |
| `EngineImplementsContract` | `ImplementsContract` | `ContractInv` = `FrontierInv`, and that a process exists only while the run is open or cancelled and finds it complete only when every node is |

Neither `Frontier` nor `MemoryMatchesStore` is inductive. A step that moves a node
keeps `Frontier` only if that node is the first incomplete one, which is so because
`Boundary` picked it from `mem`; that is the store's only if `mem = state`; and that
survives a checkpoint only if the label says which state the record had. Hence the
chain `TypeInv`, `RecordInv`, `FrontierInv`, `ContractInv`, each proved inductive on
the ones before it.

The refinement maps the contract's `done` to the complete records and its `working`
to the node in hand, or, when no process is inside a node, to the record left half way:
after a crash the contract still works on that node until a resume rewinds it
(`GiveUp`) or takes it up again. The proof sorts the engine's steps into those the
contract does not see (`Unseen`), those that move the node in hand (`HandMoves`,
`HandCompletes`), rewinds, the boundary, and changes of the run's phase.

### The catalog

The theorems of `CatalogProofs` are about what becomes of the indexes. The order of a plan
is not enough for them: two more assumptions say what the graphs of the three planners have
in common. TLC evaluates them on the plan `Planner` makes in every run, and the next
subsection proves them of every plan it can make.

* `DropAssumption` (`DropsProven`): only a drop by name takes down the whole tree (`drop-index`); any other
  drop asks for a marker, its object's or its base's, and comes before each node that would
  make that object (a leftover is cleared away before its name is built again).
* `VerifyAssumption` (`VerdictsStand`): no later node undoes what a verify node has found, by dropping its
  object or the root, or by making an index in the tree it looks over (`Undoes`).

Some theorems carry hypotheses of their own, each with a behaviour that makes the property
false without it. Every run that checks one of the properties meets them, so each theorem
says of every instance what the run says of one.

| Theorem | Property | Hypotheses | Invariant |
| --- | --- | --- | --- |
| `OnlyMarkedIsDropped` | `DroppedWasMarked` | `~DbaInGap` | `DecisionInv`: from the decision to the statement, the marker is still the one decided on |
| `ForeignCommentsAreKept` | `ForeignCommentKept` | `~DbaInGap` | the same |
| `NothingIsLostSightOf` | `UnmarkedIsClaimed` | `NoReindex`, `NothingUnmarked` | `UnmarkedInv`: a node past its statement was dispatched; a node past its COMMENT has left its index marked |
| `CompletedIsBuilt` | `CompletedMeansBuilt` | `OnlyComments` | `BuiltInv`: what a verify node found holds from its verdict on; no cleanup item is the object of a verdict; a walk ends "complete" only with every node complete |
| `OthersAreLeftAlone` | `NothingForeignDestroyed` | `OthersKnown`, `OthersBehave` | `ForeignInv`: what others made is usable or says whose it is, is claimed by no other run, and does not carry our marker while a drop by marker is outstanding |

* `~DbaInGap`: PostgreSQL has no statement that checks a comment and drops, or writes one,
  so a person who comments in that gap is not seen (see "Two switches"). Elsewhere they do
  what they like, also between the attempts of one drop.
* `NoReindex`: a rebuild that commits over a `_ccnew` of its failed attempt leaves that index
  behind and completes its node: nobody claims it any more (section 6, no. 4).
  `NothingUnmarked`: a plan may start from an unmarked index that another run claims
  (`drop_survives`), which is that run's to name.
* `OnlyComments`: somebody who drops the finished index after its verification makes the
  record of a COMPLETED run wrong, and no check can prevent it.
* `OthersKnown`, `OthersBehave`: an unusable index without a comment under a name the plan
  uses looks exactly like our own dead build. `claim_outlives_refusal` is the behaviour where
  that costs an index. The theorem says it is the only way: as long as what others make is
  usable or commented, it stays, whatever is resumed, retried or cleaned up.

All five rest on the lemmas about what a statement can do (`Effect`): whether it commits
(`CommittedEffect`), dies part way (`WreckageEffect`) or loses its client
(`InterruptedEffect`), it keeps an index as it is or better, makes one where none was, or
hurts the object of a drop; `CatalogSteps` sorts the engine's
steps by the same three. The argument for `CompletedIsBuilt` is the one a test would hardly
make: a verdict outlives crashes and resumes because everything incomplete comes after it
(`Frontier`), so what is repeated is what undoes nothing, and because the cleanup takes only
unusable indexes.

### The planners' plans and their execution

`OperationProofs` holds for any number of partitions in any order (`LeafAssumption`:
discovery finds each leaf once, and no leaf has the parent's index name).

A plan of any of the three operations is a head, a chain for every leaf and a foot, laid
end to end (`PlanLaid`) and numbered, which changes nothing of a node but how it names what
it waits for (`NumberKeeps`). What the engine assumes of a plan follows from that shape and
a few facts about the chains (`ChainedPlan`):

| Theorem | Says |
| --- | --- |
| `CreatePlanIsSound`, `DropPlanIsSound` | `Ordered`, `DropsProven` and `VerdictsStand` hold of the plan, over every catalog and every set of claims |
| `ReindexPlanIsSound` | the same, under `RebuildsApart`: the transient indexes of two leaves have two names, and none a leaf's |

What a plan comes to when nothing disturbs it is a recursion over its nodes (`Executed`).
The rule for it is `ChainWalk`: give a set `G` of catalogs that every node keeps, and for
each leaf the sets `L[l][r]` of catalogs in which `r` nodes of its chain are still to come;
if each node takes its own leaf from one set to the next and no other leaf out of its set
(`Chainwise`), then all the chains go through, and at the end every leaf is in `L[l][0]`.
The rule is proved by induction over leaves and nodes, as "the least number for which it
fails". With it:

| Theorem | Over | Conclusion |
| --- | --- | --- |
| `CreateGoesThrough` | `CreateSound`: an attached leaf is usable and has its parent, and with all attached the parent is usable; `Proven`: each dead build carries our marker; at least one leaf | not refused, not stuck, every leaf built and attached, and a plan made after it has no statement |
| `DropGoesThrough` | the parent exists; `OrphansProven`: each orphan the plan takes up carries our marker | not stuck; the parent and every leaf that was not skipped are gone |
| `ReindexGoesThrough` | `ReindexSound`: the parent is usable, every leaf exists and is attached, no transient index is; `Ours`: a leaf with a leftover carries our marker | not refused, not stuck, every leaf usable, no transient index left |

The first three theorems about starting over say that a run leaves its catalog in such a
condition wherever it is left, by crash, failure, stop request, cancel or halted cleanup. The
fourth says that `reindex-index` refuses whatever is not in its condition, over any catalog a
run and other people have made.

| Theorem | Property | Hypotheses | Invariant |
| --- | --- | --- | --- |
| `CreateCanStartOver` | `NewCreateBuilds` | `CreateRun` | `CreateSound`, `ToolMarked`, with `BuiltInv` |
| `DropCanStartOver` | `NewDropRemoves` | `DropRun` | `DropInv`, with `FrontierInv` |
| `ReindexCanStartOver` | `NewReindexCleans` | `ReindexRun` | `ReindexSound` |
| `ReindexIsNeverHopeless` | `NoHopelessReindex` | `RebuildsApart`, `AttachesLeaves`, no transient index attached at first | `Loose` |

* The plan is the planner's, made over `InitialCatalog`; that catalog is one an earlier run
  of the tool may have left, not only an empty or a whole one. `create_survives`,
  `drop_survives` and `reindex_survives` are instances.
* `CreateRun`: somebody else who comments on a dead build of ours has the next plan refused,
  and so makes `NewCreateBuilds` false; here nobody does (`DbaMoves = {}`), and no marker is
  foreign or unreadable to begin with (`ToolMarked`). An attach is only as good as the index it attaches: that the
  index verified before it is still in order, through any number of resumes, is `BuiltInv`.
  A parent over no partition at all is left out (`Leaf # {}`): `PgIndexes` makes a parent
  valid with its last attach, and there is none.
* `DropRun` (`DropSound`): what the tool has made is the parent or a leaf, and an unattached
  leaf without a marker is the tool's just when an earlier, still live run claims it. If
  that run was cancelled the index is nobody's, and no plan removes it; if the claim is to
  somebody else's index, a new plan takes it up and is denied its drop. `DropInv` says that
  an index only fades: its condition changes, it gains our marker, or it goes (`Fades`); that what a node dropped
  stays away; and that the tree goes last, so that without the parent nothing of ours is
  left (`OursGone`).
* `ReindexIsNeverHopeless` is about every plan that attaches leaves and nothing else, which
  those of the three planners do (`PlansAttachLeaves`), and about others who may do anything
  `Dba` has. What the planner does not look at, whether a transient index hangs in the tree,
  it need not: no step attaches one (`Loose`).
* `ReindexRun`: others may comment as they like, which is why the property excepts a
  leftover whose leaf has lost its marker.

### Names and waits

| Theorem | Property | For every |
| --- | --- | --- |
| `NamesStayApart` (from `ChildrenAreTold`) | `ChildNamesApart` | width of an identifier, parent name, and pair of partition names that fit it |
| `BasesStayFound` (from `BasesAreFound`) | `LeftoverBasesFound` | width, pair of names, kind of leftover and order in which rebuilds die |
| `WaitsStayCapped` (from `DelaysAreCapped`) | `WaitsAreCapped` | range of integers, base and cap in its lower half, and attempt |

`WidthAssumption` says what a symbol is: it has a width, a tag always the same one, and tag
and suffix fit an identifier. Two cut names differ by their tags, and a cut name differs from
an uncut one because a name that looks tagged is tagged again. The delay is the exponential
because a value below a cap of at most half the range can be doubled once more without
wrapping, and a value at the cap is not doubled. All three are inductions over a recursive
function, whose existence is proved first (`Iteration`).

### The target and the stores

| Theorem | Property | Argument |
| --- | --- | --- |
| `TargetTypes` | `TypeOK` of `TargetLock` | with which run a command has at which place |
| `TargetHasOneHolder` | `SoleHolder` | `Alone`: until something lapses, who is at a guarded place owns a lock that is fresh, a blank file has one writer, and nobody takes over |
| `NothingIsLeftRunning` | `NothingLeftRunning` | `Tidy`, with `Alone`: while nothing has failed, every RUNNING run has a command that will finish it, every lease one that still works on that run |
| `SqlTrailGapless` | the numbers of the trail are 1, 2, 3, ... | `SqlInv`: rows locked by one client each, a record still what its job compared, the numbers claimed the next one |
| `SqlRecordsFollowDiagrams` | every status and state written is an edge of its diagram | the same: what was compared in `Touch` is there at `Commit`, because the row is locked |
| `FileTrailReadable` | `NoneMalformed` | every line but the last is ended, and an append to one that is not begins with a separator |
| `FileRecordsFollowDiagrams` | as over SQL | one client at a time is past `Enter`, so what it compared is what it writes over |
| `SqlTrailTells` | the last event about a record names what is in it; as many `auth` events as authorizations | `TrailInv`: record and event are written by one commit, and the event's row is the record's new value |
| `SqlImplementsContract` | `StoreContract` over SQL | `TrailInv`, and that no more statements are on their way than authorizations allow |
| `FileImplementsContract` | `StoreContract` over files | `PortInv`: the cached number is right whenever the size is; a call past its rename still has what it renamed to log |
| `StoresTyped` | `TypeOK` of `MCStores` | `Bounded`: an authorization is recorded or asked for, and each was a call |
| `TrailAlwaysTells` | `TrailTells` | `SqlTrailTells` |
| `TrailAlwaysReadable` | `NoneMalformed` of `MCStores` | `FileTrailReadable` |
| `StoresImplementContract` | `ImplementsContract` of `MCStores` | the two refinements |

They hold for any number of processes, clients, nodes, runs, connections, calls and
faults. Assumed are `ProcessAssumption` ("nobody" is no process, the backends are the
two), `KindAssumption` and `BoundAssumption` (types) of `TargetLock`; of `StoreCalls`,
`NodeAssumption` (no node is called "run" and the like), `ClientAssumption` (finitely many,
and none called "free"), `HostAssumption` (each client is in a process) and
`CallsAssumption`; and of `MCStores` that its bounds are numbers (`BoundAssumption`).

The stores' refinements map the contract's records to the store's and its trail to the
table of events, or to what the reader makes of the audit file. Over SQL each commit, and
each call that is a single statement, is one step of the contract; the rest is stutter. Over files the record moves with the
rename and the trail with the append, two steps, and a crash between them is a record
without its event, which `StoreContract` allows because the code does. That the reader sees
one event more after an append is an induction over the file: it is done on the least line
where two readings differ, since a set of naturals has a least element.

`MCStores` has either store as an instance, and the theorems about each are proved once,
where the store is the module itself. `MCStoresProofs` brings both together: its first
lemmas say that the two instances of one module mean the same (`SqlWords`, `SqlSame`,
`FileWords`, `FileSame`) and so do the two of the contract (`SqlPort`, `FilePort`);
`Stores` is then `TrailInv` or `PortInv`, whichever backend was chosen.

`SoleHolder` is not inductive: that two are not past `TryLock` follows only from each
owning the lock while it is past it, and that is kept by the takeover's guard (an expired
lock), by the blank file's having one writer, and by `Unlock` and `RemoveLock` coming from
the owner. Compare-and-set over SQL is not inductive either: between `UPDATE` and
`COMMIT` the value compared must not change, which is the row lock (`RowFree`); the
number inserted must be the next when it commits, which is the unique index (`Unblock`).

## 5. What is only model-checked

* `Convergence`, `SessionEnds`, `FencedOut`, `Answered`: liveness under fairness is out of the prover's reach.
* That the four disagreements of section 6 happen: a counterexample is found, not proved.
* The instances of the hypotheses: that the catalogs and plans of the runs meet the
  assumptions is evaluated, not proved.

Every invariant and action property that a passing run checks is stated by a theorem.
What the theorems' hypotheses leave out is not claimed by a run either: with somebody in the
gap between check and drop the properties are false, not unproved.

## 6. Where code and documentation disagree

Each has a run that TLC finds violated, and a finding in `PROJECT.json` that quotes
the line it contradicts.

1. `crash_diverges`. A crash after `CREATE INDEX` committed and before the `VERIFYING`
   record. `resume` rewinds the node and sends the same `CREATE`, which has no
   `IF NOT EXISTS`: 42P07, terminal, on every resume. The cleanup removes unusable
   indexes only, and this one is in order. The same happens when the COMMENT fails.
2. `cleanup_takes_node_work`. A plan with a node that drops an unusable index of ours,
   stopped before that node, even on request. `resume`'s cleanup drops the index
   first; the node then asks to be authorized for an index that is gone, and is
   denied on every resume.
3. `claim_outlives_refusal`. Somebody else's failed build takes a child's name before
   our `CREATE`, which is refused. The node was dispatched, so after its rewind it
   claims the name; the cleanup marks the index as ours and drops it.
4. `reindex_leftover_stays`. A `REINDEX CONCURRENTLY` that died leaves a `_ccnew` index.
   The rebuild is repeated and succeeds, nothing removes the leftover, and the final
   verification fails on every resume.

The way out of the first, second and fourth is a new plan, which goes through from every
catalog they can leave (`NewCreateBuilds`, `NewDropRemoves`, `NewReindexCleans`). The
exception those properties name is an unusable index that has no marker yet. While its
run is live a new plan may be made, but its `execute` is denied the drop (`AllowAdoption`);
once the run is cancelled, nothing proves the index ours and `create-index` makes no plan
at all until somebody drops it, although `execute` says of a cancelled run "re-plan against
the live catalog and execute the new artifact" (`adapters/cli/cmd_execute.go:366`).

Further observations, met while modelling, have no run of their own:

* `drop-index` leaves a foreign invalid index alone by design, while `resume`'s cleanup
  halts on any foreign unusable index under a generated name. A plan of this sort that is
  interrupted once cannot be resumed until somebody deals with that index by hand.
* Two processes that both read an expired lock file take it over in turn; each reads its
  own token back before the other writes. The comment at `engine/state/file.go:1308` has
  the read back decide the race. `SoleHolder` therefore excepts lapsed locks, and
  `FencedOut` says the heartbeats end the double walk.
* A process that dies between creating its lock file and filling it leaves a file nobody
  can decode: every later command fails until it is removed by hand (`file.go:1269`).
* A walker that was fenced still records its outcome: `finish` compares with RUNNING only,
  and so sets the run of the process that has adopted it to INTERRUPTED.
* A cleanup that halts fails its run and keeps the lease `AdoptOrphan` took. A `resume`
  within its lifetime moves the run to RUNNING, is refused the lease and leaves it RUNNING
  (`adapters/cli/cmd_resume.go:122-126`); the next one finds an orphan. Hence `~halted` in
  `NothingLeftRunning`.
* `RequestCancel` over SQL reads run and lease and then sets the flag on whatever the run
  has become; a run that was adopted in between may be CANCELLED under its new holder.
* A lost session does not fence a walker of another run: `Refresh` of a session lock does
  nothing, and the lease is the run's. Hence the condition in `FencedOut`.
* A concurrent cancel can take a checkpoint's sequence number; the checkpoint is rolled
  back and the walk ends with a store error.
* `minOpenConns` raises a limit that is set, and a fresh `sql.DB` has none
  (`adapters/cli/connect.go:43`), so it has no effect; in a pool limited to three, `resume`'s
  inspection beside a heartbeat would just get by.
* `engine/state/sql.go:812` speaks of a trigger that keeps the trail append-only; the
  schema in `sql_ddl.go` has none.
* `Backoff.Delay` wraps for caps above half the range of a duration, 146 years.

`create_converges` shows the other half: with none of these circumstances, one crash,
one failed statement, one store error and one stop anywhere still end in a complete or
a cancelled run.

## 7. What is not modelled

* Two processes writing one run's files at the same moment. `engine/state/lifecycle_test.go:212`
  leaves that to the advisory lock, which `cancel` does not take: a cancel and a status
  write in another process can each read, and the later rename wins.
* Topology drift, fingerprints, digests, canonical encodings.
* The retry classifier's table: which error is retryable is a choice.
* `plan`, `status`, `verify`, `render`: no state changes. Flags, configuration, printing.
* The SQL that reads the catalog, privileges, session settings.
* The Liquibase extension.

## 8. Plan

1. A safety form of fencing for `TargetLock`: walking as steps, so that a fenced walker can
   be said to take up no further node.
2. `_ccold` leftovers, foreign attached children, the reindex watermark and the structural
   assertions in `Planner` and `PgIndexes`.
3. `cancel` over files as a second process: the lost update.
4. The Liquibase extension's changesets.

## 9. Running it

    tlc -workers 2 -config create_survives.cfg MCCreate.tla
    tlc -workers 2 -config drop_survives.cfg   MCDrop.tla
    tlc -workers 2 -config reindex_survives.cfg MCReindex.tla
    tlc -workers 2 -config create_beside_dba.cfg MCCreate.tla
    tlc -workers 2 -config target_lock.cfg     MCTarget.tla
    tlc -workers 2 -config stores.cfg          MCStores.tla
    tlapm RunEngineProofs.tla
    tlapm CatalogProofs.tla
    tlapm OperationProofs.tla
    tlapm TargetLockProofs.tla
    tlapm SqlStoreProofs.tla
    tlapm FileStoreProofs.tla
    tlapm MCStoresProofs.tla

The longest run takes under three minutes on two workers, the longest proof
(`OperationProofs`) about ten minutes.
