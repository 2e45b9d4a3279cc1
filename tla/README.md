# Verification of the bare metal manager core

TLA+ models, TLC configurations and TLAPS proofs for the concurrent core of this
repository: the work lock that serializes background work between API servers, the state
controller framework that drives every managed resource through its lifecycle, and, on top
of it, the life of network segments and VPC prefixes, the network of an instance from the
API to the DPUs, and the InfiniBand memberships of hosts.

## 1. The system and its parts

An installation runs several API server processes against one PostgreSQL database. Each
process runs, for every type of resource (machines, switches, network segments, ...), a
periodic enqueuer and a processor; other background services run in one process at a time
under a work lock. There is no leader and no shared memory between processes: everything
they agree on is in the database.

| Part | State | Operations | Interacts through |
|---|---|---|---|
| Work lock manager (`crates/api-db/src/work_lock_manager.rs`) | table `work_locks`; per process a FIFO of commands, command slots, keepalive loops | acquire, keepalive, release, fence a transaction | database rows and row locks; channels inside a process |
| State controller framework (`crates/state-controller`) | table of queued objects; per processor the running tasks, `completed_objects`, `requeue_objects` | enqueue, claim, dispatch, handle, persist, finalize, drain | queue table, controller state and its version, work lock (periodic enqueuer) |
| Lifecycle controllers (network segment, VPC prefix, IB partition, power shelf, switch, rack, SPDM, machine, extension service) | controller state of one type of object, its history, the outcome of the last iteration | one handler per state; returns Transition, Wait, DoNothing, Deleted or an error | the framework; devices and fabric managers |
| API handlers (`crates/api-core`) | none of their own | record requests; some write controller state directly; force-delete | database, explicit enqueue |
| Network segments, VPC prefixes and linknets (`crates/network-segment-controller`, `crates/vpc-prefix-controller`, `api-core/src/network_segment/allocate.rs`) | rows with a deletion mark and `delete_at`; addresses; the cursor of a prefix | create, allocate, request deletion, drain, delete | table locks, row locks and savepoints; instances' configurations |
| Instance network (`api-core/src/handlers/instance.rs`, `dpu.rs`; `machine-controller`; `crates/agent`) | the instance's configuration and pending update, two configuration versions, the DPUs' last reports | allocate, update, release, force-delete, reset; fetch, apply, report | versions that a DPU acknowledges |
| InfiniBand (`crates/ib-fabric`, `api-db/src/retired_ib_membership.rs`) | observations, the cleanup alert, retired memberships; UFM's own state | passes of the monitor that bind and unbind ports | database, calls to UFM (external) |
| Resource pools, config versions | pool entries; version numbers with timestamps | allocate, release, grow; increment, compare | database |
| Site explorer, preingestion, credential rotation, component, DPA and NVLink managers | progress of an external operation per endpoint | periodic reconciliation | work lock, devices |
| DPU agent, DHCP, DNS, PXE, metadata, scout, consoles | caches | translate requests | RPC to the API server |
| REST API, site agent, workflows (`rest-api`, Go) | Temporal workflows | durable workflows | Temporal (external) |

`PROJECT.json` lists every part with its status and, for the ones left out, the reason.

### What is hard here

* **Leases that expire under a live holder.** A work lock and a queue claim are both
  leases on wall clock time. A paused holder goes on after somebody else took over.
* **Answers that are lost.** A commit may take effect and still be reported as an error, or
  after the deadline has passed. Both finalization and transitions have to survive that.
* **State read before an await.** A handler loads a snapshot, talks to hardware without a
  transaction, and commits minutes later.
* **Ordering inside a process.** Drop is synchronous and cannot wait for the release it
  queues; the next acquisition must not overtake it.
* **Wake-ups that are swallowed.** Queueing an object that is already queued does nothing,
  even if its handler has already taken its snapshot.
* **Crashes between two transactions.** The queue row, the controller state and the
  bookkeeping of a processor are written at different times.
* **References without foreign keys.** Instance addresses, instance configurations (JSON)
  and pool entries name segments that a controller is about to delete.
* **Locks taken in turn.** A batch of interfaces locks prefix after prefix while others do
  the same and while the prefixes are being deleted.
* **Devices that lag.** A DPU goes on forwarding what it has until it has fetched and applied
  a newer configuration, and its report may be about an older one.
* **An external store without transactions.** UFM changes when a call takes effect, which may
  be after the database has moved on, after the caller has given up, or after the host's row
  has gone.

The hazards, each at its line, are in `PROJECT.json`.

### What makes the parts correct

* Work lock: only the present holder's fenced writes commit, in the order of the grants; a
  dropped lock is released and the release is not overtaken; what a dead or absent-minded
  holder leaves behind runs out.
* State controller: the versions of an object form one line whatever happens; an object has
  one handler at a time while deadlines are kept; after a step the next iteration is queued;
  every request is seen in the end.
* Segments and prefixes: a resource is taken into use only until its deletion is requested,
  is removed only when nothing uses it any more, and then is removed; pool values follow it.
* Linknets: the scan finds the next free child if there is one; batches neither deadlock nor
  lose a linknet they chose.
* Instance network: a segment is released only when no DPU forwards it, a free host is on the
  admin network, every generated segment has somebody who will release it, and updates and
  releases end.
* InfiniBand: whatever UFM has or may still get can be found again, unless a reset has dropped
  it; strays are removed, wanted memberships are bound, and the release that waits for this ends.

## 2. Modules

| Module | Models |
|---|---|
| `WorkLock` | the work lock, its managers, callers and keepalive loops |
| `FencedLease` | abstract: what the work lock promises to fenced transactions |
| `MCWorkLock` | instances of `WorkLock` for TLC |
| `WorkLockProofs` | theorems about `WorkLock` |
| `StateController` | queue, processors, handling tasks, enqueuers, direct writers |
| `LinearObjects` | abstract: what all processors together do to an object |
| `MCStateController` | instances of `StateController` for TLC |
| `StateControllerProofs` | theorems about `StateController`: types and the version history |
| `ClaimProofs` | theorems about `StateController`: what the queue's claims achieve |
| `DrainedResource` | abstract: what a deletable resource promises to its users |
| `NetworkSegment`, `MCNetworkSegment` | network segments, their addresses and pool values |
| `NetworkSegmentProofs` | theorems about `NetworkSegment` |
| `PrefixAllocator`, `MCPrefixAllocator` | the choice of a linknet, as operators, and its comparison with a reference |
| `PrefixAllocatorProofs` | theorems about `PrefixAllocator` and `MCPrefixAllocator` |
| `VpcPrefix`, `MCVpcPrefix` | VPC prefixes, their deletion, and batches of linknets taken from them |
| `VpcPrefixProofs` | theorems about `VpcPrefix` |
| `InstanceNetwork`, `MCInstanceNetwork` | an instance's network: API, machine controller, DPU agents, generated segments |
| `InstanceNetworkProofs` | theorems about `InstanceNetwork` |
| `IbMembership`, `MCIbMembership` | InfiniBand memberships: API, machine controller, fabric monitor, UFM |
| `IbMembershipProofs` | theorems about `IbMembership` |

Operators marked "Mutant" in a comment are wrong variants of the definition that follows
them. They are not used by any specification; each stands for a plausible mistake in the
code, and a property is kept only if such a mistake violates it.

### WorkLock

`row` is the table: per key the `worker_id` and the age of `last_keepalive`. `queue` and
`cur` are the command FIFO of a process and the command its `run_loop` is executing, with
the time since the statement's `now()` was taken: an upsert that waits for a row lock
compares with an old `now()`. Every call of `try_acquire_lock` is an attempt with the uuid
the database would give it; `phase` follows its caller (requested, replied, held, dropped,
closed), `loop` its keepalive loop, `fence` the transactions that have taken the row's key
share lock.

One action per command and outcome: `TryAcquireLock`, `Abandon` (the caller's future is
dropped), `NewWorkLock`, `DropWorkLock`, `LoopStop`/`LoopTick`/`LoopSend` for the keepalive
loop, `Dequeue`, then `AcquireGranted`, `AcquireDenied`, `AcquireFailed`, `ReleaseLock`,
`ReleaseFailed`, `KeepLockAlive`, `KeepLockAliveLost`, `KeepLockAliveFailed` for the
manager, `FenceTransaction`, `CommitFenced`, `RollbackFenced` for the holder, crashes and
`Tick`. Release commands need no command slot; acquisitions and keepalives do. A takeover
or deletion waits for open fences on the row (`FOR KEY SHARE` conflicts with a change of
the key columns), a keepalive does not.

`FencedLease` has an owner, a term and the term last written per key. The refinement maps
its owner to the table's `worker_id`.

### StateController

`queue` is the table of queued objects: `processed_by` and the age of
`processing_started_at`. `live`, `ver` and `history` are the objects, their controller
state versions and the history table. A version has a number and the time of its write, as
`ConfigVersion` has; two writes never have the same time (the code's times are microseconds).
`task` holds the handling tasks, `pc`, `pend`, `completed` and `requeue` are a processor's
place in its loop and its memory. `listed` is what a periodic enqueuer has listed and not
yet queued; `direct` what a direct writer has read and not yet written.

* Enqueuing: `ListObjects` and `QueueListed` are the two transactions of
  `enqueue_objects`; `EnqueueObject` is an explicit wake-up. At most one periodic enqueuer
  is between its two transactions; a second one (an expired work lock) would add nothing
  that `EnqueueObject` does not do.
* Loop: `Claim`/`ClaimNothing`, `Dispatch`/`ClaimTimeout`, `Collect`, `Finalize` with
  `FinalizeFailed` and `FinalizeAnswerLost`; `Stop`, `DrainCollect`, `DrainFinish` for
  shutdown; `Crash`. A processor that ends is replaced by one with another id, so its
  claims stay in the table under an id nobody uses (`Gone`).
* Task: `Load`, `LoadMissing`, then any outcome the handler may have: `Transition`,
  `TransitionAnswerLost`, `TransitionRejected` (the version was not current),
  `Invalidated`, `Settle` (Wait, DoNothing, error), `Deleted`; `TaskFails` for the deadline
  and database errors.
* Others: `Request` (a user wants something), `DirectRead`/`DirectWrite` (a path that
  writes controller state without comparing versions), `ForceDelete`.
* `Tick` ages rows, claims and tasks. With the fault kind `late` it may do so whatever the
  system is doing; without it, tasks end at their deadline and finalization gets through
  before a claim is three deadlines old (`OnTime`).

Faults have kinds, and the constants say which kinds may happen and how many: the runs
differ in that. The handler's decision is a free choice among the outcomes, so what is
shown holds for every handler.

`LinearObjects` has one step per object: from the present version to the next, recorded in
the history.

The modules below are about single resource types. They do not repeat the queue: what
`StateController` shows is used as two facts, that a transition commits only if the version
its handler loaded is still current, and that two handlers of one object may overlap when a
claim has expired.

### NetworkSegment

`state`, `marked`, `due` are the segment's row (`due` is "`delete_at` has passed"); `addrs`
and `refs` are the rows of `instance_addresses` and the segments in instance configurations,
neither with a foreign key; `ifaces` the machine interfaces, which have one. `pool` gives the
owner of every VNI (VLAN ids behave alike): the owner is the segment's *name*, not its id.
Every transaction that reads before it writes is split: `AllocLock`, `AllocRead`,
`AllocCommit` for an allocation under the exclusive table lock, `MarkCheck` and `MarkCommit`
for a delete request, `Load` and the handler's steps (`HandleProvisioning`, `HandleReady`,
`DrainCheck` and `DrainCommit`, `FinalCheck` and `FinalDelete`). `PersistState` compares the
version (`current`); a Deleted outcome compares none.

`DrainedResource` knows four phases and the users of each resource. `NetworkSegment` and
`VpcPrefix` both implement it; `InstanceNetwork` relies on it for what happens to a segment
after its release.

### PrefixAllocator and VpcPrefix

`PrefixAllocator` has the functions of `allocate.rs` under their names: occupied ranges become
intervals of child indexes, a scan finds the first uncovered index after the cursor, with a
wrap. A loop over intervals is a recursive function of the number of intervals seen, with the
loop's body as an operator (`Scan`, `Merge`). The code's sorted list may repeat an interval; the
model's has each once. `VpcPrefix` is the batch scheduler: `Plan` freezes the candidates of
each interface, grouped by family; `Found` locks the candidate's row (`FOR NO KEY UPDATE`),
checks that it is still active and chooses; `Insert` or `Retry` (the exclusion constraint
refused, the savepoint is rolled back); `Unavailable` moves the work to the next candidate;
`Commit`, `Abort`. `DirectInsert` is a segment with a prefix of its own, outside of the
protocol. `MarkAsDeleted` and the handlers run against it. In these models a linknet is an
index; addresses and their width are in `PrefixAllocator` alone. All prefixes belong to one VPC
(the code groups the work by VPC and family); they are numbers in the order of the code's sort,
the first family below the second. A work's candidates are a set, of
which the code's sorted list takes the least first; works that wait for one prefix are served
in any order. What is chosen from a prefix is `NextFit` of its free linknets, and
`PrefixAllocatorProofs` shows that the interval scan of the code computes just that.

### InstanceNetwork

One host. `hs` and `admin` are the host's managed state and `use_admin_network`; `cfg`, `req`,
`nver`, `cver` the instance's network configuration, its pending update and the two versions;
`seg` the generated segments; `upd` the API's updating transactions with what each has read;
`snap` the snapshot of the controller's iteration, taken by `Load` and used by the action of
the state (one state of the model stands for a chain of states that only do device work).
`conf`, `applied`, `rep`, `obs` are a DPU's fetched and applied configuration, its next report
and the last one received. The agent's loop is fetch, apply (or fail) and report. The API's
calls are `AllocateInstance`, `UpdateRead` and `UpdateCommit` (the two halves of
`UpdateInstanceConfig`), `ReleaseInstance`, the reprovision and reset requests, and
`ForceDelete` with its two later transactions.

### IbMembership

Each host has one port, on one fabric; every partition exists and has a PKey of its own, and all
PKeys are managed, so a membership is a host with a partition. `ufm` is UFM's state, and `late`
the calls that were given up and may still take effect. A pass of the monitor reads the hosts
(`LoadHosts`), then the fabric (`LoadFabric`, or `LoadFabricInPart` when UFM reports less),
writes the observation of each host and decides what is missing and unexpected (`Record`), finds
the retired memberships that matter (`FindRetired`), re-reads the host of each under its lock
(`Reconcile`) and then makes the calls, binds before unbinds per host. The API's transactions
record in `retired` every membership they take away and remove those they give. The controller's
part are the two waits for the monitor, `TenantNetworkReady` and `Terminate`, and the reset of a
host: `StartReset` from any state but `ForceDeletion`, `ResetToAdmin`, `ResetDeletesInstance`,
which records nothing and waits for nothing of InfiniBand, and `ResetEnds` for the way back
through cleanup and discovery. That the DPUs have acknowledged the admin network before the
instance goes is in `InstanceNetwork`; here a switch is one step. `lost` is a history variable
that no action reads: the memberships that a reset took from an instance without a record, until
an instance gets them again. The work lock keeps passes apart; a pass that has lost its lock
differs from late calls only in that it learns how its calls end.

## 3. Runs

| Run | Checks | Instance |
|---|---|---|
| `worklock` | types, `FenceHoldsRow`, `DroppedLockIsReleased`, `ReleaseBeforeNextAcquire`, `FencedWritesInOrder`, `ImplementsFencedLease`, `OrphanRunsOut` | 2 processes, 1 key, 2 attempts, 1 command slot |
| `controller_on_time` | types, `SingleHandler`, `FollowUpIsQueued`, `FinalizeDeletesAll`, `RequestsAreSeen` | 1 object with a direct writer, 2 processors, 1 fault (failed claim or finalization, stop, crash), deadlines kept |
| `controller_faults` | `HistoryIsLinear`, `ImplementsLinearObjects` | 1 object, 2 processors, 2 faults of every kind, nothing on time |
| `controller_direct_writer` | violation of `HistoryIsLinear` | no fault, one direct writer |
| `segment` | types, `PoolAccounts`, `ImplementsDrainedResource`, `RequestedDeletionHappens` | 2 segments with one name and one VNI, 1 instance, 2 handlers |
| `instance` | types, `ForwardedSegmentsLive`, `FreeHostIsOnAdmin`, `ReferencedSegmentsLive`, `SegmentsAreHandedOn`, `UpdateSettles`, `ReleaseCompletes` | 2 DPUs, 2 segments, 1 updater, 1 disturbance of any kind |
| `instance_leak` | violation of `NoOrphanSegment` | 1 DPU, 1 reset |
| `prefix_allocator` | `NextFreeIsNextFit`, `FreeIsAgreed` | 16 addresses, a parent of 8, children of 2, up to 3 networks in use |
| `prefix_batches` | types, `NoWaitCycle`, `ChosenStaysFree`, `PrimaryFirst` | 2 batches of up to 2 interfaces over 2 IPv4 and 1 IPv6 prefixes, 1 direct insert |
| `prefix_drain` | `DeleteMeetsNoReference`, `ImplementsDrainedResource`, `RequestedDeletionHappens`, `BatchesEnd` | 1 batch with 2 candidates of 1 linknet each, 2 handlers |
| `ib_memberships` | types, `NoForgottenMembership`, `StrayIsRemoved`, `WantedIsBound`, `ReleaseEnds` | 1 host, 2 partitions, 1 forced deletion, 1 reset, 1 fault |
| `ib_cleanup_alert` | violation of `ClearedWhenRemoved` | 1 host, 1 partition, 2 passes without data |

**Bounds.** The work lock's hazards need a holder and a successor on one key; keys only meet
in the FIFO, where the one command slot is enough to fill the buffer. A lease of one tick has
the three interesting ages (fresh, at the limit, expired), and `MaxWait` lets a statement's
`now()` be one tick old. The controller's claims involve at most a holder and a processor that
takes over. `HandlingTime` of one tick gives a claim the ages 0 to 3 and one beyond;
`MaxWrites` of 1 or 2 lets a version be replaced under a task that has loaded it. `MaxFaults`
bounds faults, not the steps that react to them. The instances may be this small because the
safety properties are proved for all (section 4); what depends on them alone is liveness.

Two segments that share a name and a VNI are what a value released too late needs; two
handlers, what a second deletion needs. Sixteen addresses give networks that are wider than,
equal to and narrower than a child, inside, across and outside of the parent, and a cursor of
any length; three networks leave gaps before, between and after. Two batches over two prefixes
of one family and one of the other have every order of two row locks and both groups. Two DPUs
are what "every DPU has acknowledged" needs; two segments, an update. `MaxDisturbances` bounds
reprovisioning, resets, forced deletions and agents' failures together: each meets every state
of an update and of a release, but not a second one. A membership that wanders between an
instance, a pass and a late call needs two partitions on one host; hosts do not share ports. One
reset before or after one forced deletion, with one fault, is what loses track of a membership.

**Fairness.** In `WorkLock` only time, statements that are no longer blocked and the end of
fenced transactions are fair; no caller, loop or queue has to make progress. In
`StateController` the loops of processors and enqueuers and the tasks are weakly fair: they
run as long as their process does, and a deadline ends every task. Strong fairness is
assumed of claiming, dispatching and loading one object: a row is not overtaken for ever
(the code claims the oldest rows first, by timestamps that the model's capped ages do not
tell apart), and not every single claim is late. Users, direct writers and faults have no
fairness.

In the modules of single resources the controller takes up every object again and again
(strong fairness of `Load`, which is what `RequestsAreSeen` and the periodic enqueuer give,
where another handler may come first), its steps run, transactions that hold a lock end and
clocks pass `delete_at`. A handler that fails is not a step of its own: its transaction is
rolled back, and it is as if it had not loaded. Table locks are granted in the order of the
requests (`NetworkSegment`), hence the strong fairness of a handler's steps there. Agents and
the monitor go on with their loops; their failures are bounded by the constants. No call of
the API is fair: what has been requested comes to its end without another request. An
allocation or a delete request that has begun ends.

### What the violations show

* `controller_direct_writer`: `report_scout_firmware_upgrade_status` reads a machine and
  writes its state without comparing versions, and so does `machine::update_state`. A
  controller transition between the two is overwritten.
* `instance_leak`: a reset that is requested while an update of the network is pending deletes
  the instance together with the request, and releases only the segments of the current
  configuration. Those generated for the new one (after the promotion, those of the old one)
  stay live and nothing refers to them. Forced deletion releases both. `SegmentsAreHandedOn`, in
  the passing run, says that this is the only way: a segment loses its owner only with an
  instance whose update is pending. A reset is not the only cause: the Ready handler settles a
  pending update before anything else, but on its snapshot. With `MaxReset = 0` and
  `MaxReprovision = 1` the same invariant is violated by an update that commits after the
  handler has loaded and before it leaves Ready for a reprovision, followed by a release.
* `ib_cleanup_alert`: a pass that got no port or partition data from UFM finds nothing missing,
  unexpected or unknown about the ports of a released host, and clears `IbCleanupPending` while
  UFM still has the membership. The retired record is still there, so the membership is removed
  in the end (`StrayIsRemoved`); only the alert, and with it the bar on a new allocation, goes
  too early.

### What holds only under conditions

* `SingleHandler` needs that no committed finalization is reported as failed. If the answer is
  lost, the processor keeps `completed_objects`; its next iteration claims the requeued row
  again, starts a handler, and then repeats the finalization, which deletes the new claim and
  queues the object once more. Another processor claims it and runs a second handler beside the
  first. The history stays linear (`controller_faults`), but handlers also act on hardware.
* `FinalizeDeletesAll` needs that a finalization is not late: one that gets through after its
  claims are stale deletes fewer rows than it completed, which the code's assertion calls a bug.
* A keepalive can find its row gone although its worker did not miss an interval, when its loop
  was sending as the lock was dropped: the command is then behind the release in the FIFO.
* `ForwardedSegmentsLive` leaves out forced deletion, which does not wait for the DPUs.
* `NoForgottenMembership` and `StrayIsRemoved` leave out what a reset drops. An operator may reset
  a host with an instance in use (`--allow-reset-with-instance`, `managed_host_reset.rs:61`);
  `reset.rs:104` then deletes the instance without a record in `retired_ib_memberships`, without
  the wait for `ib_config_synced` and without the alert that `Terminate` raises. Both properties
  name such memberships (`lost`), and `NothingForgotten` proves that there is no other way to lose
  track of one. While the host has a row, a pass finds its port in a partition it does not expect
  and unbinds it; `StrayIsRemoved` includes this case. If the host is deleted by force before
  that, or a bind of an earlier pass takes effect after it, nothing leads to the port any more,
  and the membership stays in UFM until the host is ingested again. Without the exceptions TLC
  refutes both properties with one host, one partition, `MaxReset = 1`, `MaxForce = 1` and
  `MaxFaults = 0`: a pass reads the host, a reset deletes the instance, a forced deletion finds
  no instance to record, and the pass then binds the port. The manual says that the monitor
  removes "any GUID found in a NICo-managed P_Key that no longer matches a live instance config"
  (`docs/manuals/networking/infiniband_partitioning.md:225`). Recording the memberships in the
  transaction of `reset.rs:104`, as the release does, would close the gap.
* With one updater, the `instance` run has no two updates that read the same configuration; that
  case is covered by the theorems (`ReferencesSafe`, `HandedOn`), which hold for any number.
* `BatchesEnd` is checked with one batch: waiting for another batch's locks is the subject of
  `NoWaitCycle`.
* A host may become available on an observation that is older than a bind under way; that is why
  `NoForgottenMembership` speaks of what UFM may still get and not only of what it has.

## 4. Proofs

TLAPS checks these for every value of the constants that satisfies the named assumption of the
module (`ConstantsAssumption`, `NoneAssumption`, `BitsAssumption`).

| Theorem | States |
|---|---|
| `WorkLockProofs!TypeCorrect` | `Spec => []TypeOK` |
| `WorkLockProofs!FenceSafety` | `Spec => []FenceHoldsRow` |
| `WorkLockProofs!FencedWriteOrder` | `Spec => FencedWritesInOrder` |
| `WorkLockProofs!Refinement` | `Spec => ImplementsFencedLease` |
| `StateControllerProofs!TypeCorrect` | `Spec => []TypeOK` |
| `StateControllerProofs!LinearHistory` | `Spec => []HistoryIsLinear`, if `DirectlyWritten = {}` |
| `StateControllerProofs!Refinement` | `Spec => ImplementsLinearObjects`, if `DirectlyWritten = {}` |
| `ClaimProofs!OneHandler` | `Spec => []SingleHandler`, if `Punctual` |
| `ClaimProofs!FinalizeAssertion` | `Spec => FinalizeDeletesAll`, if `Punctual` |
| `ClaimProofs!FollowUpSafety` | `Spec => []FollowUpIsQueued`, if `Punctual` |
| `IbMembershipProofs!TypeCorrect` | `Spec => []TypeOK` |
| `IbMembershipProofs!NothingForgotten` | `Spec => []NoForgottenMembership` |
| `WorkLockProofs!DropReleases` | `Spec => []DroppedLockIsReleased` |
| `WorkLockProofs!ReleasesFirst` | `Spec => []ReleaseBeforeNextAcquire` |
| `NetworkSegmentProofs!TypeCorrect` | `Spec => []TypeOK` |
| `NetworkSegmentProofs!PoolSafety` | `Spec => []PoolAccounts` |
| `NetworkSegmentProofs!Refinement` | `Spec => ImplementsDrainedResource` |
| `VpcPrefixProofs!TypeCorrect` | `Spec => []TypeOK` |
| `VpcPrefixProofs!DeadlockFree` | `Spec => []NoWaitCycle` |
| `VpcPrefixProofs!ChosenSafe` | `Spec => []ChosenStaysFree` |
| `VpcPrefixProofs!FamiliesInOrder` | `Spec => []PrimaryFirst` |
| `VpcPrefixProofs!DeleteSafe` | `Spec => []DeleteMeetsNoReference` |
| `VpcPrefixProofs!Refinement` | `Spec => ImplementsDrainedResource` |
| `PrefixAllocatorProofs!ScanFindsFirst` | `first_unoccupied_index` is the least uncovered index of its range, for every ordered list |
| `PrefixAllocatorProofs!NextFreeCorrect` | `next_free_prefix` is the next free child, for every parent, child length, cursor and set in use |
| `PrefixAllocatorProofs!AllocationCorrect` | `Spec => []NextFreeIsNextFit` |
| `PrefixAllocatorProofs!CountCorrect` | `occupied_prefix_count` is the number of children that are not free, for the same inputs |
| `PrefixAllocatorProofs!AgreementCorrect` | `Spec => []FreeIsAgreed` |
| `InstanceNetworkProofs!TypeCorrect` | `Spec => []TypeOK` |
| `InstanceNetworkProofs!ReferencesSafe` | `Spec => []ReferencedSegmentsLive` |
| `InstanceNetworkProofs!ForwardingSafe` | `Spec => []ForwardedSegmentsLive` |
| `InstanceNetworkProofs!FreeHostSafe` | `Spec => []FreeHostIsOnAdmin` |
| `InstanceNetworkProofs!HandedOn` | `Spec => SegmentsAreHandedOn` |

`Punctual` says that two kinds of fault do not happen: `late` (a task outlives its deadline,
or a finalization comes after its claims are stale) and `finalizeAnswer` (a finalization is
committed and reported as failed). All the others may: lost claims, failed tasks and
finalizations, lost transition answers, shutdowns, crashes, direct writers, force-deletes.
Neither condition can simply be dropped, as section 3 explains.

**Work lock.** The inductive invariant is `TypeOK`, `FenceHoldsRow`, `OwnerTerm` and
`WrittenBound`. `FenceHoldsRow` is inductive with the types: a takeover or a deletion needs
a row without an open fence. To order the writes one also has to know that a row's owner
was granted in the key's present term (`OwnerTerm`) and that nothing was written in a term
that was not granted yet (`WrittenBound`): a commit then writes the present term, which is
at least the last one written. The refinement follows from the same invariant, one case per
action.

The two properties of the FIFO need an invariant of their own, `FifoInv`, about a manager's
line: the command it executes and those queued behind it. The release of a dropped lock whose
row is still there is in the line (`DropInLine`), and ahead of every acquire that was called
after the drop (`ReleaseAhead`). Both would fail if an attempt that was dropped could become
the owner of a row again, so `AcquireOnce` says that an attempt has one acquire in line at most
and that its caller has no lock yet; `HomeLine` and `SeenDropped` keep processes apart. A step
either sends at the end of a line, takes its first command, or leaves the lines as they are;
`FifoTryAcquire`, `FifoSend`, `FifoDequeue` and `NothingSent` are these cases, and a crash
empties a line together with what its callers held. Nothing depends on the command slots: a
release is never lost because it needs none.

**State controller.** The types need one fact per helper (rows, versions, tasks that end),
then one case per action. `HistoryIsLinear` is made inductive by two facts: the time of a
version counts the object's writes (`TimeCountsWrites`), and no direct writer holds a
version (`NoDirectWriter`). The only steps that write are then the two forms of a committed
transition, and the version comparison makes what they write the successor of the present
version; nothing about claims, ages or tasks is used. This is the point of the theorem: the
queue's claims keep handlers apart, but the version comparison alone keeps the history in
order.

**Claims.** `SingleHandler` is far from inductive: that a claim finds no running task follows
from the ages of rows. `ClaimInv` says that whoever has work on an object owns its row, and
that the row is no older than the work: a running task's row is at most as old as the task
(`RunningHolds`), the row of a finished task or a completed object is not stale
(`DoneHolds`, `CompletedHolds`), that of a claim which may still be dispatched is as young
as its deadline (`PendingHolds`). With it, an object is in one place only: claimed, in one
task or completed (`OneTask`, `TaskNotCompleted`, `TaskNotPending`, `CompletedNotPending`).
So a claimable row has no work on it, and a finalization deletes no row of a task. Most
actions only drop work; one lemma (`NoNewWorkKeeps`) covers them, and claims, dispatch,
collection, task steps and `Tick` have their own. For `FollowUpIsQueued`, `FollowInv` adds
that what an object is owed travels with it: a finished task asks for another iteration, a
processor remembers that in `requeue`, and the finalization that deletes the row queues the
object again.

**Network segments.** `UseInv` is the argument about the table lock: whoever allocates keeps
away those who count (`TableLock`), what an allocation has validated under its lock stays
usable until it commits (`ValidatedStays`), and references name existing segments
(`ReferencesResolve`). `HandlersSafe` says what a handler may still rely on after its read: a
handler about to delete holds the share lock, so nobody uses its segment, and it knows whether
there is a pool value to release (`AboutToDelete`). `PoolAccounts` is then kept although the
owner of a value is a name: a value goes back only in the transaction that deletes the segment,
which finds a segment that exists. The refinement has one lemma per kind of step; a second
handler of a deleted segment stutters. There is no assumption on the number of segments,
instances, handlers, names or values, only that `None` is none of them.

**VPC prefixes.** `BatchInv` is about one batch: the locks it holds are on active prefixes, none
of which comes after one that it waits for (`LocksAscend`); a work waits for the least of its
candidates, all of one family (`WorksSorted`); it has locked what it has inserted into and
chosen from (`InsertedLocked`, `ChosenLocked`); and an interface that waits for its second
family waits for or has the first (`SecondaryWaits`). A candidate that turns out to be
unavailable is replaced by a later one, which is why the locks ascend and why `NoWaitCycle`
follows: in a circle of waiting batches, take the one whose candidate is greatest (the proof
takes the one with the fewest prefixes above its candidate); whoever it waits for holds that
candidate and waits for a greater one. `HandlersSafe` and `DrainsOnRequest` carry
`DeleteMeetsNoReference` and the refinement: a marked prefix is not active, a batch inserts
only into active prefixes that it has locked, and `mark_as_deleted` waits for that lock. That
prefixes are finitely many, of one VPC, and ordered as the code orders them (by family and id, so
that the IPv4 prefixes come first) is assumed.

**Linknets.** `PrefixAllocator` has no state; what is proved is what its loops compute. The
library's induction theorems cannot be instantiated by the provers at hand, so facts about a
loop are proved by taking the least number of intervals for which they fail (`LeastNat`,
`Upwards`; numbers are well-founded), and that a recursive function obeys its definition is
proved by building the loop's history (`LoopRuns`). Each loop has an invariant. `ScanKnows`:
every index from the start of the range up to the candidate is covered, the candidate itself is
covered by no interval seen so far, and once the loop has returned, by no later one either,
which needs the order of the list. `MergeKnows`: from `start` on the indexes covered are those
up to `end`, and `sum` is the number of those covered before. `SortExists` shows that a finite
set of intervals can be listed in order. `OverlapIsCovered` is the arithmetic: a network
overlaps a child exactly if it lies in part in the parent and the child's index is between the
quotients of its clipped ends. `AlignedIsChild` and `ChildOverlapsParent` are for the explicit
request: what lies in the parent and has a child's length is a child, and the code's filter by
overlap with the parent drops no conflict. Assumed are an address space of at most 128 bits, a
parent that is smaller than it, and that `None` is not a number. Numbers are unbounded in the
proofs; the code's are `u128`, and all of them are below the size of the address space. `Pow2`
stands for the shift by a number of bits, since the provers know nothing about exponentiation.

**Instance network.** The safety of segments rests on acknowledgements, so the invariant follows
a configuration along the agent's loop. `ReceiptInv` says for each DPU that versions are never
ahead of the host's and the instance's, and that whoever has the present versions (in the
fetched configuration, in a report under way, in the last observation) has the present segment,
and has applied it if it has reported. `Settled` is what the controller's check of the
observations establishes (`SyncedIsSettled`), and it lasts: a settled DPU that fetches, applies,
fails or reports again stays so until the versions change. `SnapshotInv` says what remains true
of a snapshot while others go on, `OwnInv` and `SettledInv` that a DPU forwards a segment that
the instance refers to, or the admin network where the host's state says so, and `ControlInv`
which requests and updates are possible in which state. A DPU that forwards only what is
referred to, and `ReferencedSegmentsLive`, give `ForwardedSegmentsLive`. That there are finitely
many DPUs is assumed, because the code loops over them.

**InfiniBand.** `NoForgottenMembership` is about memberships that UFM has, that a pass means to
bind and that are in a call, present or given up. To make it inductive, a membership has to be
covered (recorded as retired, owned by an instance that stays, or lost by a reset) earlier
still: as soon as a pass has read a host that is expected to have it (`SeenCovered`), since it
may become a bind at any later time, when the host is no longer what the pass saw.
`RecordedOnExit` says when the record is written: before an instance that is to go or whose host
is deleted by force can stop being an owner; and that the controller terminates only instances
whose release was requested. The one step that ends an instance without a record is
`ResetDeletesInstance`, and the statement says so: `lost` grows there and nowhere else. The
steps then fall into two kinds: those on a host change no bind and keep every covered membership
covered (`HostStep`), and those of the monitor and of UFM change neither hosts nor records, and
only move binds along (`ReadingCovers`, `CallingCovers`). Nothing is assumed about the freshness
of what the monitor has read, about the number of hosts, or about faults.

**Only model-checked.** Liveness under fairness (`OrphanRunsOut`, `RequestsAreSeen` and the
liveness of the other modules) is out of the prover's reach. Every safety property of the
passing runs is proved.

## 5. What is not modelled

* What handlers do to devices, the text of outcomes, SLAs, metrics and state-change hooks. In
  `StateController` a handler's writes other than the controller state are part of the same
  transaction and share its fate.
* The machine controller outside of the network: discovery, firmware, attestation, validation
  and decommissioning are long chains of Redfish calls with a state for each; the model has one
  state for a chain.
* The lifecycles of switches, racks, power shelves, SPDM attestations and extension services,
  preingestion, credential rotation, and the component, DPA and NVLink managers.
* IB partitions come and go in the code: their controller counts references without a lock
  against an allocation that is not committed yet. `IbMembership` has fixed partitions. It also
  leaves out several fabrics, a port that two hosts claim, and the alert about ports that are
  down.
* Resizing of resource pools; the pool is modelled as far as segments use it.
* Batches over several VPCs: `execute_prefix_allocations` groups the work of a batch by VPC and
  family (`instance/mod.rs:1454`); in `VpcPrefix` all prefixes are of one VPC, so the order of
  locks between two VPCs is neither checked nor proved.
* Ownership checks of VPC prefixes, addresses a tenant asks for in a batch, and batches of IPv6
  only. Reports of one DPU do not overtake each other: the agent awaits the answer to a report
  before it makes the next.
* Go code (REST API, site agent, workflows), whose durable execution is Temporal's; front ends,
  protocol services and tools, which translate requests.
* `persist_outcome` compares no version, so a late handler can replace the stored outcome
  of a newer iteration; outcomes are not in the state.
* The work lock of the periodic enqueuer, iteration ids and the per-object metric series.
* Row locks taken by multi-row statements: each SQL statement is one step (except the
  upsert of the work lock, which may wait).
* Overflow of version numbers, and queued object ids that do not parse (the processor skips
  them after claiming).

## 6. Plan

Done: the work lock and the state controller; segments, VPC prefixes and linknets; the instance
network; InfiniBand memberships; the safety of all of them proved. Next:

1. `PeriodicEnqueuer`: the enqueuer under its work lock, iteration ids, and the per-object
   metric series with their pending clears against handlers in flight.
2. IB partitions as a third drained resource, composed with `IbMembership`.
3. `ConfigVersion`: increments at the width of the type and the database format.
4. `Rack`, `Switch` and `PowerShelf` maintenance, `CredentialRotation` and `Preingestion`:
   staged external operations with crashes between the stages.
