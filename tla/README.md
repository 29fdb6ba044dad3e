# Verification of open-vm-tools

TLA+ models of the concurrent and fault-prone parts of open-vm-tools, the TLC
configurations that check them on small instances, and TLAPS proofs of results that
should hold for every instance. The first group of modules models how a running
guest is quiesced for a snapshot, from the host's request down to the kernel; the
second the memory balloon, the blocking of files during drag and drop, and the file
lock that the libraries share.

Everything is translated from the C source. `PROJECT.json` maps each definition
to the lines it stands for.

## 1. Inventory

open-vm-tools is the guest half of VMware's guest integration. The daemon
`vmtoolsd` runs one GLib main loop per container ("vmsvc", "vmusr"), loads
plugins, and talks to the VMX (the per-VM process of the hypervisor) over an RPC
channel. Kernel modules provide ballooning, shared folders, drag-and-drop
blocking, VMCI sockets and, on old kernels, a filesystem freezer.

| Part | State it keeps | Operations | What is hard about it |
|---|---|---|---|
| vmbackup state machine (`services/plugins/vmbackup/stateMachine.c`, `vmBackupInt.h`) | the heap object `gBackupState`: machine state, current operation, callback, freeze status, three timers | RPCs start, startWithOpts, abort, snapshotDone; poll, abort and keep-alive timers; shutdown | a pool thread writes into the object that the main loop polls, aborts and frees |
| sync providers (`syncDriverOps.c`, `nullProvider.c`) | the freeze operation, its handle | start (in a pool thread), snapshotDone, query, cancel, release | the freeze can block for ever in the kernel; the handle changes owner |
| script operations (`scriptOps.c`) | the list of scripts, the index of the current one, its process | new, query, cancel, release | freeze order and reverse thaw order share one index; files disappear |
| sync driver library (`lib/syncDriver`) | descriptors of frozen mounts | freeze, thaw, close over three backends | a mount fails after others were frozen |
| thread pool (`services/vmtoolsd/threadPool.c`) | queue of tasks, GThreadPool tokens, standalone threads | submit, cancel, start, run, shutdown | the queue and GLib's own queue are two queues |
| main loop (`services/vmtoolsd/mainLoop.c`) | the service context, the I/O freeze flag | run, stop, cleanup, I/O freeze callback | order of the shutdown |
| vmsync kernel module (`modules/linux/vmsync`) | per descriptor a list of frozen devices, a mutex, a delayed work item | open, ioctl freeze, ioctl thaw, timeout, release | the work item races the thaw ioctl and the release |
| RPC channel (`lib/rpcIn`, `lib/rpcOut`, `lib/rpcChannel`, `lib/message`) | channel, retransmission state, registered handlers | start, poll, dispatch, reset, send, restart | error counting and channel resets, reentrancy |
| balloon (`modules/shared/vmmemctl`) | page chunks, page count, error pages, batch page | poll: reset, query, inflate, deflate; cleanup | refusals, targets that move, a reset in mid-inflation |
| vmblock (`modules/shared/vmblock`, `vmblock-fuse`) | list of blocks with waiters and reference counts, the count of the root vnode | open, add, remove, purge, close, unmount, lookup and wait | waiters against removal, owner exit, vnode locks |
| file locks (`lib/file/fileLockPrimitive.c`) | entry directories, entry files and member files in a lock directory | lock, scan, wait, unlock: Lamport's bakery over the filesystem | crashes, timeouts, cleaning up after others |
| VMCI (`modules/linux/vmci`), vsock | contexts, queue pairs, doorbells, sockets | attach, detach, notify, connect, shutdown | peers on the other side of the VM boundary |
| HGFS server and client (`lib/hgfsServer`, `modules/linux/vmhgfs`, `vmhgfs-fuse`) | sessions, nodes, searches, requests in flight | every file operation | handle caches, request ids, reconnection |
| drag and drop, copy/paste (`services/plugins/dndcp`) | a transfer state per direction | the DnD v3/v4 message state machines | both ends drive it |
| time sync, power ops, guest info, resolution, desktop events, vix, deployPkg, grabbitmqProxy | each a little | RPC handlers and timers | one process at a time, retries |
| vgauth | certificates, aliases, tickets | request handlers | file updates |
| locks, poll, async sockets, hash map, data map, unicode, string, file, misc, ... (`lib/*`) | library state | library calls | lock ranks, lock-free hash map resizing, callbacks |

The behaviours that are hard to test are listed under `hazards` in
`PROJECT.json`, each at the line where it bites.

### Properties that make each part correct

- **State machine**: one backup at a time; RESET first, DONE last; the phases in
  order; a host that is told before the success path is left; timers that live
  exactly as long as the backup; an I/O signal that is balanced on every path;
  undo scripts for every backup whose freeze scripts ran; nothing left frozen.
- **Providers**: the thread that freezes writes into the backup that started it
  and into no other; the handle has one owner and is thawed before it is freed.
- **Scripts**: reverse order, each script once, only what was frozen is undone,
  failures are reported and do not stop the others.
- **Sync driver**: all or nothing, no leaked descriptor, no mixing of backends.
- **Thread pool**: each task is run or cancelled, destroyed once, never forgotten;
  the shutdown ends and leaves no thread behind.
- **RPC channel**: every request is answered once, a reset loses no handler.
- **vmsync module**: a freeze belongs to one descriptor and is undone once, by whoever
  comes first; nothing stays frozen for ever, even without user space.
- **Balloon**: no page is lost or freed twice, guest and monitor agree on what is
  locked, and the balloon settles at its target.
- **vmblock**: a block is not freed under a sleeper, a sleeper is woken when its block
  is removed, and does not keep anybody from removing it.
- **File locks**: mutual exclusion between processes, no live lock cleaned up, every
  request answered, the lock directory removed.

## 2. Plan

The quiesced snapshot comes first: it is the one place where the daemon's main
loop, its threads, the guest's kernel and the host meet, and where a mistake
stops all writes in the guest.

| Step | Module | Composes | State |
|---|---|---|---|
| 1 | `VmBackup`, abstract `BackupProtocol` | implements `BackupProtocol` | done, proved |
| 2 | `ThreadPool` | - | done, proved |
| 3 | `VmBackupScripts` | refines the script operation of `VmBackup` in prose only | done, proved |
| 4 | `SyncDriver` | - | done, proved |
| 5 | `VmSync`: `modules/linux/vmsync/sync.c` | looks inside the vmsync backend of `SyncDriver`, in prose only | done, proved |
| 6 | `Balloon`: `vmballoon.c`, `backdoor_balloon.c` | - | done, proved |
| 7 | `VmBlock`: `block.c` with its Linux and FreeBSD callers | - | done, proved |
| 8 | `FileLock`: `fileLockPrimitive.c` | - | done, proved |
| 9 | the freeze, the COMMIT and the thaw of `VmBackup` | - | done, proved |
| 10 | `RpcChannel`: `rpcIn.c`, `rpcChannel.c`, the backdoor and vsock channels: restart, fallback and reset, each with a thread that sends | delivers the RPCs of `VmBackup` | planned |
| 11 | a composition of `VmBackup` with `ThreadPool` and `SyncDriver` | their interfaces | planned |

Still worth stating: what the successor of an aborted backup can rely on when a late
task does inherit its state object.

## 3. Modules

| Module | Models | Checked by |
|---|---|---|
| `BackupProtocol` | what the plugin promises to the host | `VmBackup!Protocol` |
| `VmBackup` | `stateMachine.c`, `syncDriverOps.c`, `nullProvider.c`, the order of the shutdown | `MCVmBackup`, `VmBackupProofs` |
| `VmBackupScripts` | `scriptOps.c` | itself, `VmBackupScriptsProofs` |
| `SyncDriver` | `lib/syncDriver` | `MCSyncDriver`, `SyncDriverProofs` |
| `ThreadPool` | `services/vmtoolsd/threadPool.c` | `MCThreadPool`, `ThreadPoolProofs` |
| `VmSync` | `modules/linux/vmsync/sync.c` | `MCVmSync`, `VmSyncProofs` |
| `Balloon` | `modules/shared/vmmemctl/vmballoon.c`, `backdoor_balloon.c` | `MCBalloon`, `BalloonProofs` |
| `VmBlock` | `modules/shared/vmblock/block.c` and its callers on Linux and FreeBSD | itself, `VmBlockProofs` |
| `FileLock` | `lib/file/fileLockPrimitive.c` | `MCFileLock`, `FileLockProofs` |

The MC modules add symmetry sets and constants that a configuration cannot express.

### VmBackup

The variables are the fields of `VmBackupState` with their C names, the sources
attached to the main loop, the daemon's `configCheckTask` (0 while I/O is said to
be frozen), the history of events, and for each backup its pool task, the handle
cell the task allocated and the address of the state object it was given.

Each RPC and timer is an action. A dispatch is cut into steps, by `pc`, only where
another thread can get in between: `QueryStatus` is the first critical section of
`VmBackupAsyncCallback`, `OpPending`, `OpFinished` and `OpFailed` the second,
`ReadyForSnapshot` one turn of its callback loop, `EnableSyncWait` to `ScriptsOver`
the cases of its switch and `Requeue` or `Finalize` its exit label.
`VmBackupOnError` is entered from there ("onError") or from an RPC ("rpcError");
the two differ in who finalizes.

A pool task keeps its pointer for as long as it runs. `Lands(b)` says that the
state object is alive, or that a later backup has got the same address. Otherwise
a write is lost or, `TaskCrashes`, fatal. `HandleReads` is the read of a handle
cell that may have been freed: then either value can be read.

Scripts are one process per operation here ("absent", "running", "ended");
`VmBackupScripts` looks inside. `Freeze` is one step that abstracts `SyncDriver`:
a handle that owns the frozen filesystems, a handle that owns nothing (EBUSY, null
driver), an invalid handle (the mounts could not be listed) or no operation.

`undo` is history: whether the undo scripts of the backup were "started", or the last
attempt to start them "failed". `ScriptsAreUndone` asks at the end of a backup for the
first, or for the second together with an ERROR event. Whether an event reached the VMX
matters to the code for COMMIT only (a lost one is "LOST"); what was sent of the others
stands in `sent` whether it arrived or not.

`BackupProtocol` sees the phase, the events of the backup that is open, and whether the
service is `stopping`. From then on (`Quit`) no phase follows, only what a call under way
still reports, and the backup may be dropped in whatever phase it is (`Stop`); a backup
that is not cut off so ends in IDLE.

### VmBackupScripts

A script file is a number, so that the order of the names is the order of the
numbers; the legacy freeze and thaw scripts are 0 and -1 and share the first entry
of the list. `IsListing` says what the sorted list of the regular files is. `NextUp` and `NextDown` give the results that one call of
`VmBackupRunNextScript` can have: where `currentScript` stops, which processes
there are then, and which scripts did not start. A query is one action with the
release that `VmBackupAsyncCallback` adds to it. `phase` stands for the part of the
state machine that decides which operation comes next. Files can be deleted at any
time.

### SyncDriver

The mount table is a sequence of filesystems, so a bind mount is a repetition.
`pc` walks through `SyncDriver_Freeze`: "linux" is the loop over the paths, "undo"
the exit path of a failed freeze, "vmsync" and "null" the other backends. `frozen`
records who froze each filesystem, other programs included. `stuck` are those for
which FITHAW failed. The vmsync module freezes all its devices or none.

### ThreadPool

`pool` is the GThreadPool, or "NULL" when the configuration asks for no threads and
tasks run in the main loop. `workQueue` is the pool's queue and `tokens` the requests in GLib's. `TakeToken` and
`PopWork` are two steps since GLib calls the worker function without the pool's
lock. `CancelFind` and `CancelFinish` are the two halves of `ToolsCorePoolCancel`.
The ids wrap around at `UINT_MAX`, which the runs set to 2. A destroyed task keeps
its place in the model, so that a second owner of it can be seen.

### VmSync

A descriptor has a `VmSyncState` with its list of devices and its work item
(`thawTask`: idle, timer, queued; it is idle again once it runs). `call` says what each
thread is doing; `Keventd` is the kernel thread that runs work items. The mutexes are
not variables: whether they are held follows from where the threads are. `bdFreeze` is
the kernel's own freeze count of a device, which another subsystem may raise, too. A
path stands for the device under it, so a bind mount names a device twice, and
`NoDevice` for a path that has none. `ReleaseUnprivileged` is the release that finds no
capability, does nothing and leaves the state to the timer. SYNC_IOC_QUERY changes
nothing and is left out.

### Balloon

Pages are counted. `chunks` has the number of entries of each chunk, so that full
chunks, emptied ones and the fallback chunk are there; `reserved` is what the driver has
from the guest and `locked` what the monitor believes, independently of what the driver
writes down. `loop` holds the local variables of `BalloonInflate` and
`BalloonDeflateInt`. The rates only decide when a poll stops, and are never zero: here a
loop may stop after any page. After `CalmsDown` the monitor refuses nothing, wants one
target, and there is memory. `drift` remembers what `BalloonPageFree` forgets, which
subtracts one for a large page: see the disagreements.

`halfStarted` remembers a reset whose batch page could not be allocated and whose second
START, the one without capabilities, failed: the code ignores that. The monitor then has
the capabilities of the first START, and the driver the operations of an earlier one or
none, no batch page, and the batch size of batched operation. It may go on until
the next reset. `AddPageIsSafe` says when `addPage` can be called; if it is called
otherwise (`AddPageFails`) the model stops: the driver calls or writes through a null
pointer, or stops at an assertion. A build without assertions would, in the last case,
lose a page instead. With the basic operations of an earlier start the driver works on, a
page at a time, and may find a page still locked that a reset of its own has freed
(`LockOne`); so `MonitorAgrees` says then that the monitor has locked no less than the
driver's pages.

Of the monitor is assumed that it offers 2M pages only with batches and batches only
with the basic commands, that before START, and after a START that offered nothing, it
asks for a reset, and that it answers for a single page one of the codes the driver
has a case for.

### VmBlock

One list for two systems, `os`. `control` is what is done with each descriptor: an
ioctl, the close, and for the unmounter the unmount; `RemoveBlocks` is cut where
lookups can drop references without the list's lock, and where the list is unlocked and
the count of the FreeBSD root vnode not yet changed. `lookup` walks through root and
directory locks on FreeBSD, as `VMBlockVopLookup` releases and takes again its
directory around the sleep. The Solaris variant (where the blocker is a thread) and
the FUSE variant are not modelled. After a forced unmount the model's close goes on; the
real one may crash, see `VmBlockClose.cfg`.

### FileLock

The variables `D`, `E` and `M` are the entry directories, entry files and member files
of the lock directory, by their number, and `dir` is the directory itself. Every call
of the file system is one step. `list` is the list of entry directories that a scanner
has seen with their age; `Unlinked` and `Kept` are what becomes of it, with entries that
stay on it because the one before was removed. `Stalls` lets a live locker take longer
than FILELOCK_PROGRESS_DEARTH between two steps of its entry, `Collisions` lets a
number be picked again while somebody's scan remembers it (one of 65536 at random), and
a locker die, or the member be removed, before it finds that its number is taken.
`Collisions` is FALSE in the runs, `Stalls` TRUE in `filelock` and FALSE in
`filelock_three`; the configurations of section 4 show why they matter. A
directory is read in one step, execution IDs are not reused, all that has one number
is discarded in one step, and no file in the directory is foreign or corrupt.

## 4. Runs

Runs that pass:

| Run | Properties | Shows |
|---|---|---|
| `vmbackup_one` | SourcesFollowBackup, IoFollowsState, CommitPrecedesThaw, ThawedOnSuccess, QuietAfterStop, BackupEnds | one backup, all interleavings; the timeout ends it whatever the kernel and the host do |
| `vmbackup_two` | TypeOK, ControlInv, ScriptsAreUndone, Protocol | a second backup, with the first one's thread still around |
| `pool_threads` | TasksInv, RunOrCancelled | two workers or none, cancellation by the main loop and the workers |
| `pool_push_errors` | EveryTaskHasToken, ShutdownInv, TasksEnd, ShutdownEnds | failed pushes, standalone threads, shutdown; tasks and shutdown end |
| `scripts` | ScriptsInv, FinishedIsComplete, OperationEnds | every list with up to three entries and the legacy pair; every operation ends |
| `syncdriver` | NothingOrphaned, DescriptorsBalance, FallbackIsClean, ThawReportsFailure | every mount table with up to four mounts |
| `vmsync` | FreezeInv, ThawIsPending, StateOutlivesWork, FrozenIsThawed | two descriptors, two threads and the work queue: no freeze is lost or undone twice, and what is frozen is thawed without the help of user space |
| `vmblock` | BlockListInv, ReferencesBalance, UseCountFollowsBlocks, WaitersWake, RootIsReleased | two blockers and two lookups, close, purge, signals, forced unmount: nothing freed under a sleeper or leaked, sleepers wake and hold nobody up |
| `balloon` | BalloonInv, MonitorAgrees, TargetIsHeld | all three modes, refused pages, failed commands, a failed second START, resets at every command: no page lost, guest and monitor agree, the target is met and held |
| `filelock` | DirectoryInv, RequestsEnd | a privileged and an unprivileged locker, shared and exclusive, a crash, stalls: every request is answered, the directory goes away |
| `filelock_three` | MutualExclusion, MemberStays, HolderIsFirst | three exclusive lockers, timeouts, a crash and a failing read |

`TasksInv`, `ShutdownInv`, `ScriptsInv`, `FreezeInv`, `BlockListInv`, `BalloonInv` and
`DirectoryInv` are conjunctions of named invariants, the type invariant among them.
`OperationsAreReady` of `BalloonInv` says that the driver inflates and deflates only with
operations that are ready; after a failed second START, which is exempt, that what it locks
and unlocks is one small page. A crash is exempt from it, see `BalloonFallback.cfg`.
`StateOutlivesWork` is about descriptors that are frozen once, as `lib/syncDriver` does it;
`VmSyncRace.cfg` shows the others. `TargetIsHeld` excludes balloons that a reset with
large pages has miscounted. `MutualExclusion` excludes the implicit read locks of lockers
that may not write into the directory, and `RequestsEnd` members that nobody can remove:
those of a request that failed in its scan, and of a process that died on another machine.
That a holder releases its lock is an assumption of `RequestsEnd`, not a result. With
`Collisions` it fails: two lockers wait for each other when the number that one waits for
is picked again by the other.

`CommitPrecedesThaw` and `ThawedOnSuccess` are checked with one backup only, and proved for
more on a condition, see section 5. Without it they do not hold with two: the thread of an aborted backup can land in its successor.
That is the same defect that `VmBackupReplaced.cfg` and `VmBackupLateCommit.cfg` show
with less. Likewise `OneOwner` and `RunOrCancelled` assume that GLib can create its
threads and, without workers, that only the main thread cancels; `PoolFallback.cfg` and
`PoolCancelRace.cfg` show what happens otherwise. `FinishedIsComplete` says nothing
about errors that are reported without a cause, see `ScriptsAsserts.cfg`.

Every property has at least one mutant of the model, a plausible slip in the code,
that breaks it, and the conjunctions one for each of their parts. `PROJECT.json` lists
them.

One run finds a disagreement between the code and what it says about itself, the
one with the worst consequences; it is the finding of `PROJECT.json`:

| Run | Property | The repository says | The code does |
|---|---|---|---|
| `vmbackup_frozen` | NothingLeftFrozen | an abort tells the sync provider to abort | nothing thaws after an abort |

### Other disagreements

These have a configuration of their own but are not among the project's runs, which
are kept few. TLC finds every one of them violated (with `-continue` where one
configuration states several).

| Configuration | Module | Property | The repository says | The code does |
|---|---|---|---|---|
| `VmBackupReplaced.cfg` | MCVmBackup | NoOpReplaced | `ASSERT(state->currentOp == NULL)` | the freeze thread overwrites the freezeFail operation |
| `VmBackupHung.cfg` | MCVmBackup | BackupEnds | the timeout aborts any ongoing operation | not in the error states |
| `VmBackupLateCommit.cfg` | MCVmBackup | NoCommitAfterAbort | an abort stops the backup process | COMMIT is sent after ABORT |
| `VmBackupSyncError.cfg` | MCVmBackup | SyncErrorWaitsForProvider | SYNC_ERROR lasts until the provider is finished | until the next poll |
| `VmBackupUnqueried.cfg` | MCVmBackup | ReleasedOpWasQueried | an unfinished operation is not released | the second critical section releases an operation it never queried |
| `VmBackupScriptError.cfg` | MCVmBackup | ErrorHandledInScriptError | SCRIPT_ERROR goes to IDLE on an error | `g_error` |
| `PoolNullWork.cfg` | MCThreadPool | WorkIsNotNull | `ASSERT(work != NULL)` | a cancelled task leaves its request behind |
| `PoolFallback.cfg` | MCThreadPool | RunningIsOffQueue | a task being executed is off the queue | not after a failed push |
| `PoolCancelRace.cfg` | MCThreadPool | CancelledIsNotRun | a cancelled task is not run | the source is removed too late |
| `PoolUnjoined.cfg` | MCThreadPool | ThreadsAreCleanedUp | standalone threads are cleaned up at shutdown | not one that has just ended |
| `ScriptsAsserts.cfg` | VmBackupScripts | CancelHasProcess | `ASSERT(currScript->proc != NULL)` | there may be none |
| `ScriptsAsserts.cfg` | VmBackupScripts | DirectoriesAreIgnored | directories are not considered | a list without files is dereferenced |
| `ScriptsAsserts.cfg` | VmBackupScripts | NewOpReturns | NULL on failure | `-1` is compared as an unsigned number |
| `ScriptsAsserts.cfg` | VmBackupScripts | ErrorHasCause | an error means that scripts did not start | a successful thaw is an error if a file is gone |
| `SyncDriverListFails.cfg` | MCSyncDriver | FreezeReportsFailure | FALSE on failure | `SD_ERROR`, which is TRUE |
| `SyncDriverBusy.cfg` | MCSyncDriver | FrozenUntilThawed | the drives are frozen | not one that somebody else had frozen |
| `SyncDriverFirst.cfg` | MCSyncDriver | FirstFailureFallsBack | any first failure falls back | only ENOTTY |
| `VmSyncRace.cfg` | MCVmSync | StateOutlivesAnyWork | the release waits for the work item (`sync.c`, `flush_scheduled_work`) | not if it could cancel a timer while an earlier instance of the item is still running |
| `VmSyncPaths.cfg` | MCVmSync | PathsAreReleased | the reference on a path is kept "until the device is actually frozen" | a failed call keeps it for ever |
| `VmBlockClose.cfg` | VmBlock | CloseHasMount | `v_mount` may be invalid after a forced unmount, so the ioctl checks it | the close does not |
| `BalloonReset.cfg` | MCBalloon | ResetEmpties | "Resets balloon "b" to empty state" (`vmballoon.c:356`) | `nPages` is decremented once for each large page |
| `BalloonFallback.cfg` | MCBalloon | FallbackIsThere | `ASSERT(b->fallbackChunk != NULL)` (`vmballoon.c:626`) | there is none if the page that stays locked did not empty its chunk and the first chunk is full |
| `BalloonStart.cfg` | MCBalloon | NullStartIsHeeded | the monitor is informed "by sending a null capability" (`vmballoon.c:384`) | if that START fails the driver goes on with no operations, or without a batch page |
| `FileLockCollision.cfg` | MCFileLock | MemberStays | "don't want to trash perfectly good member files" (`fileLockPrimitive.c:1354`) | a scanner that remembers an old entry directory discards the member file of its new owner |
| `FileLockStall.cfg` | MCFileLock | MutualExclusion | the lock excludes | a locker that stalls between the rename and the removal of its entry directory loses its member file and goes on without one |
| `FileLockLeft.cfg` | MCFileLock | NothingIsLeft | a request that fails removes its member file (the switch at `fileLockPrimitive.c:1753`) | only after EAGAIN |

### Bounds

`MaxBackups` is 1 or 2: a stale thread needs one earlier backup to come from, and a
third backup adds nothing that the second has not. Two addresses distinguish reuse
from a dangling pointer. The pool runs use two workers and up to four tasks, so
that a token can be taken by another worker than the one it was pushed for, a
queue holds two tasks with the same wrapped id, and a task waits behind another. Three
scripts and the legacy pair have a first, a middle and a last one. Four mounts over
two freezable, one unreadable and one unsupported filesystem allow a bind mount
before and after a failure, and two calls a second freeze after a stuck thaw.

`VmSync` has two descriptors, devices and threads and two freezes in all: two owners of
one device, a thaw between a freeze and its work item, a release during both. Its path
lists include a bind mount and a path without a device. `VmBlock` has two names,
descriptors, lookups and blocks: the same file blocked by both, one descriptor with two
blocks, two sleepers on one block and a block that is reused. In `Balloon` a large page
is two small ones, a chunk has four entries, a batch three, and the targets are 0, 3 and
6: a batch that spills over a chunk, a target that large pages cannot meet, a balloon
with both sizes. `FileLock` has two lockers with all lock types and waiting times, and
three with exclusive locks only, where two agree on a number while the third scans; an
entry is discarded after one scan without progress, and one crash and one failing read
come at any step, but for the crash in the window that `Collisions` opens.

Deadlock is not checked: the daemon may stop, and the bounds end each behaviour.

### Fairness

`VmBackup!MainLoopFairness`: GLib dispatches sources of one priority that are ready
in the same iteration, so the poll timer and the abort timer are not passed over for
ever. Strong fairness for the abort timer, because between two dispatches the main
loop is inside other handlers. Nothing is assumed of pool threads, since FIFREEZE may
not return, nor of the host. `FairSpec` adds that the custom scripts end, and
`VmBackupHung.cfg` shows that this is needed. `ThreadPool!Fairness`: callbacks return,
standalone threads only after they were interrupted, as the API demands of them.
`VmBackupScripts!FairSpec`: the poll timer keeps asking, and the scripts end.

`VmSync!Fairness`: threads in the kernel run on, timers expire and work items are run, and
a mutex is given to its waiters in turn, so that ioctls on one descriptor do not hold up the
work items of all (strong fairness: without it TLC finds them doing so);
nothing is assumed of user space, which may never thaw or close. `VmBlock!Fairness`: the
same for threads in the kernel, strong for those that wait for a vnode lock or for the
list's lock, which are granted in turn; users need never remove a block or send a signal.
`Balloon!FairSpec`: the driver is polled every second and its calls return.
`FileLock!FairSpec`: a live locker goes on and releases its lock some time, and a random
number that is free is picked in the end.

## 5. Proofs

`VmBackupProofs`, for any number of backups and any set of addresses (assuming
`Addrs # {}`, `NULL \notin Addrs` and `MaxBackups \in Nat \ {0}`):

- `TypeCorrect`: `Spec => []TypeOK`.
- `ControlInvariant`: `Spec => []ControlInv`. The properties that speak of the main
  loop at rest are not inductive, as the handlers pass through states that violate
  them. `ControlInv` says what holds in the middle of a handler. `SourcesInv`: the
  poll timer is detached from the start of `VmBackupAsyncCallback` to its exit label,
  and IDLE is only seen on the way to `VmBackupFinalize`. `IoInv`: the I/O signal may
  run ahead of the state only on the way into `VmBackupOnError`. `ToldInv`: there is
  no way into an error state without an event. `PoolInv` and `UndoneInv`: what the
  shutdown and the end of a backup rest on. One lemma per conjunct; the steps of the
  pool threads are dealt with once, in `TaskFrame` and `TaskPool`.
- `SourcesTheorem`, `IoTheorem` and `QuietTheorem` follow from it.
- `ProtocolTheorem`: `Spec => Protocol`. Each action maps to a step of
  `BackupProtocol` or to a stutter; `ToldInv` and `UndoneInv` provide the guards.
- `ScriptsTheorem`: `Spec => ScriptsAreUndone`. `UndoneInv` says that the undo
  scripts of a backup in SCRIPT_THAW or SCRIPT_ERROR were started, and those of one that has
  come back to IDLE were, or the last attempt failed and ERROR was sent.
- `CommitTheorem` and `ThawedTheorem`: `Spec /\ []NoneInherited` implies
  `[]CommitPrecedesThaw` and `[]ThawedOnSuccess`. `NoneInherited` says that no pool task
  that is still running was given an address that now belongs to a later backup, which the
  code does not ensure. As far as these two go, stale tasks do no harm
  until an address is reused. `TaskInv` relates each task to its backup (what is frozen was
  frozen by a driver task, the handle in `clientData` is the backup's own); `CommitInv` says
  that the ready callback is only there once the task is over, and that `freezeStatus` is
  FINISHED in SYNC_FREEZE_WAIT only after a delivered COMMIT.
- `OneBackupTheorem`: both, for `MaxBackups = 1`, without the condition, as TLC checks them.

`SyncDriverProofs`, for any filesystems, mount tables and number of calls (assuming
that the denied and the unsupported filesystems are filesystems and the bounds are
naturals):

- `DriverTypeCorrect` and `DriverInvariant`, proved together. `NothingOrphaned` is not
  inductive: the steps that give descriptors up are safe only because LinuxFiThaw has
  been through all of them, which is what `ThawInv` remembers (each descriptor below
  the index is thawed or stuck, and in a thaw a stuck one has left its error). `HandleInv`
  ties the handle and the descriptors to the point the call has reached; `first` is
  still TRUE only if nothing was frozen, which is why the fallback is clean.
- `OrphanTheorem`, `DescriptorTheorem`, `FallbackTheorem` and `ThawTheorem` follow.

`VmBackupScriptsProofs`, for any number of scripts (assuming `MaxEntries \in Nat`):

- `IndexIsCorrect`: `IndexInv`, the inductive invariant, is about `currentScript`, which
  the freeze leaves to the undo. `BelowInv`: a script below the index was frozen, or is the
  legacy pair, or is not a file any more, and a file that is gone does not come back.
  `FrozenInv`: until the undo begins, what was frozen is below the index. `UndoInv`: above
  it is what the undo has started, what did not start, and what is gone, and it stands
  on a script that was started, or at the end. `ListInv`: no process is left below the
  index, which is why the test "all thaw/fail scripts failed to start" misses no failure.
- `ScriptsAreCorrect` (`ScriptsInv`) and `FinishedTheorem` (`FinishedIsComplete`, an action
  property) follow.

`ThreadPoolProofs`, for any workers, standalone threads and number of tasks and any
`UINT_MAX` (assuming that the threads are distinct and the workers finitely many):

- `TasksHaveTokens` and `ShutdownIsComplete`, whatever is cancelled and whichever pushes
  fail. The invariant `PoolInv` says where the main thread and the thread inside
  `ToolsCorePoolCancel` can be (`Stages`), that a task that is not destroyed is with
  somebody (`TasksAreKept`), and how the ids of the last `UINT_MAX` tasks follow from
  `nextWorkId` (`NumbersInv`). Cardinalities relate queue, requests and idle workers.
- `TasksAreCorrect` (`TasksInv`) and `TasksRunOrAreCancelled` (`RunOrCancelled`) assume
  `Sheltered`: no push fails and standalone threads do not cancel. `PoolFallback.cfg` and
  `PoolCancelRace.cfg` show that they are false otherwise. `OwnersInv` adds to `PoolInv`
  that no task is in two of the places queue, worker, dispatch and cancel.

`VmSyncProofs`, for any descriptors, devices, threads and lists of paths (assuming
finitely many descriptors, `NoDevice \notin Devices`, `Keventd \notin Threads` and
`Shared \subseteq Devices`):

- `FreezesAreCorrect` (`FreezeInv`), `ThawStaysPending` (`ThawIsPending`) and
  `StatesOutliveWork` (`StateOutlivesWork`), from one invariant, `SyncInv`. It adds what
  `gFreezeLock` protects (`FreezersExclude`, `PathsAreFree`: the devices that a call has
  accepted are frozen by no other descriptor), who can be at work on a descriptor that is
  being released (`StatesInUse`, `ReleaseIsLast`), and that a work item scheduled once is
  pending, running or done, so that the release has waited for it (`WorkOnce`,
  `ReleaseWaits`). The kernel's count is a cardinality, so each step is a lemma on how the
  set of those who have frozen a device changes.

`VmBlockProofs`, for any descriptors, lookups and blocks (assuming they are finitely many
and distinct from `Nobody` and `Unmounter`), on both systems:

- `BlocksAreCorrect`, from which `BlockListIsCorrect`, `ReferencesAreBalanced` and
  `UseCountIsCorrect` follow. `BlockInv` adds what the locks give: one call at a time
  writes the list and one at a time has the root vnode (`LocksExclude`), what a call has
  yet to remove is still on the list (`TodoIsListed`), and a close or an unmount
  that is under way leaves no block but those it is about to remove (`LeftToRemove`).

`BalloonProofs`, for any sizes of chunks, batches and large pages, any targets and any
memory (assuming `BatchEntries < ChunkEntries`, a large page of at least two small ones,
and room for an error page):

- `BooksAreCorrect`, from which `BalloonIsCorrect` and `MonitorIsInStep` follow. `BooksInv`
  adds `LoopInv` (the batch is never full when a page is added to it, the chunk that the
  deflation works on is on its list, large pages only with batches) and `StartInv` (a reset
  is due only when the monitor has forgotten the balloon, the operations are those that
  START negotiated, unless its second START failed, and there are no large chunks without batches).
  Where the batched operations are not in use `LoopInv` allows one small page, also after a
  failed second START. The entries of a chunk
  list are the cardinality of a set of slots: a sum over a sequence would need induction.

`FileLockProofs`, for any lockers, finitely many numbers, any number of requests, crashes
and faults:

- `TypeCorrect` and `DirectoryIsCorrect` (`DirectoryInv`), in every case.
- `MembersStay`, `HoldersAreFirst` and `LocksExclude` (`MutualExclusion`), assuming
  `~Stalls` and `~Collisions`, without which `FileLockStall.cfg` and
  `FileLockCollision.cfg` refute them. `LockInv` has two halves. The first says whose
  number is whose: who is choosing owns the entry directory of its number and from the
  check of the member file on nobody else has the number (`ChooserOwns`, `EntryIsOwned`),
  what ages in a scanner's list is nobody's (`DeadEntries`, `ListEntries`), and what is
  removed as stale is a dead locker's (`StaleMembers`). The second is the bakery's:
  the members that come before a scanner's own are those it has yet to look at
  (`LeftIsBefore`), and who chooses while it scans has chosen no lower number, or has
  yet to read its member file (`ChoosesHigher`).

Only model-checked: the liveness properties (fairness and ENABLED are beyond the
prover) and the violations.

## 6. Not modelled

- The Windows and Mac branches of the modelled files.
- Path strings, the mount table's syntax, the text of events, log output.
- Memory exhaustion where the code aborts on it (`g_malloc`, `Util_Safe*`).
- The data race of `VmBackup_SendEvent` on `keepAlive` between the null provider's
  thread and the main loop: an event is one step here.
- Failures of `sync()`, and the time a freeze may take in the guest's kernel, beyond
  that it may never end.
- Standalone threads without an interrupt function (`threadPool.c:563`): the shutdown then
  waits for them until they end by themselves. One thread at a time is inside
  `ToolsCorePoolCancel`.
- In vmsync: a `freeze_bdev` that fails or returns a superblock that is not frozen
  (`sync.c:165`), and descriptors opened without privilege (`sync.c:528`), which own no
  state and can do nothing.
- In vmblock: the short references to the root vnode that a lookup takes
  (`vfsops.c:370`), and the time between the decrement of the count and the close of the
  file (`vnops.c:390-395`), which are one step.
- In the file lock: what a failing request or an aging scan discards of one number is
  gone in one step (`fileLockPrimitive.c:918-925`, `1738-1743`).
- Loading and unloading of the kernel modules; the redirection of file operations in
  vmblock; the rates of the balloon; mandatory locks, `FileLock_IsLocked` and the old
  device locks in `lib/file`.
- The RPC channel: the next module of the plan. Its handlers appear in `VmBackup` as
  actions that the host may take at any time between two dispatches.
- HGFS, VMCI and vsock, drag and drop: protocols with a peer outside the repository,
  of which the source shows one side only; each would be a project of its own.
- The components listed as `not_modelled` in `PROJECT.json`, each with its reason.

## 7. Running the checks

    tlc -workers 2 -config VmBackupTwo.cfg MCVmBackup
    tlapm VmBackupProofs.tla
    tlapm FileLockProofs.tla

`PROJECT.json` names the module and the configuration of every run.
