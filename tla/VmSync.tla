------------------------------- MODULE VmSync -------------------------------
(***************************************************************************)
(* The vmsync kernel module, modules/linux/vmsync/sync.c: the freezer that *)
(* lib/syncDriver falls back to.  Each open descriptor has a VmSyncState   *)
(* with a list of frozen devices, a mutex and a delayed work item that     *)
(* thaws what nobody has thawed after 30 seconds.  Ioctls, the last close  *)
(* and the work item run concurrently.                                     *)
(*                                                                         *)
(* A path is the block device under it, or NoDevice.  The mutexes are not  *)
(* variables: a thread is between lock and unlock exactly while its pc is  *)
(* one of those in InLock.                                                 *)
(***************************************************************************)
EXTENDS Integers, Sequences, SequencesExt, FiniteSets

CONSTANTS Files,        \* open descriptors, each with its VmSyncState
          Devices,      \* block devices
          NoDevice,     \* a path that is not on a block device
          Shared,       \* devices that another subsystem freezes and thaws, too
          Threads,      \* user threads, in an ioctl or in the last close
          Keventd,      \* the kernel thread that runs work items
          PathLists,    \* the lists of paths that SYNC_IOC_FREEZE is called with
          MaxFreezes    \* bound: SYNC_IOC_FREEZE calls in a behaviour

ASSUME VmSyncAssumption ==
  /\ NoDevice \notin Devices
  /\ Shared \subseteq Devices
  /\ Keventd \notin Threads
  /\ IsFiniteSet(Files)
  /\ PathLists \subseteq Seq(Devices \cup {NoDevice})
  /\ MaxFreezes \in Nat

VARIABLES state,        \* the VmSyncState of a descriptor: "none", "open", "leaked", "freed"
          capable,      \* descriptors whose holder has CAP_SYS_ADMIN
          freezes,      \* SYNC_IOC_FREEZE calls made on a descriptor
          devices,      \* state->devices: sequence of [bdev, sb]
          thawTask,     \* state->thawTask: "idle", "timer", "queued"
          gFreezeCount, \* the module's count of frozen devices
          pathRefs,     \* devices whose paths are still referenced by a failed call
          bdFreeze,     \* the kernel's freeze count of a device
          others,       \* devices that another subsystem has frozen
          call          \* what each thread is doing

stateVars == <<state, capable, freezes>>
kernelVars == <<bdFreeze, others>>
vars == <<stateVars, devices, thawTask, gFreezeCount, pathRefs, kernelVars, call>>

Tasks == Threads \cup {Keventd}
Paths == Devices \cup {NoDevice}
Entry == [bdev : Devices, sb : BOOLEAN]

\* A thread outside the module.
Idle == [pc |-> "idle"]

\* A thread in VmSyncFreezeDevices, and one in VmSyncThawDevices or VmSyncRelease.
FreezeCall == [pc : {"add", "freeze", "schedule"}, file : Files, todo : Seq(Paths),
               pathList : Seq(Devices), result : {"0", "EALREADY", "ENOMEM", "ENOENT"}]
ThawCall == [pc : {"flush", "lock", "thaw"}, file : Files, release : BOOLEAN]

TypeOK ==
  /\ state \in [Files -> {"none", "open", "leaked", "freed"}]
  /\ capable \subseteq Files
  /\ freezes \in [Files -> Nat]
  /\ devices \in [Files -> Seq(Entry)]
  /\ thawTask \in [Files -> {"idle", "timer", "queued"}]
  /\ gFreezeCount \in Nat
  /\ pathRefs \subseteq Devices
  /\ bdFreeze \in [Devices -> Nat]
  /\ others \subseteq Shared
  /\ call \in [Tasks -> {Idle} \cup FreezeCall \cup ThawCall]

Init ==
  /\ state = [f \in Files |-> "none"]
  /\ capable = Files
  /\ freezes = [f \in Files |-> 0]
  /\ devices = [f \in Files |-> <<>>]
  /\ thawTask = [f \in Files |-> "idle"]
  /\ gFreezeCount = 0
  /\ pathRefs = {}
  /\ bdFreeze = [d \in Devices |-> 0]
  /\ others = {}
  /\ call = [t \in Tasks |-> Idle]

(***************************************************************************)
(* Locks.  gFreezeLock is held from "add" to the end of "freeze", the      *)
(* mutex of a state there and in "thaw".                                   *)
(***************************************************************************)
At(t, label) == call[t].pc = label
On(t, f) == ~At(t, "idle") /\ call[t].file = f
NoFreezeLock == FALSE           \* mutant: gFreezeLock is not taken
InFreezeLock == \E t \in Tasks : At(t, "add") \/ At(t, "freeze")
InLock(f) == \E t \in Tasks : On(t, f) /\ (At(t, "add") \/ At(t, "freeze") \/ At(t, "thaw"))

\* The last close comes when no thread is in an ioctl, and no ioctl comes after it.
InUse(f) == \E t \in Threads : On(t, f)
Releasing(f) == \E t \in Threads : On(t, f) /\ "release" \in DOMAIN call[t] /\ call[t].release
MayCall(t, f) == At(t, "idle") /\ state[f] = "open" /\ f \in capable /\ ~Releasing(f)

(***************************************************************************)
(* The file operations open and ioctl(SYNC_IOC_FREEZE).                    *)
(***************************************************************************)
Open(f) ==
  /\ state[f] = "none"
  /\ state' = [state EXCEPT ![f] = "open"]
  /\ UNCHANGED <<capable, freezes, devices, thawTask, gFreezeCount, pathRefs, kernelVars, call>>

\* VmSyncFreezeDevices up to the point where both mutexes are held.
FreezeDevices(t, f, paths) ==
  /\ MayCall(t, f) /\ ~InFreezeLock /\ ~InLock(f)
  /\ FoldSet(LAMBDA g, n : n + freezes[g], 0, Files) < MaxFreezes
  /\ freezes' = [freezes EXCEPT ![f] = @ + 1]
  /\ call' = [call EXCEPT ![t] = [pc |-> "add", file |-> f, todo |-> paths, pathList |-> <<>>,
                                  result |-> "0"]]
  /\ UNCHANGED <<state, capable, devices, thawTask, gFreezeCount, pathRefs, kernelVars>>

\* The search of VmSyncAddPath for a device that this descriptor already has.
Listed(f, d) == \E i \in DOMAIN devices[f] : devices[f][i].bdev = d

\* What VmSyncAddPath can answer for a path.
AddPathResults(f, p) ==
  {"ENOENT"} \cup
  (IF p = NoDevice THEN {"EINVAL"}
   ELSE IF bdFreeze[p] > 0 THEN {"EALREADY"}
   ELSE IF Listed(f, p) THEN {"listed"} ELSE {"0", "ENOMEM"})

\* One turn of the loop over the paths.  EINVAL is ignored, other errors end the loop.
AfterPath(c, p, r) ==
  IF r \in {"EINVAL", "listed", "0"}
  THEN [c EXCEPT !.todo = Tail(@), !.pathList = IF r = "0" THEN Append(@, p) ELSE @]
  ELSE [c EXCEPT !.todo = <<>>, !.result = r]

AddPath(t) ==
  /\ At(t, "add") /\ call[t].todo # <<>>
  /\ LET p == Head(call[t].todo) IN
     \E r \in AddPathResults(call[t].file, p) :
       call' = [call EXCEPT ![t] = AfterPath(call[t], p, r)]
  /\ UNCHANGED <<stateVars, devices, thawTask, gFreezeCount, pathRefs, kernelVars>>

\* The second loop.  freeze_bdev returns the superblock, or NULL if there is none to freeze.
FreezeNext(t) ==
  /\ (At(t, "add") /\ call[t].todo = <<>>) \/ At(t, "freeze")
  /\ call[t].pathList # <<>> /\ call[t].result = "0"
  /\ LET d == Head(call[t].pathList) IN
     \E sb \in BOOLEAN :
       /\ bdFreeze' = IF sb THEN [bdFreeze EXCEPT ![d] = @ + 1] ELSE bdFreeze
       /\ gFreezeCount' = IF sb THEN gFreezeCount + 1 ELSE gFreezeCount
       /\ devices' = [devices EXCEPT ![call[t].file] = Append(@, [bdev |-> d, sb |-> sb])]
  /\ call' = [call EXCEPT ![t].pc = "freeze", ![t].pathList = Tail(@)]
  /\ UNCHANGED <<stateVars, thawTask, pathRefs, others>>

\* Its other branch: the entries of a failed call are freed, the references that their
\* nameidata hold on the paths are not given back.
DropPaths(t) ==
  /\ At(t, "add") /\ call[t].todo = <<>> /\ call[t].result # "0"
  /\ pathRefs' = pathRefs \cup ToSet(call[t].pathList)
  /\ call' = [call EXCEPT ![t] = Idle]
  /\ UNCHANGED <<stateVars, devices, thawTask, gFreezeCount, kernelVars>>

\* Both mutexes are released before the work item is scheduled.
FreezeUnlock(t) ==
  /\ (At(t, "add") /\ call[t].todo = <<>>) \/ At(t, "freeze")
  /\ call[t].pathList = <<>> /\ call[t].result = "0"
  /\ call' = [call EXCEPT ![t].pc = "schedule"]
  /\ UNCHANGED <<stateVars, devices, thawTask, gFreezeCount, pathRefs, kernelVars>>

\* schedule_delayed_work does nothing if the item is pending.
ArmedOnce(f) == IF freezes[f] = 1 THEN "timer" ELSE thawTask[f]   \* mutant: only the first time
Armed(f) == IF thawTask[f] = "idle" THEN "timer" ELSE thawTask[f]

Schedule(t) ==
  /\ At(t, "schedule")
  /\ thawTask' = [thawTask EXCEPT ![call[t].file] = Armed(call[t].file)]
  /\ call' = [call EXCEPT ![t] = Idle]
  /\ UNCHANGED <<stateVars, devices, gFreezeCount, pathRefs, kernelVars>>

(***************************************************************************)
(* VmSyncThawDevices, from SYNC_IOC_THAW, the work item and the release.   *)
(***************************************************************************)
\* cancel_delayed_work stops a timer, not an item that is queued or running.
Cancelled(f) == IF thawTask[f] = "timer" THEN "idle" ELSE thawTask[f]

ThawDevices(f, label, release) == [pc |-> label, file |-> f, release |-> release]

ThawIoctl(t, f) ==
  /\ MayCall(t, f)
  /\ call' = [call EXCEPT ![t] = ThawDevices(f, "lock", FALSE)]
  /\ UNCHANGED <<stateVars, devices, thawTask, gFreezeCount, pathRefs, kernelVars>>

ThawLock(t) ==
  /\ At(t, "lock") /\ ~InLock(call[t].file)
  /\ thawTask' = [thawTask EXCEPT ![call[t].file] = Cancelled(call[t].file)]
  /\ call' = [call EXCEPT ![t].pc = "thaw"]
  /\ UNCHANGED <<stateVars, devices, gFreezeCount, pathRefs, kernelVars>>

\* The test before thaw_bdev: something was frozen and still is.
AnyEntry(e) == TRUE                                \* mutant: no test
LastFreeze(e) == e.sb /\ bdFreeze[e.bdev] = 1   \* mutant: counts as one
StillFrozen(e) == e.sb /\ bdFreeze[e.bdev] > 0

ThawNext(t) ==
  /\ At(t, "thaw") /\ devices[call[t].file] # <<>>
  /\ LET e == Head(devices[call[t].file]) IN
     /\ bdFreeze' = IF StillFrozen(e) THEN [bdFreeze EXCEPT ![e.bdev] = @ - 1] ELSE bdFreeze
     /\ gFreezeCount' = IF StillFrozen(e) THEN gFreezeCount - 1 ELSE gFreezeCount
  /\ devices' = [devices EXCEPT ![call[t].file] = Tail(@)]
  /\ UNCHANGED <<stateVars, thawTask, pathRefs, others, call>>

\* The release goes on to free the state.
ThawUnlock(t) ==
  /\ At(t, "thaw") /\ devices[call[t].file] = <<>>
  /\ state' = IF call[t].release THEN [state EXCEPT ![call[t].file] = "freed"] ELSE state
  /\ call' = [call EXCEPT ![t] = Idle]
  /\ UNCHANGED <<capable, freezes, devices, thawTask, gFreezeCount, pathRefs, kernelVars>>

(***************************************************************************)
(* The work item.  It is no longer pending once it runs.                   *)
(***************************************************************************)
TimerExpires(f) ==
  /\ thawTask[f] = "timer"
  /\ thawTask' = [thawTask EXCEPT ![f] = "queued"]
  /\ UNCHANGED <<stateVars, devices, gFreezeCount, pathRefs, kernelVars, call>>

ThawDevicesCallback(f) ==
  /\ At(Keventd, "idle") /\ thawTask[f] = "queued"
  /\ thawTask' = [thawTask EXCEPT ![f] = "idle"]
  /\ call' = [call EXCEPT ![Keventd] = ThawDevices(f, "lock", FALSE)]
  /\ UNCHANGED <<stateVars, devices, gFreezeCount, pathRefs, kernelVars>>

(***************************************************************************)
(* VmSyncRelease, at the last close.  Without the capability it does       *)
(* nothing and the state stays behind.                                     *)
(***************************************************************************)
\* Where the release goes on: it need not wait for an item that it could cancel.
NeverWaits(f) == "lock"         \* mutant: no flush_scheduled_work
AfterCancel(f) == IF thawTask[f] = "timer" THEN "lock" ELSE "flush"

Release(t, f) ==
  /\ MayCall(t, f) /\ ~InUse(f)
  /\ thawTask' = [thawTask EXCEPT ![f] = Cancelled(f)]
  /\ call' = [call EXCEPT ![t] = ThawDevices(f, AfterCancel(f), TRUE)]
  /\ UNCHANGED <<stateVars, devices, gFreezeCount, pathRefs, kernelVars>>

ReleaseUnprivileged(f) ==
  /\ state[f] = "open" /\ ~InUse(f) /\ f \notin capable
  /\ state' = [state EXCEPT ![f] = "leaked"]
  /\ UNCHANGED <<capable, freezes, devices, thawTask, gFreezeCount, pathRefs, kernelVars, call>>

\* flush_scheduled_work returns when the item is neither queued nor running.
Flush(t) ==
  /\ At(t, "flush")
  /\ thawTask[call[t].file] # "queued" /\ ~On(Keventd, call[t].file)
  /\ call' = [call EXCEPT ![t].pc = "lock"]
  /\ UNCHANGED <<stateVars, devices, thawTask, gFreezeCount, pathRefs, kernelVars>>

(***************************************************************************)
(* The rest of the system: the holder of a descriptor gives up its         *)
(* capability, another subsystem freezes and thaws a device.               *)
(***************************************************************************)
DropCapability(f) ==
  /\ f \in capable /\ state[f] = "open" /\ ~InUse(f)
  /\ capable' = capable \ {f}
  /\ UNCHANGED <<state, freezes, devices, thawTask, gFreezeCount, pathRefs, kernelVars, call>>

OtherFreezes(d) ==
  /\ d \notin others
  /\ others' = others \cup {d}
  /\ bdFreeze' = [bdFreeze EXCEPT ![d] = @ + 1]
  /\ UNCHANGED <<stateVars, devices, thawTask, gFreezeCount, pathRefs, call>>

OtherThaws(d) ==
  /\ d \in others
  /\ others' = others \ {d}
  /\ bdFreeze' = [bdFreeze EXCEPT ![d] = @ - 1]
  /\ UNCHANGED <<stateVars, devices, thawTask, gFreezeCount, pathRefs, call>>

TaskStep(t) ==
  \/ AddPath(t) \/ FreezeNext(t) \/ DropPaths(t) \/ FreezeUnlock(t) \/ Schedule(t)
  \/ ThawLock(t) \/ ThawNext(t) \/ ThawUnlock(t) \/ Flush(t)

Next ==
  \/ \E t \in Tasks : TaskStep(t)
  \/ \E t \in Threads, f \in Files :
       \/ \E paths \in PathLists : FreezeDevices(t, f, paths)
       \/ ThawIoctl(t, f)
       \/ Release(t, f)
  \/ \E f \in Files : \/ Open(f) \/ TimerExpires(f) \/ ThawDevicesCallback(f)
                      \/ ReleaseUnprivileged(f) \/ DropCapability(f)
  \/ \E d \in Shared : OtherFreezes(d) \/ OtherThaws(d)

Spec == Init /\ [][Next]_vars

\* Threads in the kernel run on, timers expire and work items are run, and a mutex is given
\* to its waiters in turn: hence strong fairness for the work item, which ioctls could hold
\* up otherwise.  Nothing is assumed of user space: it may never thaw and never close.
Fairness ==
  /\ \A t \in Tasks : WF_vars(TaskStep(t))
  /\ SF_vars(ThawLock(Keventd))
  /\ \A f \in Files : WF_vars(TimerExpires(f)) /\ WF_vars(ThawDevicesCallback(f))

FairSpec == Spec /\ Fairness

(***************************************************************************)
(* Properties.                                                             *)
(***************************************************************************)
\* Where the list of a state that still exists has freezes of one of these devices.
Freezes(f, ds) ==
  {i \in DOMAIN devices[f] : state[f] # "freed" /\ devices[f][i].bdev \in ds /\ devices[f][i].sb}
FreezesOf(ds) == UNION {{f} \X Freezes(f, ds) : f \in Files}

\* Every freeze that the kernel counts on a device has an entry in the list of a state that
\* still exists, or belongs to somebody else, and gFreezeCount, which SYNC_IOC_QUERY reports,
\* is their number: no order of ioctls, timer and close loses a freeze or thaws one twice.
FreezesAreOwned ==
  /\ \A d \in Devices :
       bdFreeze[d] = Cardinality(FreezesOf({d})) + (IF d \in others THEN 1 ELSE 0)
  /\ gFreezeCount = Cardinality(FreezesOf(Devices))

\* "Used to make sure that two different fds aren't allowed to freeze the same device"
\* (gFreezeLock): at most one descriptor has frozen a device.
OneFreezer ==
  \A d \in Devices, f, g \in Files : f # g => Freezes(f, {d}) = {} \/ Freezes(g, {d}) = {}

\* The lists of the descriptors and the kernel's counts agree, and no device is on two lists.
FreezeInv == TypeOK /\ FreezesAreOwned /\ OneFreezer

\* The safety net: while a descriptor has frozen devices, the work item is pending, or a
\* thread is on its way to schedule it or to thaw them.
ThawIsPending ==
  \A f \in Files :
    devices[f] # <<>> =>
      \/ thawTask[f] # "idle"
      \/ \E t \in Tasks : On(t, f) /\ ~At(t, "add")

\* VmSyncRelease frees the state only when the work item can no longer use it, for a
\* descriptor that is frozen once, as lib/syncDriver does it.
StateOutlivesWork ==
  \A f \in Files :
    state[f] = "freed" /\ freezes[f] <= 1 => thawTask[f] = "idle" /\ ~On(Keventd, f)

\* The same for any use of the descriptor.  The work item can be running and pending at once
\* after a second freeze; then the release cancels the timer and does not wait.
StateOutlivesAnyWork ==
  \A f \in Files : state[f] = "freed" => thawTask[f] = "idle" /\ ~On(Keventd, f)

\* VmSyncAddPath: "the reference to the nameidata struct is retained until the device is
\* actually frozen", so that a call that freezes nothing keeps none.
PathsAreReleased == pathRefs = {}

\* What is frozen is thawed in the end, even if user space never asks for it and even if the
\* descriptor was closed without the capability.
FrozenIsThawed == \A f \in Files : devices[f] # <<>> ~> devices[f] = <<>>
=============================================================================
