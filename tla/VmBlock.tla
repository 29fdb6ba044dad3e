------------------------------- MODULE VmBlock -------------------------------
(***************************************************************************)
(* vmblock: paths that programs must not look at until drag and drop has   *)
(* put the files there.  The list of blocks is modules/shared/vmblock/     *)
(* block.c; its callers are the control file and the lookups of the Linux  *)
(* module (the FUSE and Solaris ones call it the same way), and the        *)
(* ioctls, close, unmount and lookups of the FreeBSD module, which also    *)
(* keeps a reference on the root vnode for each block.                     *)
(*                                                                         *)
(* The locks are not variables: who holds one is told by its pc.           *)
(***************************************************************************)
EXTENDS Integers, FiniteSets

CONSTANTS Names,        \* blocked files; on FreeBSD directories in the root of the mount
          Files,        \* descriptors of the control file: the blockers
          Unmounter,    \* the thread that unmounts the filesystem
          Threads,      \* threads that look files up
          Blocks,       \* BlockInfo objects of blockInfoCache
          Nobody        \* a name, blocker or block that is none

ASSUME VmBlockAssumption ==
  /\ Unmounter \notin Files
  /\ Nobody \notin Names \cup Files \cup Blocks
  /\ IsFiniteSet(Files) /\ IsFiniteSet(Threads) /\ IsFiniteSet(Blocks)

VARIABLES os,           \* the system that block.c is part of
          mount,        \* "mounted", "unmounting", "unmounted"
          opened,       \* descriptors that are open
          blockedFiles, \* blocks that are linked into the list
          block,        \* contents of the BlockInfo objects
          usecount,     \* v_usecount of the FreeBSD root vnode
          control,      \* what is done with each descriptor, and by the unmounter
          lookup        \* what each lookup is doing

listVars == <<blockedFiles, block>>
fsVars == <<os, mount, opened, usecount>>
vars == <<fsVars, listVars, control, lookup>>

Controllers == Files \cup {Unmounter}
Free == [refcount |-> 0]
Idle == [pc |-> "idle"]
BlockInfo == [refcount : Nat \ {0}, filename : Names, blocker : Files, completed : BOOLEAN]
ControlCall == [pc : {"check", "remove", "drop", "count", "flush"},
                op : {"add", "ioctl", "close", "unmount"},
                force : BOOLEAN, todo : SUBSET Blocks, removed : SUBSET Blocks]
LookupCall == [pc : {"root", "dir", "wait", "relock"}, name : Names,
               block : Blocks \cup {Nobody}]

TypeOK ==
  /\ os \in {"linux", "freebsd"}
  /\ mount \in {"mounted", "unmounting", "unmounted"}
  /\ opened \subseteq Files
  /\ blockedFiles \subseteq Blocks
  /\ block \in [Blocks -> {Free} \cup BlockInfo]
  /\ usecount \in Nat
  /\ control \in [Controllers -> {Idle} \cup ControlCall]
  /\ lookup \in [Threads -> {Idle} \cup LookupCall]

Init ==
  /\ os \in {"linux", "freebsd"}
  /\ mount = "mounted"
  /\ opened = {}
  /\ blockedFiles = {}
  /\ block = [k \in Blocks |-> Free]
  /\ usecount = 1
  /\ control = [c \in Controllers |-> Idle]
  /\ lookup = [t \in Threads |-> Idle]

Doing(c, labels) == control[c].pc \in labels
At(t, label) == lookup[t].pc = label

(***************************************************************************)
(* Locks: blockedFilesLock, and on FreeBSD the locks of the root vnode and *)
(* of the directories below it.                                            *)
(***************************************************************************)
\* BlockDoRemoveBlock and its callers hold blockedFilesLock for writing.
WriteLocked == \E c \in Controllers : Doing(c, {"remove", "drop"})

\* Ioctls and the unmount hold the root vnode from before the list to after the count.
RootLocked ==
  /\ os = "freebsd"
  /\ \/ \E t \in Threads : At(t, "root")
     \/ \E c \in Controllers :
          Doing(c, {"remove", "drop", "count"}) /\ control[c].op # "close"

DirLockedWhileWaiting(n) ==       \* mutant: the directory stays locked around the sleep
  \E t \in Threads : (At(t, "dir") \/ At(t, "wait")) /\ lookup[t].name = n
DirLocked(n) == \E t \in Threads : At(t, "dir") /\ lookup[t].name = n

(***************************************************************************)
(* The list.                                                               *)
(***************************************************************************)
\* GetBlock; Nobody is OS_UNKNOWN_BLOCKER.
GetBlock(n, b) ==
  {k \in blockedFiles : block[k].filename = n /\ (b = Nobody \/ block[k].blocker = b)}

\* BlockDropReference, with FreeBlock; and BlockGrabReference.
NeverFreed(k) == [block[k] EXCEPT !.refcount = @ - 1]   \* mutant: the last one frees nothing
DropReference(k) == IF block[k].refcount = 1 THEN Free ELSE [block[k] EXCEPT !.refcount = @ - 1]
GrabNothing(k) == block[k]        \* mutant: BlockLookup takes no reference
GrabReference(k) == [block[k] EXCEPT !.refcount = @ + 1]

(***************************************************************************)
(* Control operations.  They come from user space and start when they have *)
(* their locks: the list's, and for ioctls and unmount the root vnode's.   *)
(* One that returns an error changes nothing and is not a step.            *)
(***************************************************************************)
\* The victims are those still to be removed, and in the end those whose number is returned.
Call(c, label, op, force, victims) ==
  control' = [control EXCEPT ![c] = [pc |-> label, op |-> op, force |-> force,
                                     todo |-> victims, removed |-> victims]]

\* BlockRemoveFileBlock and BlockRemoveAllBlocks under the write lock.
RemoveBlocks(c, op, force, victims) ==
  Call(c, IF victims = {} THEN "count" ELSE "remove", op, force, victims)

Open(f) ==
  /\ f \notin opened /\ mount = "mounted"
  /\ opened' = opened \cup {f}
  /\ usecount' = IF os = "freebsd" THEN usecount + 1 ELSE usecount
  /\ UNCHANGED <<os, mount, listVars, control, lookup>>

\* ControlFileOpWrite, VMBlockVopIoctl: EBADF once the filesystem is going away.
MayIoctl(f) ==
  /\ f \in opened /\ Doing(f, {"idle"}) /\ ~WriteLocked
  /\ os = "freebsd" => mount = "mounted" /\ ~RootLocked

\* The test for EEXIST.
RefusedToOwner(n, f) == GetBlock(n, f) # {}   \* mutant: looks at its own blocks
AddRefused(n, f) == GetBlock(n, Nobody) # {}

AddFileBlock(f, n) ==
  /\ MayIoctl(f) /\ ~AddRefused(n, f)
  /\ \E k \in Blocks :
       /\ block[k] = Free
       /\ block' = [block EXCEPT ![k] = [refcount |-> 1, filename |-> n, blocker |-> f,
                                         completed |-> FALSE]]
       /\ blockedFiles' = blockedFiles \cup {k}
  /\ Call(f, "count", "add", FALSE, {})
  /\ UNCHANGED <<fsVars, lookup>>

RemoveFileBlock(f, n) ==
  /\ MayIoctl(f) /\ GetBlock(n, f) # {}
  /\ RemoveBlocks(f, "ioctl", FALSE, GetBlock(n, f))
  /\ UNCHANGED <<fsVars, listVars, lookup>>

\* An ioctl of FreeBSD development builds.
PurgeFileBlocks(f) ==
  /\ os = "freebsd" /\ MayIoctl(f)
  /\ RemoveBlocks(f, "ioctl", FALSE, blockedFiles)
  /\ UNCHANGED <<fsVars, listVars, lookup>>

\* ControlFileOpRelease or VMBlockFileClose, which reads the mount of the descriptor's vnode.
FirstBlockOf(f) ==                \* mutant: stops at the first match
  LET own == {k \in blockedFiles : block[k].blocker = f}
  IN {k \in own : k = CHOOSE l \in own : TRUE}
BlocksOf(f) == {k \in blockedFiles : block[k].blocker = f}

Close(f) ==
  /\ f \in opened /\ Doing(f, {"idle"}) /\ ~WriteLocked
  /\ RemoveBlocks(f, "close", FALSE, BlocksOf(f))
  /\ UNCHANGED <<fsVars, listVars, lookup>>

\* VMBlockVFSUnmount, called with MNTK_UNMOUNT set: the check of the count, then the purge.
Unmount(force) ==
  /\ os = "freebsd" /\ mount = "mounted"
  /\ usecount > 1 => force
  /\ mount' = "unmounting"
  /\ Call(Unmounter, "check", "unmount", force, {})
  /\ UNCHANGED <<os, opened, usecount, listVars, lookup>>

UnmountPurge(c) ==
  /\ Doing(c, {"check"}) /\ ~RootLocked /\ ~WriteLocked
  /\ RemoveBlocks(c, "unmount", control[c].force, blockedFiles)
  /\ UNCHANGED <<fsVars, listVars, lookup>>

\* BlockDoRemoveBlock: the block is unlinked and completed, then its reference is dropped,
\* while lookups drop theirs without the lock.
Current(c) == CHOOSE k \in control[c].todo : TRUE

CompleteLast(c) ==                \* mutant: only the last block of several is completed
  IF Cardinality(control[c].todo) = 1 THEN [block EXCEPT ![Current(c)].completed = TRUE] ELSE block
CompleteAll(c) == [block EXCEPT ![Current(c)].completed = TRUE]

DoRemoveBlock(c) ==
  /\ Doing(c, {"remove"})
  /\ blockedFiles' = blockedFiles \ {Current(c)}
  /\ block' = CompleteAll(c)
  /\ control' = [control EXCEPT ![c].pc = "drop"]
  /\ UNCHANGED <<fsVars, lookup>>

Drop(c) ==
  /\ Doing(c, {"drop"})
  /\ block' = [block EXCEPT ![Current(c)] = DropReference(Current(c))]
  /\ control' = [control EXCEPT ![c].todo = @ \ {Current(c)},
                                ![c].pc = IF control[c].todo = {Current(c)} THEN "count" ELSE "remove"]
  /\ UNCHANGED <<fsVars, blockedFiles, lookup>>

\* The root vnode's count follows.  The close goes on to vn_closefile, the unmount to vflush.
Added(c) == IF control[c].op = "add" THEN 1 ELSE 0
Closed(c) == IF control[c].op = "close" THEN 1 ELSE 0
CountedOnce(c) ==                 \* mutant: one reference for all the blocks removed
  IF os = "linux" THEN usecount
  ELSE usecount + Added(c) - (IF control[c].removed = {} THEN 0 ELSE 1) - Closed(c)
Counted(c) ==
  IF os = "linux" THEN usecount
  ELSE usecount + Added(c) - Cardinality(control[c].removed) - Closed(c)

Count(c) ==
  /\ Doing(c, {"count"})
  /\ usecount' = Counted(c)
  /\ opened' = IF control[c].op = "close" THEN opened \ {c} ELSE opened
  /\ control' = [control EXCEPT ![c] = IF @.op = "unmount" THEN [@ EXCEPT !.pc = "flush"] ELSE Idle]
  /\ UNCHANGED <<os, mount, listVars, lookup>>

\* vflush fails if a vnode is in use, unless forced.
Flush(c) ==
  /\ Doing(c, {"flush"})
  /\ \/ control[c].force /\ mount' = "unmounted"
     \/ /\ ~control[c].force
        /\ mount' = IF \A t \in Threads : At(t, "idle") THEN "unmounted" ELSE "mounted"
  /\ control' = [control EXCEPT ![c] = Idle]
  /\ UNCHANGED <<os, opened, usecount, listVars, lookup>>

ControlStep(c) ==
  \/ UnmountPurge(c) \/ DoRemoveBlock(c) \/ Drop(c) \/ Count(c) \/ Flush(c)

(***************************************************************************)
(* Lookups: DentryOpRevalidate and InodeOpLookup on Linux, a walk from the *)
(* root through VMBlockVopLookup on FreeBSD.                               *)
(***************************************************************************)
Moved(t, call) == lookup' = [lookup EXCEPT ![t] = call]

\* BlockWaitOnFile or BlockLookup find a block and take a reference to it.
Found(t, n) ==
  /\ ~WriteLocked
  /\ \E k \in GetBlock(n, Nobody) :
       /\ block' = [block EXCEPT ![k] = GrabReference(k)]
       /\ Moved(t, [pc |-> "wait", name |-> n, block |-> k])
  /\ UNCHANGED <<fsVars, blockedFiles, control>>

LinuxLookup(t, n) == os = "linux" /\ At(t, "idle") /\ Found(t, n)

\* FreeBSD locks the root, then the directory, and lets go of the root.
WalkRoot(t, n) ==
  /\ os = "freebsd" /\ mount = "mounted" /\ At(t, "idle") /\ ~RootLocked
  /\ Moved(t, [pc |-> "root", name |-> n, block |-> Nobody])
  /\ UNCHANGED <<fsVars, listVars, control>>

WalkDir(t) ==
  /\ At(t, "root") /\ ~DirLocked(lookup[t].name)
  /\ Moved(t, [lookup[t] EXCEPT !.pc = "dir"])
  /\ UNCHANGED <<fsVars, listVars, control>>

VopLookup(t) == At(t, "dir") /\ Found(t, lookup[t].name)

NotBlocked(t) ==
  /\ At(t, "dir") /\ ~WriteLocked /\ GetBlock(lookup[t].name, Nobody) = {}
  /\ Moved(t, Idle)
  /\ UNCHANGED <<fsVars, listVars, control>>

\* os_wait_for_completion ends and BlockWaitOnFile drops its reference.
DropAndReturn(t) ==
  /\ At(t, "wait")
  /\ block' = [block EXCEPT ![lookup[t].block] = DropReference(lookup[t].block)]
  /\ Moved(t, IF os = "linux" THEN Idle ELSE [lookup[t] EXCEPT !.pc = "relock", !.block = Nobody])
  /\ UNCHANGED <<fsVars, blockedFiles, control>>

WaitReturns(t) == At(t, "wait") /\ block[lookup[t].block].completed /\ DropAndReturn(t)

\* A signal ends the sleep of cv_wait_sig.
Interrupted(t) == os = "freebsd" /\ DropAndReturn(t)

\* VMBlockVopLookup locks its directory again, and goes on or fails with EIO or EINTR.
Relock(t) ==
  /\ At(t, "relock") /\ ~DirLocked(lookup[t].name)
  /\ Moved(t, Idle)
  /\ UNCHANGED <<fsVars, listVars, control>>

LookupStep(t) ==
  \/ WalkDir(t) \/ VopLookup(t) \/ NotBlocked(t) \/ WaitReturns(t) \/ Relock(t)

Next ==
  \/ \E f \in Files : Open(f) \/ PurgeFileBlocks(f) \/ Close(f)
  \/ \E f \in Files, n \in Names : AddFileBlock(f, n) \/ RemoveFileBlock(f, n)
  \/ \E force \in BOOLEAN : Unmount(force)
  \/ \E c \in Controllers : ControlStep(c)
  \/ \E t \in Threads : LookupStep(t) \/ Interrupted(t)
  \/ \E t \in Threads, n \in Names : LinuxLookup(t, n) \/ WalkRoot(t, n)

Spec == Init /\ [][Next]_vars

\* Threads in the kernel run on, and one that waits for a vnode lock or for blockedFilesLock
\* gets it in the end: hence strong fairness for those.  Nothing is assumed of user space,
\* which may never remove a block, close a descriptor or send a signal.
Fairness ==
  /\ \A f \in Files : WF_vars(ControlStep(f))
  /\ SF_vars(ControlStep(Unmounter))
  /\ \A t \in Threads : SF_vars(LookupStep(t))

FairSpec == Spec /\ Fairness

(***************************************************************************)
(* Properties.                                                             *)
(***************************************************************************)
\* Who has a reference on block k: the list, up to the end of BlockDoRemoveBlock, and lookups.
ListRefs(k) ==
  IF k \in blockedFiles \/ \E c \in Controllers :
       Doing(c, {"drop"}) /\ Current(c) = k THEN 1 ELSE 0
LookupRefs(k) == Cardinality({t \in Threads : ~At(t, "idle") /\ lookup[t].block = k})

\* The reference count of every BlockInfo is the number of its users, so that none is freed
\* or reused while a lookup sleeps on it and none is leaked, whatever removes it: its owner,
\* the close, a purge or an unmount.
ReferencesBalance == \A k \in Blocks : block[k].refcount = ListRefs(k) + LookupRefs(k)

\* A file has one block, whoever asked for it, so that removing it lets the lookups go.
OneBlockPerFile ==
  \A k, l \in blockedFiles : block[k].filename = block[l].filename => k = l

\* No block outlives its descriptor or the mount: nobody could lift it any more, and
\* BlockCleanup asserts that there is none.
BlocksHaveOwners ==
  /\ \A k \in blockedFiles : block[k].blocker \in opened
  /\ mount = "unmounted" => blockedFiles = {}

\* The list as a whole: one block for a file, each with somebody who can lift it.
BlockListInv == TypeOK /\ OneBlockPerFile /\ BlocksHaveOwners

\* What call c has done to the list and not yet to the count: blocks taken off it, or one added.
Uncounted(c) ==
  CASE Doing(c, {"count"}) -> control[c].removed
    [] Doing(c, {"remove"}) -> control[c].removed \ control[c].todo
    [] Doing(c, {"drop"}) -> (control[c].removed \ control[c].todo) \cup {Current(c)}
    [] OTHER -> {}
AllUncounted == UNION {{c} \X Uncounted(c) : c \in Controllers}
Adding == {c \in Controllers : Doing(c, {"count"}) /\ control[c].op = "add"}

\* The root vnode of FreeBSD is referenced by the mount, by each open descriptor and by each
\* block, but for the calls between the list and the count, so that an unmount is refused
\* while there are blocks, and only then.
UseCountFollowsBlocks ==
  os = "freebsd" =>
    usecount = 1 + Cardinality(opened) + Cardinality(blockedFiles)
               + Cardinality(AllUncounted) - Cardinality(Adding)

\* VMBlockVopIoctl: "Make sure we're still dealing with a VMBlock vnode ... Otherwise v_mount
\* may be invalid."  The close of a descriptor does not.
CloseHasMount ==
  [][\A f \in Files : Close(f) => mount # "unmounted"]_vars

\* A lookup that sleeps on a block is let go once the block is off the list.
WaitersWake ==
  \A t \in Threads :
    (At(t, "wait") /\ lookup[t].block \notin blockedFiles) ~> At(t, "idle")

\* No lookup holds up the ioctl that would lift its block, nor the unmount: the "cascading
\* file system lookup deadlock" that VMBlockVopLookup avoids by sleeping without a lock.
RootIsReleased == RootLocked ~> ~RootLocked
=============================================================================
