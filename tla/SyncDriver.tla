---------------------------- MODULE SyncDriver ----------------------------
(***************************************************************************)
(* The user-level sync driver, Linux build: lib/syncDriver.  A freeze walks *)
(* the mount points one by one, with FIFREEZE on each, and has to undo what *)
(* it did when a later one fails.  If the kernel has no FIFREEZE it falls    *)
(* back to the vmsync module and then to a driver that only calls sync().   *)
(*                                                                         *)
(* Mounts are represented by the filesystem they show, so a bind mount is a *)
(* filesystem that occurs twice.  Other programs of the guest freeze and    *)
(* thaw filesystems as well.                                                *)
(***************************************************************************)
EXTENDS Integers, Sequences, FiniteSets

CONSTANTS
  Filesystems,  \* superblocks of the guest
  Denied,       \* those that cannot be opened: EACCES or EIO
  Unsupported,  \* those that cannot be frozen: EOPNOTSUPP, no block device
  MaxMounts,    \* bound: number of mount points
  MaxFreezes    \* bound: number of calls of SyncDriver_Freeze

ASSUME FilesystemsAssumption == Denied \subseteq Filesystems /\ Unsupported \subseteq Filesystems
ASSUME BoundsAssumption == MaxMounts \in Nat /\ MaxFreezes \in Nat

VARIABLES
  frozen,    \* who froze each filesystem: "nobody", "fds", "vmsync", "other"
  mounts,    \* the local mount points, in the order of the mount table
  ioctls,    \* 1 if the kernel implements FIFREEZE
  pc,        \* where the caller is
  index,     \* next mount point of LinuxDriver_Freeze or next descriptor of LinuxFiThaw
  first,     \* LinuxDriver_Freeze's variable, 0 or 1
  fds,       \* the descriptors collected so far, as the filesystem each one shows
  fileTable, \* number of open descriptors that the library opened
  err,       \* SyncDriverErr of the operation under way
  handle,    \* backend behind *handle, or "INVALID"
  result,    \* what the last call returned
  stuck,     \* filesystems for which FITHAW failed
  calls      \* number of calls so far

driver == <<pc, index, first, fds, fileTable, err, handle, result, stuck, calls>>
vars == <<frozen, mounts, ioctls, driver>>

\* "linux", "undo", "vmsync" and "null" are inside SyncDriver_Freeze, "thaw" is
\* inside SyncDriver_Thaw, "close" before SyncDriver_CloseHandle.
Steps == {"idle", "linux", "undo", "vmsync", "null", "frozen", "thaw", "close"}

TypeOK ==
  /\ frozen \in [Filesystems -> {"nobody", "fds", "vmsync", "other"}]
  /\ mounts \in Seq(Filesystems) /\ Len(mounts) <= MaxMounts
  /\ ioctls \in {0, 1}
  /\ pc \in Steps /\ index \in 1..(MaxMounts + 1) /\ first \in {0, 1}
  /\ fds \in Seq(Filesystems) /\ fileTable \in Nat
  /\ err \in {"SUCCESS", "ERROR", "UNAVAILABLE"}
  /\ handle \in {"INVALID", "linux", "vmsync", "null"}
  /\ result \in {"none", "TRUE", "FALSE"}
  /\ stuck \subseteq Filesystems /\ calls \in 0..MaxFreezes

Init ==
  /\ frozen = [f \in Filesystems |-> "nobody"]
  /\ mounts \in UNION {[1..n -> Filesystems] : n \in 0..MaxMounts}
  /\ ioctls \in {0, 1}
  /\ pc = "idle" /\ index = 1 /\ first = 1 /\ fds = <<>> /\ fileTable = 0
  /\ err = "SUCCESS" /\ handle = "INVALID" /\ result = "none"
  /\ stuck = {} /\ calls = 0

------------------------------------------------------------------------------
(* SyncDriver_Freeze.                                                        *)

\* SyncDriverListMounts fails: the function returns SD_ERROR, which is TRUE.
ListFails ==
  /\ pc = "idle" /\ calls < MaxFreezes
  /\ calls' = calls + 1
  /\ result' = "TRUE" /\ err' = "ERROR" /\ pc' = "frozen"
  /\ UNCHANGED <<frozen, mounts, ioctls, index, first, fds, fileTable, handle, stuck>>

\* LinuxDriver_Freeze cannot allocate its handle.
NoMemory ==
  /\ pc = "idle" /\ calls < MaxFreezes
  /\ calls' = calls + 1
  /\ result' = "FALSE" /\ err' = "ERROR"
  /\ UNCHANGED <<frozen, mounts, ioctls, pc, index, first, fds, fileTable, handle, stuck>>

\* LinuxDriver_Freeze starts on the list of paths.
Freeze ==
  /\ pc = "idle" /\ calls < MaxFreezes
  /\ calls' = calls + 1
  /\ pc' = "linux" /\ index' = 1 /\ first' = 1 /\ fds' = <<>> /\ err' = "SUCCESS"
  /\ UNCHANGED <<frozen, mounts, ioctls, fileTable, handle, result, stuck>>

Path == mounts[index]
AtPath == pc = "linux" /\ index <= Len(mounts)
Opened == AtPath /\ Path \notin Denied
Freezable == Opened /\ ioctls = 1 /\ Path \notin Unsupported /\ frozen[Path] = "nobody"

\* open() fails with EACCES or EIO.
SkipPath ==
  /\ AtPath /\ Path \in Denied
  /\ index' = index + 1
  /\ UNCHANGED <<frozen, mounts, ioctls, pc, first, fds, fileTable, err, handle, result,
                 stuck, calls>>

\* FIFREEZE succeeds, and the descriptor is kept.
FreezePath ==
  /\ Freezable
  /\ frozen' = [frozen EXCEPT ![Path] = "fds"]
  /\ fds' = Append(fds, Path) /\ fileTable' = fileTable + 1
  /\ index' = index + 1 /\ first' = 0
  /\ UNCHANGED <<mounts, ioctls, pc, err, handle, result, stuck, calls>>

\* FIFREEZE fails with EBUSY, because the filesystem is frozen already, or with
\* EOPNOTSUPP: the descriptor is closed and the error ignored.
KeepsDescriptor == fileTable' = fileTable + 1     \* mutant: the close is forgotten
ClosesDescriptor == fileTable' = fileTable

IgnorePath ==
  /\ Opened /\ ioctls = 1
  /\ Path \in Unsupported \/ frozen[Path] # "nobody"
  /\ ClosesDescriptor
  /\ index' = index + 1 /\ first' = 0
  /\ UNCHANGED <<frozen, mounts, ioctls, pc, fds, err, handle, result, stuck, calls>>

\* open() fails for another reason.
OpenFails ==
  /\ AtPath
  /\ err' = "ERROR" /\ index' = 1 /\ pc' = "undo"
  /\ UNCHANGED <<frozen, mounts, ioctls, first, fds, fileTable, handle, result, stuck, calls>>

\* FIFREEZE fails for good.  Only ENOTTY on the first path means that another
\* backend may do better.
IoctlErrors == {"ENOTTY", "EPERM", "EIO"}
UnavailableAnywhere(errno) == IF errno = "ENOTTY" THEN "UNAVAILABLE" ELSE "ERROR"   \* mutant
ErrOf(errno) == IF first = 1 /\ errno = "ENOTTY" THEN "UNAVAILABLE" ELSE "ERROR"

IoctlFails(errno) ==
  /\ Opened
  /\ err' = ErrOf(errno) /\ index' = 1 /\ pc' = "undo"
  /\ UNCHANGED <<frozen, mounts, ioctls, first, fds, fileTable, handle, result, stuck, calls>>

\* FIFREEZE succeeded but the descriptor cannot be stored: that filesystem is
\* thawed and closed at once, the others on the way out.
NotThawed(f) == frozen'= [frozen EXCEPT ![f] = "fds"] /\ stuck' = stuck  \* mutant
ThawedAtOnce(f) ==
  \/ frozen' = frozen /\ stuck' = stuck
  \/ frozen' = [frozen EXCEPT ![f] = "fds"] /\ stuck' = stuck \cup {f}

OutOfMemory ==
  /\ Freezable
  /\ ThawedAtOnce(Path)
  /\ err' = "ERROR" /\ index' = 1 /\ pc' = "undo"
  /\ UNCHANGED <<mounts, ioctls, first, fds, fileTable, handle, result, calls>>

\* Every path was tried.
LinuxDone ==
  /\ pc = "linux" /\ index > Len(mounts)
  /\ handle' = "linux" /\ result' = "TRUE" /\ pc' = "frozen"
  /\ UNCHANGED <<frozen, mounts, ioctls, index, first, fds, fileTable, err, stuck, calls>>

\* FITHAW on one descriptor; 1 if it worked.
FiThaw(f, worked) ==
  /\ frozen' = IF worked = 1 THEN [frozen EXCEPT ![f] = "nobody"] ELSE frozen
  /\ stuck' = IF worked = 1 THEN stuck ELSE stuck \cup {f}

\* LinuxFiThaw on the way out of a failed freeze: all descriptors, whatever the
\* outcome for each.
Undo ==
  /\ pc = "undo" /\ index <= Len(fds)
  /\ \E worked \in {0, 1} : FiThaw(fds[index], worked)
  /\ index' = index + 1
  /\ UNCHANGED <<mounts, ioctls, pc, first, fds, fileTable, err, handle, result, calls>>

\* LinuxFiClose; then the next backend, if this one is unavailable.
UndoneAtFirst == index > 1 \/ fds = <<>>          \* mutant: stops after one descriptor
Undone == index > Len(fds)

UndoDone ==
  /\ pc = "undo" /\ Undone
  /\ fileTable' = fileTable - Len(fds) /\ fds' = <<>>
  /\ \/ err = "UNAVAILABLE" /\ pc' = "vmsync" /\ result' = result
     \/ err = "ERROR" /\ pc' = "idle" /\ result' = "FALSE"
  /\ UNCHANGED <<frozen, mounts, ioctls, index, first, err, handle, stuck, calls>>

\* The block devices behind the mount points.
Devices == {mounts[i] : i \in 1..Len(mounts)} \ Unsupported

\* VmSync_Freeze: the module freezes all the devices it is given, or none; a
\* device that is frozen already makes it fail.
VmSyncMissing ==
  /\ pc = "vmsync"
  /\ pc' = "null"
  /\ UNCHANGED <<frozen, mounts, ioctls, index, first, fds, fileTable, err, handle, result,
                 stuck, calls>>

VmSyncFreezes ==
  /\ pc = "vmsync"
  /\ \A f \in Devices : frozen[f] = "nobody"
  /\ frozen' = [f \in Filesystems |-> IF f \in Devices THEN "vmsync" ELSE frozen[f]]
  /\ fileTable' = fileTable + 1
  /\ err' = "SUCCESS" /\ handle' = "vmsync" /\ result' = "TRUE" /\ pc' = "frozen"
  /\ UNCHANGED <<mounts, ioctls, index, first, fds, stuck, calls>>

VmSyncFails ==
  /\ pc = "vmsync"
  /\ err' = "ERROR" /\ result' = "FALSE" /\ pc' = "idle"
  /\ UNCHANGED <<frozen, mounts, ioctls, index, first, fds, fileTable, handle, stuck, calls>>

\* NullDriver_Freeze, if the caller wants it; otherwise no backend is left.
NullFreezes ==
  /\ pc = "null"
  /\ err' = "SUCCESS" /\ handle' = "null" /\ result' = "TRUE" /\ pc' = "frozen"
  /\ UNCHANGED <<frozen, mounts, ioctls, index, first, fds, fileTable, stuck, calls>>

NullSkipped ==
  /\ pc = "null"
  /\ result' = "FALSE" /\ pc' = "idle"
  /\ UNCHANGED <<frozen, mounts, ioctls, index, first, fds, fileTable, err, handle, stuck,
                 calls>>

------------------------------------------------------------------------------
(* SyncDriver_Thaw and SyncDriver_CloseHandle, as VmBackupDriverThaw calls   *)
(* them.  The caller looks at the handle before it comes here.               *)

Thaw ==
  /\ pc = "frozen" /\ handle # "INVALID"
  /\ err' = "SUCCESS" /\ index' = 1
  /\ pc' = "thaw"
  /\ UNCHANGED <<frozen, mounts, ioctls, first, fds, fileTable, handle, result, stuck, calls>>

\* LinuxFiThaw goes on after an error, and remembers it.
LastError(worked) == IF worked = 1 THEN "SUCCESS" ELSE "ERROR"   \* mutant: of the last one only
AnyError(worked) == IF worked = 1 THEN err ELSE "ERROR"

ThawOne ==
  /\ pc = "thaw" /\ handle = "linux" /\ index <= Len(fds)
  /\ \E worked \in {0, 1} : FiThaw(fds[index], worked) /\ err' = AnyError(worked)
  /\ index' = index + 1
  /\ UNCHANGED <<mounts, ioctls, pc, first, fds, fileTable, handle, result, calls>>

ThawVmSync ==
  /\ pc = "thaw" /\ handle = "vmsync"
  /\ \/ /\ frozen' = [f \in Filesystems |-> IF frozen[f] = "vmsync" THEN "nobody" ELSE frozen[f]]
        /\ result' = "TRUE"
     \/ frozen' = frozen /\ result' = "FALSE"
  /\ pc' = "close"
  /\ UNCHANGED <<mounts, ioctls, index, first, fds, fileTable, err, handle, stuck, calls>>

ThawDone ==
  /\ pc = "thaw"
  /\ \/ handle = "linux" /\ index > Len(fds)
     \/ handle = "null"
  /\ result' = IF err = "SUCCESS" THEN "TRUE" ELSE "FALSE"
  /\ pc' = "close"
  /\ UNCHANGED <<frozen, mounts, ioctls, index, first, fds, fileTable, err, handle, stuck, calls>>

\* The descriptors are closed; closing that of the vmsync module thaws.
CloseHandle ==
  /\ pc = "close"
  /\ fileTable' = fileTable - (IF handle = "vmsync" THEN 1 ELSE Len(fds))
  /\ frozen' = [f \in Filesystems |-> IF frozen[f] = "vmsync" THEN "nobody" ELSE frozen[f]]
  /\ fds' = <<>> /\ handle' = "INVALID"
  /\ pc' = "idle"
  /\ UNCHANGED <<mounts, ioctls, index, first, err, result, stuck, calls>>

\* A caller that was given an invalid handle gives up.
DropInvalid ==
  /\ pc = "frozen" /\ handle = "INVALID"
  /\ pc' = "idle"
  /\ UNCHANGED <<frozen, mounts, ioctls, index, first, fds, fileTable, err, handle, result,
                 stuck, calls>>

------------------------------------------------------------------------------
\* Another program freezes a filesystem, or thaws one that it froze.
OtherFreezes(f) ==
  /\ frozen[f] = "nobody"
  /\ frozen' = [frozen EXCEPT ![f] = "other"]
  /\ UNCHANGED <<mounts, ioctls, driver>>

OtherThaws(f) ==
  /\ frozen[f] = "other"
  /\ frozen' = [frozen EXCEPT ![f] = "nobody"]
  /\ UNCHANGED <<mounts, ioctls, driver>>

LinuxDriver == SkipPath \/ FreezePath \/ IgnorePath \/ OpenFails
               \/ (\E errno \in IoctlErrors : IoctlFails(errno)) \/ OutOfMemory \/ LinuxDone
               \/ Undo \/ UndoDone
VmSync == VmSyncMissing \/ VmSyncFreezes \/ VmSyncFails
NullDriver == NullFreezes \/ NullSkipped
Thawing == Thaw \/ ThawOne \/ ThawVmSync \/ ThawDone \/ CloseHandle

Next ==
  \/ ListFails \/ NoMemory \/ Freeze \/ LinuxDriver \/ VmSync \/ NullDriver
  \/ Thawing \/ DropInvalid
  \/ \E f \in Filesystems : OtherFreezes(f) \/ OtherThaws(f)

Spec == Init /\ [][Next]_vars

------------------------------------------------------------------------------
(* Properties.                                                               *)

Held == {fds[i] : i \in 1..Len(fds)}

\* Nothing is ever frozen without a way back: what FIFREEZE froze is behind a
\* descriptor that is still open, at every point of every error path, unless a
\* FITHAW on it failed, and what the module froze is behind the handle.  So a
\* failed freeze leaves nothing frozen, and a closed handle neither.
NothingOrphaned ==
  \A f \in Filesystems :
    /\ frozen[f] = "fds" => f \in Held \cup stuck
    /\ frozen[f] = "vmsync" => handle = "vmsync"

\* Between and during the calls the library has as many descriptors open as its
\* handle accounts for: no path through the loop, its errors and the fallback to
\* other backends leaks one, and none is closed twice.
DescriptorsBalance == fileTable = Len(fds) + (IF handle = "vmsync" THEN 1 ELSE 0)

\* Another backend is tried only by a call that froze nothing itself, so a
\* filesystem is never frozen by two backends and thawed by one.
FallbackIsClean ==
  pc \in {"vmsync", "null"} \/ (pc = "undo" /\ err = "UNAVAILABLE") => fds = <<>>

\* A thaw that reports success has thawed every filesystem behind the handle: an
\* early failure is not forgotten because a later one succeeds.
ThawReportsFailure ==
  pc = "close" /\ result = "TRUE" =>
    \A f \in Filesystems : frozen[f] = "vmsync" \/ f \in Held => frozen[f] \in {"nobody", "other"}

\* Where the handle and the descriptors are during a call.  There are never more
\* descriptors than paths tried.
HandleInv ==
  /\ pc \in {"idle", "linux", "undo", "vmsync", "null"} => handle = "INVALID"
  /\ pc \in {"thaw", "close"} => handle # "INVALID"
  /\ pc \notin {"linux", "undo"} /\ handle # "linux" => fds = <<>>
  /\ pc = "linux" => Len(fds) < index
  /\ pc = "linux" /\ first = 1 => fds = <<>>
  /\ Len(fds) <= Len(mounts)
  /\ pc = "undo" => err # "SUCCESS"

\* How far LinuxFiThaw has got: an error is remembered as such.
ThawInv ==
  /\ pc = "undo" => \A i \in 1..Len(fds) : i < index => frozen[fds[i]] # "fds" \/ fds[i] \in stuck
  /\ pc \in {"thaw", "close"} =>
       \A i \in 1..Len(fds) : i < index =>
         frozen[fds[i]] # "fds" \/ (fds[i] \in stuck /\ err = "ERROR")
  /\ pc = "close" /\ handle = "linux" => index > Len(fds) /\ (result = "TRUE" <=> err = "SUCCESS")

\* The inductive invariant of the library.
DriverInv ==
  NothingOrphaned /\ DescriptorsBalance /\ FallbackIsClean /\ ThawReportsFailure
    /\ HandleInv /\ ThawInv

------------------------------------------------------------------------------
(* What the documentation says and the code does not do.                     *)

\* SyncDriver_Freeze: "TRUE on success, FALSE on failure".
FreezeReportsFailure == pc = "frozen" /\ result = "TRUE" => handle # "INVALID"

\* SyncDriver_Freeze: "Freeze I/O on the indicated drives."
FrozenUntilThawed ==
  pc = "frozen" /\ handle = "linux" =>
    \A i \in 1..Len(mounts) :
      mounts[i] \in Denied \cup Unsupported \/ frozen[mounts[i]] # "nobody"

\* LinuxDriver_Freeze: "If the first attempt at using the ioctl fails, assume that
\* it doesn't exist and return SD_UNAVAILABLE, so that other means of freezing are
\* tried."
FirstFailureFallsBack ==
  [][\A errno \in IoctlErrors : first = 1 /\ IoctlFails(errno) => err' = "UNAVAILABLE"]_vars

=============================================================================
