-------------------------- MODULE SyncDriverProofs --------------------------
(* Proofs about SyncDriver, for any filesystems, mount table and number of   *)
(* calls.                                                                    *)
EXTENDS SyncDriver, TLAPS

USE FilesystemsAssumption, BoundsAssumption

\* The initial state satisfies the types and the inductive invariant.
LEMMA InitInv == Init => TypeOK /\ DriverInv
<1> SUFFICES ASSUME Init PROVE TypeOK /\ DriverInv
  OBVIOUS
<1>1. PICK n \in 0..MaxMounts : mounts \in [1..n -> Filesystems]
  BY DEF Init
<1>2. mounts \in Seq(Filesystems) /\ Len(mounts) = n
  BY <1>1
<1>3. TypeOK
  BY <1>1, <1>2 DEF Init, TypeOK, Steps
<1>4. DriverInv
  BY <1>2 DEF Init, DriverInv, NothingOrphaned, DescriptorsBalance, FallbackIsClean,
     ThawReportsFailure, HandleInv, ThawInv, Held
<1> QED BY <1>3, <1>4

\* Every step keeps the variables in their types.  The number of open descriptors
\* stays natural because they balance, and the index stays in its range because
\* there are no more descriptors than mount points.
LEMMA TypeStep == TypeOK /\ DriverInv /\ [Next]_vars => TypeOK'
<1> SUFFICES ASSUME TypeOK, DriverInv, [Next]_vars PROVE TypeOK'
  OBVIOUS
<1> USE DEF TypeOK, Steps, DriverInv, DescriptorsBalance, HandleInv
<1>1. CASE ListFails
  BY <1>1 DEF ListFails
<1>2. CASE NoMemory
  BY <1>2 DEF NoMemory
<1>3. CASE Freeze
  BY <1>3 DEF Freeze
<1>4. CASE SkipPath
  BY <1>4 DEF SkipPath, AtPath, Path
<1>5. CASE FreezePath
  BY <1>5 DEF FreezePath, Freezable, Opened, AtPath, Path
<1>6. CASE IgnorePath
  BY <1>6 DEF IgnorePath, Opened, AtPath, Path, ClosesDescriptor
<1>7. CASE OpenFails
  BY <1>7 DEF OpenFails, AtPath
<1>8. CASE \E errno \in IoctlErrors : IoctlFails(errno)
  BY <1>8 DEF IoctlFails, ErrOf, Opened, AtPath
<1>9. CASE OutOfMemory
  BY <1>9 DEF OutOfMemory, Freezable, Opened, AtPath, Path, ThawedAtOnce
<1>10. CASE LinuxDone
  BY <1>10 DEF LinuxDone
<1>11. CASE Undo
  BY <1>11 DEF Undo, FiThaw
<1>12. CASE UndoDone
  BY <1>12 DEF UndoDone, Undone
<1>13. CASE VmSyncMissing
  BY <1>13 DEF VmSyncMissing
<1>14. CASE VmSyncFreezes
  BY <1>14 DEF VmSyncFreezes, Devices
<1>15. CASE VmSyncFails
  BY <1>15 DEF VmSyncFails
<1>16. CASE NullFreezes
  BY <1>16 DEF NullFreezes
<1>17. CASE NullSkipped
  BY <1>17 DEF NullSkipped
<1>18. CASE Thaw
  BY <1>18 DEF Thaw
<1>19. CASE ThawOne
  BY <1>19 DEF ThawOne, FiThaw, AnyError
<1>20. CASE ThawVmSync
  BY <1>20 DEF ThawVmSync
<1>21. CASE ThawDone
  BY <1>21 DEF ThawDone
<1>22. CASE CloseHandle
  BY <1>22 DEF CloseHandle
<1>23. CASE DropInvalid
  BY <1>23 DEF DropInvalid
<1>24. CASE \E f \in Filesystems : OtherFreezes(f)
  BY <1>24 DEF OtherFreezes, driver
<1>25. CASE \E f \in Filesystems : OtherThaws(f)
  BY <1>25 DEF OtherThaws, driver
<1>26. CASE UNCHANGED vars
  BY <1>26 DEF vars, driver
<1> QED
  BY <1>1, <1>2, <1>3, <1>4, <1>5, <1>6, <1>7, <1>8, <1>9, <1>10, <1>11, <1>12, <1>13, <1>14, <1>15, <1>16, <1>17, <1>18, <1>19, <1>20, <1>21, <1>22, <1>23, <1>24, <1>25, <1>26
     DEF Next, LinuxDriver, VmSync, NullDriver, Thawing

\* Every step keeps the handle, the descriptors and the step of the call in line.
LEMMA HandleStep ==
  TypeOK /\ DriverInv /\ [Next]_vars => HandleInv' /\ DescriptorsBalance' /\ FallbackIsClean'
<1> SUFFICES ASSUME TypeOK, DriverInv, [Next]_vars
             PROVE  HandleInv' /\ DescriptorsBalance' /\ FallbackIsClean'
  OBVIOUS
<1> USE DEF TypeOK, Steps, DriverInv, HandleInv, DescriptorsBalance, FallbackIsClean
<1>1. CASE ListFails
  BY <1>1 DEF ListFails
<1>2. CASE NoMemory
  BY <1>2 DEF NoMemory
<1>3. CASE Freeze
  BY <1>3 DEF Freeze
<1>4. CASE SkipPath
  BY <1>4 DEF SkipPath, AtPath, Path
<1>5. CASE FreezePath
  BY <1>5 DEF FreezePath, Freezable, Opened, AtPath, Path
<1>6. CASE IgnorePath
  BY <1>6 DEF IgnorePath, Opened, AtPath, Path, ClosesDescriptor
<1>7. CASE OpenFails
  BY <1>7 DEF OpenFails, AtPath
<1>8. CASE \E errno \in IoctlErrors : IoctlFails(errno)
  BY <1>8 DEF IoctlFails, ErrOf, Opened, AtPath
<1>9. CASE OutOfMemory
  BY <1>9 DEF OutOfMemory, Freezable, Opened, AtPath, Path, ThawedAtOnce
<1>10. CASE LinuxDone
  BY <1>10 DEF LinuxDone
<1>11. CASE Undo
  BY <1>11 DEF Undo, FiThaw
<1>12. CASE UndoDone
  BY <1>12 DEF UndoDone, Undone
<1>13. CASE VmSyncMissing
  BY <1>13 DEF VmSyncMissing
<1>14. CASE VmSyncFreezes
  BY <1>14 DEF VmSyncFreezes, Devices
<1>15. CASE VmSyncFails
  BY <1>15 DEF VmSyncFails
<1>16. CASE NullFreezes
  BY <1>16 DEF NullFreezes
<1>17. CASE NullSkipped
  BY <1>17 DEF NullSkipped
<1>18. CASE Thaw
  BY <1>18 DEF Thaw
<1>19. CASE ThawOne
  BY <1>19 DEF ThawOne, FiThaw, AnyError
<1>20. CASE ThawVmSync
  BY <1>20 DEF ThawVmSync
<1>21. CASE ThawDone
  BY <1>21 DEF ThawDone
<1>22. CASE CloseHandle
  BY <1>22 DEF CloseHandle
<1>23. CASE DropInvalid
  BY <1>23 DEF DropInvalid
<1>24. CASE \E f \in Filesystems : OtherFreezes(f)
  BY <1>24 DEF OtherFreezes, driver
<1>25. CASE \E f \in Filesystems : OtherThaws(f)
  BY <1>25 DEF OtherThaws, driver
<1>26. CASE UNCHANGED vars
  BY <1>26 DEF vars, driver
<1> QED
  BY <1>1, <1>2, <1>3, <1>4, <1>5, <1>6, <1>7, <1>8, <1>9, <1>10, <1>11, <1>12, <1>13, <1>14, <1>15, <1>16, <1>17, <1>18, <1>19, <1>20, <1>21, <1>22, <1>23, <1>24, <1>25, <1>26
     DEF Next, LinuxDriver, VmSync, NullDriver, Thawing

\* No step orphans a frozen filesystem: the two that give descriptors up, UndoDone
\* and CloseHandle, come after a thaw of each.
LEMMA OrphanStep == TypeOK /\ DriverInv /\ [Next]_vars => NothingOrphaned'
<1> SUFFICES ASSUME TypeOK, DriverInv, [Next]_vars
             PROVE  NothingOrphaned'
  OBVIOUS
<1> USE DEF TypeOK, DriverInv, HandleInv, ThawInv, NothingOrphaned, Held
<1>1. CASE ListFails
  BY <1>1 DEF ListFails
<1>2. CASE NoMemory
  BY <1>2 DEF NoMemory
<1>3. CASE Freeze
  BY <1>3 DEF Freeze
<1>4. CASE SkipPath
  BY <1>4 DEF SkipPath, AtPath, Path
<1>5. CASE FreezePath
  BY <1>5 DEF FreezePath, Freezable, Opened, AtPath, Path
<1>6. CASE IgnorePath
  BY <1>6 DEF IgnorePath, Opened, AtPath, Path, ClosesDescriptor
<1>7. CASE OpenFails
  BY <1>7 DEF OpenFails, AtPath
<1>8. CASE \E errno \in IoctlErrors : IoctlFails(errno)
  BY <1>8 DEF IoctlFails, ErrOf, Opened, AtPath
<1>9. CASE OutOfMemory
  BY <1>9 DEF OutOfMemory, Freezable, Opened, AtPath, Path, ThawedAtOnce
<1>10. CASE LinuxDone
  BY <1>10 DEF LinuxDone
<1>11. CASE Undo
  BY <1>11 DEF Undo, FiThaw
<1>12. CASE UndoDone
  BY <1>12 DEF UndoDone, Undone
<1>13. CASE VmSyncMissing
  BY <1>13 DEF VmSyncMissing
<1>14. CASE VmSyncFreezes
  BY <1>14 DEF VmSyncFreezes, Devices
<1>15. CASE VmSyncFails
  BY <1>15 DEF VmSyncFails
<1>16. CASE NullFreezes
  BY <1>16 DEF NullFreezes
<1>17. CASE NullSkipped
  BY <1>17 DEF NullSkipped
<1>18. CASE Thaw
  BY <1>18 DEF Thaw
<1>19. CASE ThawOne
  BY <1>19 DEF ThawOne, FiThaw, AnyError
<1>20. CASE ThawVmSync
  BY <1>20 DEF ThawVmSync
<1>21. CASE ThawDone
  BY <1>21 DEF ThawDone
<1>22. CASE CloseHandle
  BY <1>22 DEF CloseHandle
<1>23. CASE DropInvalid
  BY <1>23 DEF DropInvalid
<1>24. CASE \E f \in Filesystems : OtherFreezes(f)
  BY <1>24 DEF OtherFreezes, driver
<1>25. CASE \E f \in Filesystems : OtherThaws(f)
  BY <1>25 DEF OtherThaws, driver
<1>26. CASE UNCHANGED vars
  BY <1>26 DEF vars, driver
<1> QED
  BY <1>1, <1>2, <1>3, <1>4, <1>5, <1>6, <1>7, <1>8, <1>9, <1>10, <1>11, <1>12, <1>13, <1>14, <1>15, <1>16, <1>17, <1>18, <1>19, <1>20, <1>21, <1>22, <1>23, <1>24, <1>25, <1>26
     DEF Next, LinuxDriver, VmSync, NullDriver, Thawing

\* Every step keeps what is known of the progress of LinuxFiThaw.
LEMMA ThawStep == TypeOK /\ DriverInv /\ [Next]_vars => ThawInv' /\ ThawReportsFailure'
<1> SUFFICES ASSUME TypeOK, DriverInv, [Next]_vars
             PROVE  ThawInv' /\ ThawReportsFailure'
  OBVIOUS
<1> USE DEF TypeOK, DriverInv, HandleInv, ThawInv, NothingOrphaned, ThawReportsFailure, Held
<1>1. CASE ListFails
  BY <1>1 DEF ListFails
<1>2. CASE NoMemory
  BY <1>2 DEF NoMemory
<1>3. CASE Freeze
  BY <1>3 DEF Freeze
<1>4. CASE SkipPath
  BY <1>4 DEF SkipPath, AtPath, Path
<1>5. CASE FreezePath
  BY <1>5 DEF FreezePath, Freezable, Opened, AtPath, Path
<1>6. CASE IgnorePath
  BY <1>6 DEF IgnorePath, Opened, AtPath, Path, ClosesDescriptor
<1>7. CASE OpenFails
  BY <1>7 DEF OpenFails, AtPath
<1>8. CASE \E errno \in IoctlErrors : IoctlFails(errno)
  BY <1>8 DEF IoctlFails, ErrOf, Opened, AtPath
<1>9. CASE OutOfMemory
  BY <1>9 DEF OutOfMemory, Freezable, Opened, AtPath, Path, ThawedAtOnce
<1>10. CASE LinuxDone
  BY <1>10 DEF LinuxDone
<1>11. CASE Undo
  BY <1>11 DEF Undo, FiThaw
<1>12. CASE UndoDone
  BY <1>12 DEF UndoDone, Undone
<1>13. CASE VmSyncMissing
  BY <1>13 DEF VmSyncMissing
<1>14. CASE VmSyncFreezes
  BY <1>14 DEF VmSyncFreezes, Devices
<1>15. CASE VmSyncFails
  BY <1>15 DEF VmSyncFails
<1>16. CASE NullFreezes
  BY <1>16 DEF NullFreezes
<1>17. CASE NullSkipped
  BY <1>17 DEF NullSkipped
<1>18. CASE Thaw
  BY <1>18 DEF Thaw
<1>19. CASE ThawOne
  BY <1>19 DEF ThawOne, FiThaw, AnyError
<1>20. CASE ThawVmSync
  BY <1>20 DEF ThawVmSync
<1>21. CASE ThawDone
  BY <1>21 DEF ThawDone
<1>22. CASE CloseHandle
  BY <1>22 DEF CloseHandle
<1>23. CASE DropInvalid
  BY <1>23 DEF DropInvalid
<1>24. CASE \E f \in Filesystems : OtherFreezes(f)
  BY <1>24 DEF OtherFreezes, driver
<1>25. CASE \E f \in Filesystems : OtherThaws(f)
  BY <1>25 DEF OtherThaws, driver
<1>26. CASE UNCHANGED vars
  BY <1>26 DEF vars, driver
<1> QED
  BY <1>1, <1>2, <1>3, <1>4, <1>5, <1>6, <1>7, <1>8, <1>9, <1>10, <1>11, <1>12, <1>13, <1>14, <1>15, <1>16, <1>17, <1>18, <1>19, <1>20, <1>21, <1>22, <1>23, <1>24, <1>25, <1>26
     DEF Next, LinuxDriver, VmSync, NullDriver, Thawing

\* One step, all together.
LEMMA DriverStep == TypeOK /\ DriverInv /\ [Next]_vars => (TypeOK /\ DriverInv)'
  BY TypeStep, HandleStep, OrphanStep, ThawStep DEF DriverInv

------------------------------------------------------------------------------
(* The theorems.                                                             *)

\* The variables of the sync driver library keep their types; in particular no
\* descriptor is closed more often than it was opened.
THEOREM DriverTypeCorrect == Spec => []TypeOK
  BY InitInv, DriverStep, PTL DEF Spec

\* The inductive invariant of SyncDriver_Freeze, Thaw and CloseHandle.
THEOREM DriverInvariant == Spec => []DriverInv
  BY InitInv, DriverStep, PTL DEF Spec

\* SyncDriver_Freeze leaves nothing frozen that no descriptor and no handle can
\* thaw, whichever mount fails and in whichever way.
THEOREM OrphanTheorem == Spec => []NothingOrphaned
<1>1. DriverInv => NothingOrphaned
  BY DEF DriverInv
<1> QED BY <1>1, DriverInvariant, PTL

\* Every path through LinuxDriver_Freeze and the other backends balances open()
\* with close().
THEOREM DescriptorTheorem == Spec => []DescriptorsBalance
<1>1. DriverInv => DescriptorsBalance
  BY DEF DriverInv
<1> QED BY <1>1, DriverInvariant, PTL

\* SyncDriver_Freeze goes on to the next backend only if nothing is frozen yet.
THEOREM FallbackTheorem == Spec => []FallbackIsClean
<1>1. DriverInv => FallbackIsClean
  BY DEF DriverInv
<1> QED BY <1>1, DriverInvariant, PTL

\* SyncDriver_Thaw returns TRUE only if every filesystem of the handle is thawed.
THEOREM ThawTheorem == Spec => []ThawReportsFailure
<1>1. DriverInv => ThawReportsFailure
  BY DEF DriverInv
<1> QED BY <1>1, DriverInvariant, PTL

=============================================================================
