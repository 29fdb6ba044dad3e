--------------------------- MODULE VmBackupProofs ---------------------------
(* Proofs about VmBackup, for any number of backups and any set of addresses. *)
EXTENDS VmBackup, TLAPS

USE AddrsAssumption, MaxBackupsAssumption

------------------------------------------------------------------------------
(* Type correctness.                                                         *)

\* Releasing an operation keeps the handle cells in their type.
LEMMA ReleaseType ==
  TypeOK /\ ReleaseOp => cell' \in [Backups -> {"none", "live", "invalid", "freed"}]
  BY DEF TypeOK, ReleaseOp

\* An event of the protocol keeps the history and the sources in their types.
LEMMA SendType ==
  ASSUME TypeOK, NEW e, NEW k, e \subseteq Events, k \subseteq Sources, SendEvent(e, k)
  PROVE  sent' \subseteq Events /\ attached' \subseteq Sources
  BY DEF TypeOK, SendEvent, Sources

\* So do the two outcomes of starting scripts.
LEMMA ScriptsType ==
  ASSUME TypeOK, NEW type \in ScriptOps, NEW state \in MStates, NEW exec,
         StartScripts(type, state, exec)
  PROVE  /\ machineState' \in MStates /\ undo' \in {"none", "started", "failed"}
         /\ currentOp' \in OpKinds /\ opTask' \in 0..MaxBackups
         /\ opProc' \in {"absent", "running", "ended"}
         /\ callback' \in {"NULL", "ready"} /\ forceRequeue' \in {0, 1}
  BY DEF TypeOK, StartScripts, SetCurrentOp, OpKinds, ScriptOps, opVars

LEMMA ScriptsFailType ==
  ASSUME TypeOK, ScriptsDontStart
  PROVE  /\ undo' \in {"none", "started", "failed"}
         /\ currentOp' \in OpKinds /\ opTask' \in 0..MaxBackups
         /\ opProc' \in {"absent", "running", "ended"}
         /\ callback' \in {"NULL", "ready"} /\ forceRequeue' \in {0, 1}
  BY DEF TypeOK, ScriptsDontStart, SetCurrentOp, OpKinds

\* Every step keeps the variables in their types.
LEMMA TypeStep == TypeOK /\ [Next]_vars => TypeOK'
<1> SUFFICES ASSUME TypeOK, [Next]_vars PROVE TypeOK'
  OBVIOUS
<1> USE DEF TypeOK, history, birth, workers, opVars
<1>1. CASE Start
  <2>1. /\ gBackupState' \in Addrs \cup {NULL}
        /\ addr' \in [Backups -> Addrs \cup {NULL}]
        /\ provider' \in [Backups -> {"driver", "null"}]
    BY <1>1, ZenonT(60) DEF Start
  <2>2. backups' \in 0..MaxBackups /\ execScripts' \subseteq Backups
    BY <1>1 DEF Start, Backups
  <2>3. sent' \subseteq Events /\ attached' \subseteq Sources
    BY <1>1 DEF Start, Sources, Events
  <2>4. StartScripts("freeze", "SCRIPT_FREEZE", backups + 1 \in execScripts')
    BY <1>1 DEF Start
  <2> QED BY <1>1, <2>1, <2>2, <2>3, <2>4, ScriptsType DEF Start, ScriptOps, MStates
<1>2. CASE StartFails
  BY <1>2 DEF StartFails, Events
<1>3. CASE AsyncCallback
  <2>1. CASE QueryStatus
    BY <2>1, ZenonT(90) DEF QueryStatus, SendEvent, MainSteps, OpKinds, ScriptOps, Sources, Events
  <2>2. CASE OpPending
    BY <2>2 DEF OpPending, MainSteps
  <2>3. CASE OpFinished
    BY <2>3, ReleaseType DEF OpFinished, ForgetOp, MainSteps, OpKinds, ScriptOps
  <2>4. CASE OpFailed
    BY <2>4, ReleaseType DEF OpFailed, ForgetOp, SendEvent, MainSteps, OpKinds, ScriptOps,
                             Sources, Events
  <2>5. CASE ReadyForSnapshot
    BY <2>5, ZenonT(60) DEF ReadyForSnapshot, SendEvent, MainSteps, Sources, Events
  <2>6. CASE EnableSyncWait
    BY <2>6, ZenonT(40) DEF EnableSyncWait, SendEvent, MStates, MainSteps, TaskStates, Sources, Events
  <2>7. CASE EnableSync
    <3>1. CASE freezeStatus = "ERROR"
      BY <2>7, <3>1 DEF EnableSync, SendEvent, MainSteps, Sources, Events
    <3>2. CASE freezeStatus # "ERROR"
      BY <2>7, <3>2 DEF EnableSync, MStates, MainSteps
    <3> QED BY <3>1, <3>2
  <2>8. CASE WaitForSnapshot
    BY <2>8 DEF WaitForSnapshot, MainSteps
  <2>9. CASE LeaveSyncThaw
    <3>1. CASE ScriptsDontStart /\ SendEvent({"ERROR"}, attached) /\ UNCHANGED machineState
      BY <2>9, <3>1, ScriptsFailType DEF LeaveSyncThaw, SendEvent, MainSteps, Sources, Events
    <3>2. CASE /\ StartScripts("thaw", "SCRIPT_THAW", backups \in execScripts)
               /\ UNCHANGED <<sent, attached>>
      BY <2>9, <3>2, ScriptsType DEF LeaveSyncThaw, ScriptOps, MStates, MainSteps
    <3> QED BY <2>9, <3>1, <3>2 DEF LeaveSyncThaw
  <2>10. CASE LeaveSyncError
    <3>1. CASE ScriptsDontStart /\ SendEvent({"ERROR"}, attached) /\ UNCHANGED machineState
      BY <2>10, <3>1, ScriptsFailType DEF LeaveSyncError, SendEvent, MainSteps, Sources, Events
    <3>2. CASE /\ StartScripts("freezeFail", "SCRIPT_ERROR", backups \in execScripts)
               /\ UNCHANGED <<sent, attached>>
      BY <2>10, <3>2, ScriptsType DEF LeaveSyncError, ScriptOps, MStates, MainSteps
    <3> QED BY <2>10, <3>1, <3>2 DEF LeaveSyncError
  <2>11. CASE ScriptsOver
    BY <2>11 DEF ScriptsOver, MStates, MainSteps
  <2>12. CASE Requeue
    BY <2>12 DEF Requeue, MainSteps, Sources
  <2> QED BY <1>3, <2>1, <2>2, <2>3, <2>4, <2>5, <2>6, <2>7, <2>8, <2>9, <2>10,
             <2>11, <2>12 DEF AsyncCallback
<1>4. CASE OnError
  <2>1. CASE OnErrorScripts
    <3>1. CASE ScriptsDontStart /\ SendEvent({"ERROR"}, attached) /\ machineState' = "IDLE"
      BY <2>1, <3>1, ScriptsFailType
         DEF OnErrorScripts, AfterOnError, SendEvent, MStates, MainSteps, Sources, Events
    <3>2. CASE /\ StartScripts("freezeFail", "SCRIPT_ERROR", backups \in execScripts)
               /\ UNCHANGED <<sent, attached>>
      BY <2>1, <3>2, ScriptsType DEF OnErrorScripts, AfterOnError, ScriptOps, MStates, MainSteps
    <3> QED BY <2>1, <3>1, <3>2 DEF OnErrorScripts
  <2>2. CASE OnErrorSync
    BY <2>2 DEF OnErrorSync, AfterOnError, MStates, MainSteps
  <2>3. CASE OnErrorThaw
    BY <2>3 DEF OnErrorThaw, AfterOnError, MStates, MainSteps
  <2>4. CASE OnErrorUnexpected
    BY <2>4 DEF OnErrorUnexpected, Crash, MainSteps
  <2> QED BY <1>4, <2>1, <2>2, <2>3, <2>4 DEF OnError
<1>5. CASE Finalize
  BY <1>5, ReleaseType DEF Finalize, SetCurrentOp, MStates, MainSteps, OpKinds, ScriptOps,
                           Sources, Events
<1>6. CASE Abort
  BY <1>6, ReleaseType DEF Abort, DoAbort, ForgetOp, SendEvent, MainSteps, OpKinds,
                           ScriptOps, Sources, Events
<1>7. CASE AbortTimer
  <2>1. CASE DoAbort(attached \ {"abortTimer"})
    BY <2>1, ReleaseType DEF DoAbort, ForgetOp, SendEvent, MainSteps, OpKinds,
                             ScriptOps, Sources, Events
  <2>2. CASE ~DoAbort(attached \ {"abortTimer"})
    BY <1>7, <2>2 DEF AbortTimer
  <2> QED BY <2>1, <2>2
<1>8. CASE SnapshotDone
  BY <1>8 DEF SnapshotDone, ThawedBy, SetCurrentOp, MStates, OpKinds
<1>9. CASE SnapshotDoneFails
  <2>1. cell' \in [Backups -> {"none", "live", "invalid", "freed"}]
    BY <1>9 DEF SnapshotDoneFails
  <2>2. sent' \subseteq Events /\ attached' \subseteq Sources
    BY <1>9 DEF SnapshotDoneFails, SendEvent, Events, Sources
  <2> QED BY <1>9, <2>1, <2>2 DEF SnapshotDoneFails, SetCurrentOp, MainSteps, OpKinds
<1>10. CASE KeepAlive
  BY <1>10 DEF KeepAlive, SendEvent, Sources
<1>11. CASE Shutdown
  BY <1>11 DEF Shutdown, MainSteps, TaskStates
<1>12. CASE UnloadPlugins
  BY <1>12 DEF UnloadPlugins, MainSteps
<1>13. ASSUME NEW b \in Backups, Task(b) PROVE TypeOK'
  <2> USE DEF mainVars, TaskStep
  <2>1. CASE RunTask(b)
    BY <2>1 DEF RunTask, TaskStates, Running
  <2>2. CASE Freeze(b)
    <3>1. cell' \in [Backups -> {"none", "live", "invalid", "freed"}] /\ frozen' \in 0..MaxBackups
      BY <2>2 DEF Freeze, Backups
    <3>2. wpc' \in [Backups -> TaskStates]
      BY <2>2 DEF Freeze, TaskStates, Running
    <3> QED BY <2>2, <3>1, <3>2 DEF Freeze
  <2>3. CASE Publish(b)
    BY <2>3 DEF Publish, TaskStates, Running, Backups
  <2>4. CASE SetFreezeOp(b)
    BY <2>4 DEF SetFreezeOp, SetCurrentOp, TaskStates, Backups, OpKinds
  <2>5. CASE NullSetOp(b)
    BY <2>5 DEF NullSetOp, SetCurrentOp, TaskStates, Running, OpKinds
  <2>6. CASE NullCommit(b)
    BY <2>6, ZenonT(90) DEF NullCommit, SendEvent, TaskStates, Running, Sources, Events
  <2>7. CASE NullStatus(b)
    BY <2>7 DEF NullStatus, TaskStates
  <2> QED BY <1>13, <2>1, <2>2, <2>3, <2>4, <2>5, <2>6, <2>7 DEF Task
<1>14. CASE ScriptsEnd
  BY <1>14 DEF ScriptsEnd
<1>15. CASE Crashes
  <2>1. Crash
    BY <1>15 DEF Crashes, FinalizeCrashes, AbortCrashes, SnapshotDoneCrashes, TaskCrashes
  <2> QED BY <2>1 DEF Crash, MainSteps
<1>16. CASE UNCHANGED vars
  BY <1>16 DEF vars
<1> QED
  BY <1>1, <1>2, <1>3, <1>4, <1>5, <1>6, <1>7, <1>8, <1>9, <1>10, <1>11, <1>12,
     <1>13, <1>14, <1>15, <1>16 DEF Next

\* The initial state is typed.
LEMMA TypeInit == Init => TypeOK
  BY DEF Init, NoState, TypeOK, MStates, OpKinds, MainSteps, TaskStates, Backups

\* The plugin's variables keep their types, however many backups are started.
THEOREM TypeCorrect == Spec => []TypeOK
  BY TypeInit, TypeStep, PTL DEF Spec
------------------------------------------------------------------------------
(* The control invariant.                                                    *)

\* What a step of a pool task leaves alone.
LEMMA TaskFrame ==
  ASSUME NEW b \in Backups, Task(b)
  PROVE  /\ UNCHANGED <<gBackupState, machineState, configCheckTask, pc, undo, backups,
                        execScripts>>
         /\ sent \subseteq sent'
         /\ attached' = attached \/ (Active /\ attached' = attached \cup {"keepAlive"})
  BY DEF Task, RunTask, Freeze, Publish, SetFreezeOp, NullSetOp, NullCommit, NullStatus,
         SendEvent, mainVars, birth

\* A task that has not been submitted, is over or was dropped takes no step.
LEMMA TaskPool ==
  ASSUME TypeOK, NEW b \in Backups, Task(b)
  PROVE  /\ Alive /\ wpc[b] \in Running \cup {"queued"}
         /\ \A c \in Backups : wpc'[c] = "queued" => wpc[c] = "queued"
  BY DEF Task, RunTask, Freeze, Publish, SetFreezeOp, NullSetOp, NullCommit, NullStatus,
         TaskStep, Running, TypeOK

\* Every way to crash leaves everything but pc as it was.
LEMMA CrashFrame == Crashes => Crash
  BY DEF Crashes, FinalizeCrashes, AbortCrashes, SnapshotDoneCrashes, TaskCrashes

\* The sources and the state object stay in step, handler by handler.
LEMMA SourcesStep ==
  ASSUME TypeOK, SourcesInv, [Next]_vars PROVE SourcesInv'
<1> USE DEF SourcesInv, Active, InHandler, Dispatching, Sources
<1>1. CASE Start
  BY <1>1 DEF Start, StartScripts
<1>2. CASE StartFails
  BY <1>2 DEF StartFails
<1>3. CASE QueryStatus
  BY <1>3 DEF QueryStatus, SendEvent
<1>4. CASE OpPending
  BY <1>4 DEF OpPending
<1>5. CASE OpFinished
  BY <1>5 DEF OpFinished
<1>6. CASE OpFailed
  BY <1>6 DEF OpFailed, SendEvent
<1>7. CASE ReadyForSnapshot
  BY <1>7 DEF ReadyForSnapshot, SendEvent
<1>8. CASE EnableSyncWait
  BY <1>8 DEF EnableSyncWait, MoveOnFrom, SendEvent
<1>9. CASE EnableSync
  BY <1>9 DEF EnableSync, FreezeIsOver, MoveOnFrom, SendEvent
<1>10. CASE WaitForSnapshot
  BY <1>10 DEF WaitForSnapshot, MoveOnFrom
<1>11. CASE LeaveSyncThaw
  BY <1>11 DEF LeaveSyncThaw, MoveOnFrom, StartScripts, ScriptsDontStart, SendEvent
<1>12. CASE LeaveSyncError
  BY <1>12 DEF LeaveSyncError, MoveOnFrom, StartScripts, ScriptsDontStart, SendEvent
<1>13. CASE ScriptsOver
  BY <1>13 DEF ScriptsOver, MoveOnFrom
<1>14. CASE Requeue
  BY <1>14 DEF Requeue
<1>15. CASE OnErrorScripts
  BY <1>15 DEF OnErrorScripts, InOnError, AfterOnError, StartScripts, ScriptsDontStart,
               SendEvent
<1>16. CASE OnErrorSync
  BY <1>16 DEF OnErrorSync, InOnError, AfterOnError
<1>17. CASE OnErrorThaw
  BY <1>17 DEF OnErrorThaw, InOnError, AfterOnError
<1>18. CASE OnErrorUnexpected
  BY <1>18 DEF OnErrorUnexpected, Crash
<1>19. CASE Finalize
  BY <1>19 DEF Finalize, Finalizing
<1>20. CASE Abort
  BY <1>20 DEF Abort, DoAbort, SendEvent
<1>21. CASE AbortTimer
  BY <1>21 DEF AbortTimer, DoAbort, SendEvent
<1>22. CASE SnapshotDone
  BY <1>22 DEF SnapshotDone, Snapshotting
<1>23. CASE SnapshotDoneFails
  BY <1>23 DEF SnapshotDoneFails, Snapshotting, SendEvent
<1>24. CASE KeepAlive
  BY <1>24 DEF KeepAlive, SendEvent
<1>25. CASE Shutdown
  BY <1>25 DEF Shutdown
<1>26. CASE UnloadPlugins
  BY <1>26 DEF UnloadPlugins
<1>27. CASE ScriptsEnd
  BY <1>27 DEF ScriptsEnd
<1>28. ASSUME NEW b \in Backups, Task(b) PROVE SourcesInv'
  BY <1>28, TaskFrame
<1>29. CASE Crashes
  BY <1>29, CrashFrame DEF Crash
<1>30. CASE UNCHANGED vars
  BY <1>30 DEF vars
<1> QED
  BY <1>1, <1>2, <1>3, <1>4, <1>5, <1>6, <1>7, <1>8, <1>9, <1>10, <1>11, <1>12, <1>13,
     <1>14, <1>15, <1>16, <1>17, <1>18, <1>19, <1>20, <1>21, <1>22, <1>23, <1>24, <1>25,
     <1>26, <1>27, <1>28, <1>29, <1>30 DEF Next, AsyncCallback, OnError

\* The I/O signal follows the state of the machine.
LEMMA IoStep ==
  ASSUME TypeOK, SourcesInv, IoInv, [Next]_vars PROVE IoInv'
<1> USE DEF IoInv, FrozenStates, Dispatching, InHandler, Active, SourcesInv
<1>a. configCheckTask \in {0, 1}
  BY DEF TypeOK
<1>1. CASE Start
  BY <1>1 DEF Start, StartScripts
<1>2. CASE StartFails
  BY <1>2 DEF StartFails
<1>3. CASE QueryStatus
  BY <1>3 DEF QueryStatus, SendEvent
<1>4. CASE OpPending
  BY <1>4 DEF OpPending
<1>5. CASE OpFinished
  BY <1>5 DEF OpFinished
<1>6. CASE OpFailed
  BY <1>6, <1>a DEF OpFailed, SendEvent
<1>7. CASE ReadyForSnapshot
  BY <1>7, <1>a DEF ReadyForSnapshot, SendEvent
<1>8. CASE EnableSyncWait
  BY <1>8 DEF EnableSyncWait, MoveOnFrom, SendEvent
<1>9. CASE EnableSync
  BY <1>9 DEF EnableSync, FreezeIsOver, MoveOnFrom, SendEvent
<1>10. CASE WaitForSnapshot
  BY <1>10 DEF WaitForSnapshot, MoveOnFrom
<1>11. CASE LeaveSyncThaw
  BY <1>11 DEF LeaveSyncThaw, MoveOnFrom, StartScripts, ScriptsDontStart, SendEvent
<1>12. CASE LeaveSyncError
  BY <1>12, <1>a DEF LeaveSyncError, MoveOnFrom, StartScripts, ScriptsDontStart, SendEvent
<1>13. CASE ScriptsOver
  BY <1>13 DEF ScriptsOver, MoveOnFrom
<1>14. CASE Requeue
  BY <1>14 DEF Requeue
<1>15. CASE OnErrorScripts
  BY <1>15 DEF OnErrorScripts, InOnError, AfterOnError, StartScripts, ScriptsDontStart,
               SendEvent
<1>16. CASE OnErrorSync
  BY <1>16 DEF OnErrorSync, InOnError, AfterOnError
<1>17. CASE OnErrorThaw
  BY <1>17 DEF OnErrorThaw, InOnError, AfterOnError
<1>18. CASE OnErrorUnexpected
  BY <1>18 DEF OnErrorUnexpected, Crash
<1>19. CASE Finalize
  BY <1>19 DEF Finalize, Finalizing
<1>20. CASE Abort
  BY <1>20 DEF Abort, DoAbort, SendEvent
<1>21. CASE AbortTimer
  BY <1>21 DEF AbortTimer, DoAbort, SendEvent
<1>22. CASE SnapshotDone
  BY <1>22 DEF SnapshotDone, Snapshotting
<1>23. CASE SnapshotDoneFails
  BY <1>23 DEF SnapshotDoneFails, Snapshotting, SendEvent
<1>24. CASE KeepAlive
  BY <1>24 DEF KeepAlive, SendEvent
<1>25. CASE Shutdown
  BY <1>25 DEF Shutdown
<1>26. CASE UnloadPlugins
  BY <1>26 DEF UnloadPlugins
<1>27. CASE ScriptsEnd
  BY <1>27 DEF ScriptsEnd
<1>28. ASSUME NEW b \in Backups, Task(b) PROVE IoInv'
  BY <1>28, TaskFrame
<1>29. CASE Crashes
  BY <1>29, CrashFrame DEF Crash
<1>30. CASE UNCHANGED vars
  BY <1>30 DEF vars
<1> QED
  BY <1>1, <1>2, <1>3, <1>4, <1>5, <1>6, <1>7, <1>8, <1>9, <1>10, <1>11, <1>12, <1>13,
     <1>14, <1>15, <1>16, <1>17, <1>18, <1>19, <1>20, <1>21, <1>22, <1>23, <1>24, <1>25,
     <1>26, <1>27, <1>28, <1>29, <1>30 DEF Next, AsyncCallback, OnError

\* No error state is entered behind the back of the VMX.
LEMMA ToldStep ==
  ASSUME TypeOK, SourcesInv, ToldInv, [Next]_vars PROVE ToldInv'
<1> USE DEF ToldInv, ErrorStates, Dispatching, Active, SourcesInv, history
<1>1. CASE Start
  BY <1>1 DEF Start, StartScripts
<1>2. CASE StartFails
  BY <1>2 DEF StartFails
<1>3. CASE QueryStatus
  BY <1>3 DEF QueryStatus, SendEvent
<1>4. CASE OpPending
  BY <1>4 DEF OpPending
<1>5. CASE OpFinished
  BY <1>5 DEF OpFinished
<1>6. CASE OpFailed
  BY <1>6 DEF OpFailed, SendEvent
<1>7. CASE ReadyForSnapshot
  BY <1>7 DEF ReadyForSnapshot, SendEvent
<1>8. CASE EnableSyncWait
  BY <1>8 DEF EnableSyncWait, MoveOnFrom, SendEvent
<1>9. CASE EnableSync
  BY <1>9 DEF EnableSync, FreezeIsOver, MoveOnFrom, SendEvent
<1>10. CASE WaitForSnapshot
  BY <1>10 DEF WaitForSnapshot, MoveOnFrom
<1>11. CASE LeaveSyncThaw
  BY <1>11 DEF LeaveSyncThaw, MoveOnFrom, StartScripts, ScriptsDontStart, SendEvent
<1>12. CASE LeaveSyncError
  BY <1>12 DEF LeaveSyncError, MoveOnFrom, StartScripts, ScriptsDontStart, SendEvent
<1>13. CASE ScriptsOver
  BY <1>13 DEF ScriptsOver, MoveOnFrom
<1>14. CASE Requeue
  BY <1>14 DEF Requeue
<1>15. CASE OnErrorScripts
  BY <1>15 DEF OnErrorScripts, InOnError, AfterOnError, StartScripts, ScriptsDontStart,
               SendEvent
<1>16. CASE OnErrorSync
  BY <1>16 DEF OnErrorSync, InOnError, AfterOnError
<1>17. CASE OnErrorThaw
  BY <1>17 DEF OnErrorThaw, InOnError, AfterOnError
<1>18. CASE OnErrorUnexpected
  BY <1>18 DEF OnErrorUnexpected, Crash
<1>19. CASE Finalize
  BY <1>19 DEF Finalize, Finalizing
<1>20. CASE Abort
  BY <1>20 DEF Abort, DoAbort, SendEvent
<1>21. CASE AbortTimer
  BY <1>21 DEF AbortTimer, DoAbort, SendEvent
<1>22. CASE SnapshotDone
  BY <1>22 DEF SnapshotDone, Snapshotting
<1>23. CASE SnapshotDoneFails
  BY <1>23 DEF SnapshotDoneFails, Snapshotting, SendEvent
<1>24. CASE KeepAlive
  BY <1>24 DEF KeepAlive, SendEvent
<1>25. CASE Shutdown
  BY <1>25 DEF Shutdown
<1>26. CASE UnloadPlugins
  BY <1>26 DEF UnloadPlugins
<1>27. CASE ScriptsEnd
  BY <1>27 DEF ScriptsEnd
<1>28. ASSUME NEW b \in Backups, Task(b) PROVE ToldInv'
  BY <1>28, TaskFrame
<1>29. CASE Crashes
  BY <1>29, CrashFrame DEF Crash
<1>30. CASE UNCHANGED vars
  BY <1>30 DEF vars
<1> QED
  BY <1>1, <1>2, <1>3, <1>4, <1>5, <1>6, <1>7, <1>8, <1>9, <1>10, <1>11, <1>12, <1>13,
     <1>14, <1>15, <1>16, <1>17, <1>18, <1>19, <1>20, <1>21, <1>22, <1>23, <1>24, <1>25,
     <1>26, <1>27, <1>28, <1>29, <1>30 DEF Next, AsyncCallback, OnError

\* The pool stays empty once it was shut down.
LEMMA PoolStep ==
  ASSUME TypeOK, PoolInv, [Next]_vars PROVE PoolInv'
<1> USE DEF PoolInv, PoolIdle, Dispatching, Active, workers
<1>1. CASE Start
  BY <1>1 DEF Start, StartScripts
<1>2. CASE StartFails
  BY <1>2 DEF StartFails
<1>3. CASE QueryStatus
  BY <1>3 DEF QueryStatus, SendEvent
<1>4. CASE OpPending
  BY <1>4 DEF OpPending
<1>5. CASE OpFinished
  BY <1>5 DEF OpFinished
<1>6. CASE OpFailed
  BY <1>6 DEF OpFailed, SendEvent
<1>7. CASE ReadyForSnapshot
  BY <1>7 DEF ReadyForSnapshot, SendEvent
<1>8. CASE EnableSyncWait
  BY <1>8 DEF EnableSyncWait, MoveOnFrom, SendEvent
<1>9. CASE EnableSync
  BY <1>9 DEF EnableSync, FreezeIsOver, MoveOnFrom, SendEvent
<1>10. CASE WaitForSnapshot
  BY <1>10 DEF WaitForSnapshot, MoveOnFrom
<1>11. CASE LeaveSyncThaw
  BY <1>11 DEF LeaveSyncThaw, MoveOnFrom, StartScripts, ScriptsDontStart, SendEvent
<1>12. CASE LeaveSyncError
  BY <1>12 DEF LeaveSyncError, MoveOnFrom, StartScripts, ScriptsDontStart, SendEvent
<1>13. CASE ScriptsOver
  BY <1>13 DEF ScriptsOver, MoveOnFrom
<1>14. CASE Requeue
  BY <1>14 DEF Requeue
<1>15. CASE OnErrorScripts
  BY <1>15 DEF OnErrorScripts, InOnError, AfterOnError, StartScripts, ScriptsDontStart,
               SendEvent
<1>16. CASE OnErrorSync
  BY <1>16 DEF OnErrorSync, InOnError, AfterOnError
<1>17. CASE OnErrorThaw
  BY <1>17 DEF OnErrorThaw, InOnError, AfterOnError
<1>18. CASE OnErrorUnexpected
  BY <1>18 DEF OnErrorUnexpected, Crash
<1>19. CASE Finalize
  BY <1>19 DEF Finalize, Finalizing
<1>20. CASE Abort
  BY <1>20 DEF Abort, DoAbort, SendEvent
<1>21. CASE AbortTimer
  BY <1>21 DEF AbortTimer, DoAbort, SendEvent
<1>22. CASE SnapshotDone
  BY <1>22 DEF SnapshotDone, Snapshotting
<1>23. CASE SnapshotDoneFails
  BY <1>23 DEF SnapshotDoneFails, Snapshotting, SendEvent
<1>24. CASE KeepAlive
  BY <1>24 DEF KeepAlive, SendEvent
<1>25. CASE Shutdown
  BY <1>25 DEF Shutdown
<1>26. CASE UnloadPlugins
  BY <1>26 DEF UnloadPlugins
<1>27. CASE ScriptsEnd
  BY <1>27 DEF ScriptsEnd
<1>28. ASSUME NEW b \in Backups, Task(b) PROVE PoolInv'
  BY <1>28, TaskFrame, TaskPool DEF Alive, Running
<1>29. CASE Crashes
  BY <1>29, CrashFrame DEF Crash
<1>30. CASE UNCHANGED vars
  BY <1>30 DEF vars
<1> QED
  BY <1>1, <1>2, <1>3, <1>4, <1>5, <1>6, <1>7, <1>8, <1>9, <1>10, <1>11, <1>12, <1>13,
     <1>14, <1>15, <1>16, <1>17, <1>18, <1>19, <1>20, <1>21, <1>22, <1>23, <1>24, <1>25,
     <1>26, <1>27, <1>28, <1>29, <1>30 DEF Next, AsyncCallback, OnError

\* A backup comes to its end through the scripts that undo its freeze scripts.
LEMMA UndoneStep ==
  ASSUME TypeOK, SourcesInv, UndoneInv, [Next]_vars PROVE UndoneInv'
<1> USE DEF UndoneInv, Undone, Dispatching, Active, InHandler, SourcesInv, history, birth
<1>1. CASE Start
  BY <1>1 DEF Start, StartScripts
<1>2. CASE StartFails
  BY <1>2 DEF StartFails
<1>3. CASE QueryStatus
  BY <1>3 DEF QueryStatus, SendEvent
<1>4. CASE OpPending
  BY <1>4 DEF OpPending
<1>5. CASE OpFinished
  BY <1>5 DEF OpFinished
<1>6. CASE OpFailed
  BY <1>6 DEF OpFailed, SendEvent
<1>7. CASE ReadyForSnapshot
  BY <1>7 DEF ReadyForSnapshot, SendEvent
<1>8. CASE EnableSyncWait
  BY <1>8 DEF EnableSyncWait, MoveOnFrom, SendEvent
<1>9. CASE EnableSync
  BY <1>9 DEF EnableSync, FreezeIsOver, MoveOnFrom, SendEvent
<1>10. CASE WaitForSnapshot
  BY <1>10 DEF WaitForSnapshot, MoveOnFrom
<1>11. CASE LeaveSyncThaw
  BY <1>11 DEF LeaveSyncThaw, MoveOnFrom, StartScripts, ScriptsDontStart, SendEvent
<1>12. CASE LeaveSyncError
  BY <1>12 DEF LeaveSyncError, MoveOnFrom, StartScripts, ScriptsDontStart, SendEvent
<1>13. CASE ScriptsOver
  BY <1>13 DEF ScriptsOver, MoveOnFrom
<1>14. CASE Requeue
  BY <1>14 DEF Requeue
<1>15. CASE OnErrorScripts
  BY <1>15 DEF OnErrorScripts, InOnError, AfterOnError, StartScripts, ScriptsDontStart,
               SendEvent
<1>16. CASE OnErrorSync
  BY <1>16 DEF OnErrorSync, InOnError, AfterOnError
<1>17. CASE OnErrorThaw
  BY <1>17 DEF OnErrorThaw, InOnError, AfterOnError
<1>18. CASE OnErrorUnexpected
  BY <1>18 DEF OnErrorUnexpected, Crash
<1>19. CASE Finalize
  BY <1>19 DEF Finalize, Finalizing
<1>20. CASE Abort
  BY <1>20 DEF Abort, DoAbort, SendEvent
<1>21. CASE AbortTimer
  BY <1>21 DEF AbortTimer, DoAbort, SendEvent
<1>22. CASE SnapshotDone
  BY <1>22 DEF SnapshotDone, Snapshotting
<1>23. CASE SnapshotDoneFails
  BY <1>23 DEF SnapshotDoneFails, Snapshotting, SendEvent
<1>24. CASE KeepAlive
  BY <1>24 DEF KeepAlive, SendEvent
<1>25. CASE Shutdown
  BY <1>25 DEF Shutdown
<1>26. CASE UnloadPlugins
  BY <1>26 DEF UnloadPlugins
<1>27. CASE ScriptsEnd
  BY <1>27 DEF ScriptsEnd
<1>28. ASSUME NEW b \in Backups, Task(b) PROVE UndoneInv'
  BY <1>28, TaskFrame
<1>29. CASE Crashes
  BY <1>29, CrashFrame DEF Crash
<1>30. CASE UNCHANGED vars
  BY <1>30 DEF vars
<1> QED
  BY <1>1, <1>2, <1>3, <1>4, <1>5, <1>6, <1>7, <1>8, <1>9, <1>10, <1>11, <1>12, <1>13,
     <1>14, <1>15, <1>16, <1>17, <1>18, <1>19, <1>20, <1>21, <1>22, <1>23, <1>24, <1>25,
     <1>26, <1>27, <1>28, <1>29, <1>30 DEF Next, AsyncCallback, OnError

\* The control invariant holds initially.
LEMMA ControlInit == Init => ControlInv
  BY DEF Init, NoState, ControlInv, SourcesInv, IoInv, ToldInv, PoolInv, UndoneInv, Undone,
         Active, InHandler, FrozenStates, ErrorStates, PoolIdle, Backups

\* In every reachable state the parts of the plugin agree about how far the
\* backup is: the inductive invariant behind the theorems below.
THEOREM ControlInvariant == Spec => []ControlInv
<1>1. Init => TypeOK /\ ControlInv
  BY TypeInit, ControlInit
<1>2. TypeOK /\ ControlInv /\ [Next]_vars => TypeOK' /\ ControlInv'
  BY TypeStep, SourcesStep, IoStep, ToldStep, PoolStep, UndoneStep DEF ControlInv
<1> QED BY <1>1, <1>2, PTL DEF Spec

\* Between two dispatches the poll and keep-alive timers of VmBackupState are
\* attached exactly while a backup is active, and no timer outlives its backup.
THEOREM SourcesTheorem == Spec => []SourcesFollowBackup
<1>1. ControlInv => SourcesFollowBackup
  BY DEF ControlInv, SourcesInv, SourcesFollowBackup, AtRest, Active
<1> QED BY <1>1, ControlInvariant, PTL

\* The daemon's configuration check and log are muted exactly while the backup is
\* between the submission of the freeze and the end of the thaw or the error.
THEOREM IoTheorem == Spec => []IoFollowsState
<1>1. ControlInv => IoFollowsState
  BY DEF ControlInv, IoInv, IoFollowsState, AtRest
<1> QED BY <1>1, ControlInvariant, PTL

\* Once the plugins are unloaded no pool thread runs their code.
THEOREM QuietTheorem == Spec => []QuietAfterStop
<1>1. ControlInv => QuietAfterStop
  BY DEF ControlInv, PoolInv, QuietAfterStop, PoolIdle
<1> QED BY <1>1, ControlInvariant, PTL

------------------------------------------------------------------------------
(* The plugin implements the protocol of its README.                         *)

\* Every step of the plugin is a step of the protocol, or none.
LEMMA ProtocolStep ==
  ASSUME TypeOK, ControlInv, [Next]_vars
  PROVE  [P!PNext]_<<machineState, Active, sent, Going>>
<1> USE DEF P!PNext, P!Bad, Active, Going, Dispatching
<1>a. SourcesInv /\ ToldInv
  BY DEF ControlInv
<1>1. CASE Start
  BY <1>1 DEF Start, StartScripts, P!Begin
<1>2. CASE StartFails
  BY <1>2 DEF StartFails, P!Refuse
<1>3. CASE QueryStatus
  <2>1. Active
    BY <1>3, <1>a DEF QueryStatus, SourcesInv
  <2> QED BY <1>3, <2>1 DEF QueryStatus, SendEvent, P!Report
<1>4. CASE OpPending
  BY <1>4 DEF OpPending, history
<1>5. CASE OpFinished
  BY <1>5 DEF OpFinished, history
<1>6. CASE OpFailed
  BY <1>6, <1>a DEF OpFailed, SendEvent, SourcesInv, InHandler, P!Report
<1>7. CASE ReadyForSnapshot
  <2>0. pc = "callbacks" /\ pc' \in {"exit", "callbacks", "onError"}
    BY <1>7 DEF ReadyForSnapshot
  <2>1. Going' = Going
    BY <2>0
  <2> HIDE DEF Going
  <2> QED BY <1>7, <1>a, <2>1 DEF ReadyForSnapshot, SendEvent, SourcesInv, InHandler, P!Report
<1>8. CASE EnableSyncWait
  BY <1>8, <1>a DEF EnableSyncWait, MoveOnFrom, SendEvent, SourcesInv, InHandler,
                    P!Report, P!Advance, P!SuccessEdges
<1>9. CASE EnableSync
  BY <1>9, <1>a DEF EnableSync, FreezeIsOver, MoveOnFrom, SendEvent, SourcesInv, InHandler,
                    P!Report, P!Advance, P!SuccessEdges
<1>10. CASE WaitForSnapshot
  BY <1>10 DEF WaitForSnapshot, MoveOnFrom, history
<1>11. CASE LeaveSyncThaw
  BY <1>11, <1>a DEF LeaveSyncThaw, MoveOnFrom, StartScripts, ScriptsDontStart, SendEvent,
                     SourcesInv, InHandler, P!Report, P!Advance, P!SuccessEdges
<1>12. CASE LeaveSyncError
  BY <1>12, <1>a DEF LeaveSyncError, MoveOnFrom, StartScripts, ScriptsDontStart, SendEvent,
                     SourcesInv, InHandler, ToldInv, ErrorStates,
                     P!Report, P!Recover, P!ErrorEdges
<1>13. CASE ScriptsOver
  BY <1>13, <1>a DEF ScriptsOver, MoveOnFrom, SourcesInv, InHandler, ToldInv, ErrorStates,
                     history, P!Recover, P!ErrorEdges, P!Advance, P!SuccessEdges
<1>14. CASE Requeue
  BY <1>14 DEF Requeue, history
<1>15. CASE OnErrorScripts
  BY <1>15, <1>a DEF OnErrorScripts, InOnError, AfterOnError, StartScripts, ScriptsDontStart, SendEvent,
                     SourcesInv, InHandler, ToldInv, P!Recover, P!ErrorEdges
<1>16. CASE OnErrorSync
  BY <1>16, <1>a DEF OnErrorSync, InOnError, AfterOnError, FrozenStates, SourcesInv, InHandler, ToldInv,
                     history, P!Recover, P!ErrorEdges
<1>17. CASE OnErrorThaw
  BY <1>17, <1>a DEF OnErrorThaw, InOnError, AfterOnError, SourcesInv, InHandler, history,
                     P!Advance, P!SuccessEdges
<1>18. CASE OnErrorUnexpected
  BY <1>18 DEF OnErrorUnexpected, InOnError, Crash, history, P!Quit
<1>19. CASE Finalize
  BY <1>19, <1>a DEF Finalize, Finalizing, SourcesInv, InHandler, P!End, P!Stop
<1>20. CASE Abort
  BY <1>20, <1>a DEF Abort, DoAbort, SendEvent, ErrorStates, P!Cancel, P!Report
<1>21. CASE AbortTimer
  BY <1>21, <1>a DEF AbortTimer, DoAbort, SendEvent, ErrorStates, SourcesInv, history,
                     P!Cancel, P!Report
<1>22. CASE SnapshotDone
  BY <1>22 DEF SnapshotDone, Snapshotting, history, P!Advance, P!SuccessEdges
<1>23. CASE SnapshotDoneFails
  BY <1>23 DEF SnapshotDoneFails, Snapshotting, SendEvent, P!Report
<1>24. CASE KeepAlive
  BY <1>24 DEF KeepAlive, SendEvent
<1>25. CASE Shutdown
  BY <1>25 DEF Shutdown, history, P!Quit
<1>26. CASE UnloadPlugins
  BY <1>26 DEF UnloadPlugins, history
<1>27. CASE ScriptsEnd
  BY <1>27 DEF ScriptsEnd, history
<1>28. ASSUME NEW b \in Backups, Task(b) PROVE [P!PNext]_<<machineState, Active, sent, Going>>
  <2>1. CASE NullCommit(b)
    BY <2>1 DEF NullCommit, SendEvent, mainVars, P!Report
  <2>2. CASE ~NullCommit(b)
    BY <1>28, <2>2 DEF Task, RunTask, Freeze, Publish, SetFreezeOp, NullSetOp, NullStatus,
                       mainVars
  <2> QED BY <2>1, <2>2
<1>29. CASE Crashes
  BY <1>29, CrashFrame DEF Crash, history, P!Quit
<1>30. CASE UNCHANGED vars
  BY <1>30 DEF vars, history
<1> QED
  BY <1>1, <1>2, <1>3, <1>4, <1>5, <1>6, <1>7, <1>8, <1>9, <1>10, <1>11, <1>12, <1>13,
     <1>14, <1>15, <1>16, <1>17, <1>18, <1>19, <1>20, <1>21, <1>22, <1>23, <1>24, <1>25,
     <1>26, <1>27, <1>28, <1>29, <1>30 DEF Next, AsyncCallback, OnError

\* The plugin implements BackupProtocol: phases in order, RESET first and DONE
\* last, no error state before the VMX was told, for any number of backups and
\* any reuse of freed state objects by late pool threads.
THEOREM ProtocolTheorem == Spec => Protocol
<1>1. Init => P!PInit
  BY DEF Init, NoState, Active, Going, P!PInit
<1>2. TypeOK /\ ControlInv /\ [Next]_vars => [P!PNext]_<<machineState, Active, sent, Going>>
  BY ProtocolStep
<1> QED
  BY <1>1, <1>2, TypeCorrect, ControlInvariant, PTL DEF Spec, Protocol, P!PSpec, P!pvars

------------------------------------------------------------------------------
(* The freeze scripts are undone.                                            *)

\* A backup that ran its freeze scripts does not end, short of a shutdown or a
\* crash, before its thaw or freezeFail scripts were started, or the last attempt
\* to start them failed and the VMX was sent an ERROR; an error of another kind
\* does not count.
THEOREM ScriptsTheorem == Spec => ScriptsAreUndone
<1> DEFINE A == Active /\ gBackupState' = NULL /\ pc # "lastFinalize" /\ backups \in execScripts
                  => Undone
<1>1. TypeOK /\ ControlInv /\ [Next]_vars => [A]_vars
  <2> SUFFICES ASSUME TypeOK, ControlInv, [Next]_vars, Active, gBackupState' = NULL,
                      pc # "lastFinalize"
               PROVE  Undone
    OBVIOUS
  <2>1. Finalize
    <3>1. ~Start /\ ~StartFails
      BY DEF Start, StartFails
    <3>2. ~AsyncCallback
      BY DEF Active, AsyncCallback, QueryStatus, OpPending, OpFinished, OpFailed,
             ReadyForSnapshot, EnableSyncWait, EnableSync, WaitForSnapshot, LeaveSyncThaw,
             LeaveSyncError, ScriptsOver, Requeue
    <3>3. ~OnError /\ ~Crashes
      BY CrashFrame DEF Active, OnError, OnErrorScripts, OnErrorSync, OnErrorThaw,
                        OnErrorUnexpected, Crash
    <3>4. \A b \in Backups : ~Task(b)
      BY TaskFrame DEF Active
    <3>5. ~Abort /\ ~AbortTimer /\ ~SnapshotDone /\ ~SnapshotDoneFails /\ ~KeepAlive
          /\ ~Shutdown /\ ~UnloadPlugins /\ ~ScriptsEnd
      BY DEF Active, Abort, AbortTimer, DoAbort, SnapshotDone, SnapshotDoneFails, KeepAlive,
             Shutdown, UnloadPlugins, ScriptsEnd
    <3>6. ~UNCHANGED vars
      BY DEF Active, vars
    <3> QED BY <3>1, <3>2, <3>3, <3>4, <3>5, <3>6 DEF Next
  <2>2. machineState = "IDLE"
    BY <2>1 DEF Finalize, Finalizing, ControlInv, SourcesInv
  <2> QED BY <2>2 DEF ControlInv, UndoneInv
<1> QED
  BY <1>1, TypeCorrect, ControlInvariant, PTL DEF Spec, ScriptsAreUndone
------------------------------------------------------------------------------
(* The freeze, the COMMIT and the thaw.                                      *)

\* No pool task that is inside its provider's start was given a state object whose
\* address now belongs to a later backup.
NoneInherited == \A b \in Backups : wpc[b] \in Running /\ Lands(b) => b = backups

\* What a backup and its own pool task know of each other.  Only what the task
\* froze can be frozen for it, and only a task of the sync driver freezes.
TaskInv ==
  /\ \A b \in Backups : b > backups => wpc[b] = "none"
  /\ \A b \in Backups : wpc[b] = "freeze" \/ frozen = b => provider[b] = "driver"
  /\ \A b \in Backups : frozen = b => wpc[b] \in {"publish", "setop", "done"}
  /\ \A b \in Backups : wpc[b] # "none" => addr[b] # NULL
  /\ Active => backups # 0 /\ addr[backups] = gBackupState /\ clientData \in {0, backups}
  /\ ~Active => clientData = 0 /\ callback = "NULL"

\* Why a COMMIT precedes the thaw and the thaw undoes the freeze: the ready
\* callback and freezeStatus only speak of a task that is over, and a status of
\* FINISHED in SYNC_FREEZE_WAIT of a COMMIT that was delivered.
CommitInv ==
  Active =>
    /\ machineState = "SCRIPT_FREEZE" => wpc[backups] = "none"
    /\ callback = "ready" => wpc[backups] = "done"
    /\ wpc[backups] = "nullOk" => "COMMIT" \in sent
    /\ machineState = "SYNC_FREEZE_WAIT" /\ FreezeIsOver
         => "COMMIT" \in sent /\ wpc[backups] = "done"
    /\ machineState \in {"SYNC_FREEZE", "SYNC_THAW", "SCRIPT_THAW"}
         => "COMMIT" \in sent /\ wpc[backups] = "done"
    /\ machineState \in {"SYNC_THAW", "SCRIPT_THAW"} => frozen # backups

\* A task of another backup does not write into the state object.
LEMMA OtherTask ==
  ASSUME NoneInherited, NEW b \in Backups, b # backups, Task(b)
  PROVE  UNCHANGED <<callback, freezeStatus, clientData>>
  BY DEF NoneInherited, Task, RunTask, Freeze, Publish, SetFreezeOp, NullSetOp, NullCommit,
         NullStatus, TaskStep, Running, opVars

\* A backup and its task stay together.
LEMMA TaskStays ==
  ASSUME TypeOK, NoneInherited, SourcesInv, TaskInv, CommitInv, [Next]_vars PROVE TaskInv'
<1> USE DEF TaskInv, TypeOK, Active, Backups, opVars, birth, workers
<1>1. CASE Start
  BY <1>1 DEF Start, StartScripts
<1>2. CASE StartFails
  BY <1>2 DEF StartFails
<1>3. CASE QueryStatus
  BY <1>3 DEF QueryStatus
<1>4. CASE OpPending
  BY <1>4 DEF OpPending
<1>5. CASE OpFinished
  BY <1>5 DEF OpFinished, ForgetOp
<1>6. CASE OpFailed
  BY <1>6 DEF OpFailed, ForgetOp
<1>7. CASE ReadyForSnapshot
  BY <1>7 DEF ReadyForSnapshot
<1>8. CASE EnableSyncWait
  BY <1>8 DEF EnableSyncWait, MoveOnFrom, SourcesInv, InHandler, CommitInv
<1>9. CASE EnableSync
  BY <1>9 DEF EnableSync, MoveOnFrom
<1>10. CASE WaitForSnapshot
  BY <1>10 DEF WaitForSnapshot, MoveOnFrom
<1>11. CASE LeaveSyncThaw
  BY <1>11 DEF LeaveSyncThaw, MoveOnFrom, SourcesInv, InHandler
<1>12. CASE LeaveSyncError
  BY <1>12 DEF LeaveSyncError, MoveOnFrom, SourcesInv, InHandler
<1>13. CASE ScriptsOver
  BY <1>13 DEF ScriptsOver, MoveOnFrom
<1>14. CASE Requeue
  BY <1>14 DEF Requeue
<1>15. CASE OnErrorScripts
  BY <1>15 DEF OnErrorScripts, InOnError, SourcesInv, InHandler
<1>16. CASE OnErrorSync
  BY <1>16 DEF OnErrorSync
<1>17. CASE OnErrorThaw
  BY <1>17 DEF OnErrorThaw
<1>18. CASE OnErrorUnexpected
  BY <1>18 DEF OnErrorUnexpected, Crash
<1>19. CASE Finalize
  BY <1>19 DEF Finalize, SetCurrentOp
<1>20. CASE Abort
  BY <1>20 DEF Abort, DoAbort, ForgetOp
<1>21. CASE AbortTimer
  BY <1>21 DEF AbortTimer, DoAbort, ForgetOp
<1>22. CASE SnapshotDone
  BY <1>22 DEF SnapshotDone, Snapshotting, ThawedBy
<1>23. CASE SnapshotDoneFails
  BY <1>23 DEF SnapshotDoneFails, Snapshotting
<1>24. CASE KeepAlive
  BY <1>24 DEF KeepAlive
<1>25. CASE Shutdown
  BY <1>25 DEF Shutdown
<1>26. CASE UnloadPlugins
  BY <1>26 DEF UnloadPlugins
<1>27. CASE ScriptsEnd
  BY <1>27 DEF ScriptsEnd
<1>28. ASSUME NEW b \in Backups, Task(b) PROVE TaskInv'
  <2> USE DEF TaskStep, mainVars, birth
  <2>1. CASE RunTask(b)
    BY <2>1 DEF RunTask
  <2>2. CASE Freeze(b)
    BY <2>2 DEF Freeze
  <2>3. CASE Publish(b)
    BY <2>3, OtherTask, <1>28 DEF Publish, Lands
  <2>4. CASE SetFreezeOp(b)
    BY <2>4, OtherTask, <1>28 DEF SetFreezeOp, SetCurrentOp, Lands
  <2>5. CASE NullSetOp(b)
    BY <2>5, OtherTask, <1>28 DEF NullSetOp, SetCurrentOp
  <2>6. CASE NullCommit(b)
    BY <2>6 DEF NullCommit, SendEvent
  <2>7. CASE NullStatus(b)
    BY <2>7, OtherTask, <1>28 DEF NullStatus
  <2> QED BY <1>28, <2>1, <2>2, <2>3, <2>4, <2>5, <2>6, <2>7 DEF Task
<1>29. CASE Crashes
  BY <1>29, CrashFrame DEF Crash
<1>30. CASE UNCHANGED vars
  BY <1>30 DEF vars
<1> QED
  BY <1>1, <1>2, <1>3, <1>4, <1>5, <1>6, <1>7, <1>8, <1>9, <1>10, <1>11, <1>12, <1>13,
     <1>14, <1>15, <1>16, <1>17, <1>18, <1>19, <1>20, <1>21, <1>22, <1>23, <1>24, <1>25,
     <1>26, <1>27, <1>28, <1>29, <1>30 DEF Next, AsyncCallback, OnError

\* What the callback and freezeStatus say stays true.
LEMMA CommitStays ==
  ASSUME TypeOK, NoneInherited, SourcesInv, TaskInv, CommitInv, [Next]_vars PROVE CommitInv'
<1> USE DEF CommitInv, TaskInv, TypeOK, Active, Backups, FreezeIsOver, opVars, history,
            birth, workers
<1>1. CASE Start
  BY <1>1 DEF Start, StartScripts, SetCurrentOp
<1>2. CASE StartFails
  BY <1>2 DEF StartFails
<1>3. CASE QueryStatus
  BY <1>3 DEF QueryStatus, SendEvent
<1>4. CASE OpPending
  BY <1>4 DEF OpPending
<1>5. CASE OpFinished
  BY <1>5 DEF OpFinished, ForgetOp
<1>6. CASE OpFailed
  BY <1>6 DEF OpFailed, SendEvent, ForgetOp
<1>7. CASE ReadyForSnapshot
  BY <1>7 DEF ReadyForSnapshot, SendEvent
<1>8. CASE EnableSyncWait
  BY <1>8 DEF EnableSyncWait, MoveOnFrom, SendEvent
<1>9. CASE EnableSync
  <2>1. CASE freezeStatus = "ERROR"
    BY <1>9, <2>1 DEF EnableSync, MoveOnFrom, SendEvent
  <2>2. CASE freezeStatus # "ERROR" /\ ~FreezeIsOver
    BY <1>9, <2>2 DEF EnableSync, MoveOnFrom
  <2>3. CASE freezeStatus # "ERROR" /\ FreezeIsOver
    BY <1>9, <2>3 DEF EnableSync, MoveOnFrom
  <2> QED BY <2>1, <2>2, <2>3
<1>10. CASE WaitForSnapshot
  BY <1>10 DEF WaitForSnapshot, MoveOnFrom
<1>11. CASE LeaveSyncThaw
  BY <1>11 DEF LeaveSyncThaw, MoveOnFrom, StartScripts, ScriptsDontStart, SetCurrentOp, SendEvent
<1>12. CASE LeaveSyncError
  BY <1>12 DEF LeaveSyncError, MoveOnFrom, StartScripts, ScriptsDontStart, SetCurrentOp, SendEvent
<1>13. CASE ScriptsOver
  BY <1>13 DEF ScriptsOver, MoveOnFrom
<1>14. CASE Requeue
  BY <1>14 DEF Requeue
<1>15. CASE OnErrorScripts
  BY <1>15 DEF OnErrorScripts, StartScripts, ScriptsDontStart, SetCurrentOp, SendEvent
<1>16. CASE OnErrorSync
  BY <1>16 DEF OnErrorSync
<1>17. CASE OnErrorThaw
  BY <1>17 DEF OnErrorThaw
<1>18. CASE OnErrorUnexpected
  BY <1>18 DEF OnErrorUnexpected, Crash
<1>19. CASE Finalize
  BY <1>19 DEF Finalize
<1>20. CASE Abort
  BY <1>20 DEF Abort, DoAbort, ForgetOp, SendEvent
<1>21. CASE AbortTimer
  BY <1>21 DEF AbortTimer, DoAbort, ForgetOp, SendEvent
<1>22. CASE SnapshotDone
  BY <1>22 DEF SnapshotDone, Snapshotting, ThawedBy, SetCurrentOp
<1>23. CASE SnapshotDoneFails
  BY <1>23 DEF SnapshotDoneFails, Snapshotting, SetCurrentOp, SendEvent
<1>24. CASE KeepAlive
  BY <1>24 DEF KeepAlive, SendEvent
<1>25. CASE Shutdown
  BY <1>25 DEF Shutdown
<1>26. CASE UnloadPlugins
  BY <1>26 DEF UnloadPlugins
<1>27. CASE ScriptsEnd
  BY <1>27 DEF ScriptsEnd
<1>28. ASSUME NEW b \in Backups, Task(b) PROVE CommitInv'
  <2> USE DEF TaskStep, mainVars, birth
  <2>1. CASE RunTask(b)
    BY <2>1 DEF RunTask
  <2>2. CASE Freeze(b)
    BY <2>2 DEF Freeze
  <2>3. CASE Publish(b)
    BY <2>3, OtherTask, <1>28 DEF Publish
  <2>4. CASE SetFreezeOp(b)
    BY <2>4, OtherTask, <1>28 DEF SetFreezeOp
  <2>5. CASE NullSetOp(b)
    BY <2>5, OtherTask, <1>28 DEF NullSetOp, SetCurrentOp
  <2>6. CASE NullCommit(b)
    BY <2>6 DEF NullCommit, SendEvent
  <2>7. CASE NullStatus(b)
    BY <2>7, OtherTask, <1>28 DEF NullStatus
  <2> QED BY <1>28, <2>1, <2>2, <2>3, <2>4, <2>5, <2>6, <2>7 DEF Task
<1>29. CASE Crashes
  BY <1>29, CrashFrame DEF Crash
<1>30. CASE UNCHANGED vars
  BY <1>30 DEF vars
<1> QED
  BY <1>1, <1>2, <1>3, <1>4, <1>5, <1>6, <1>7, <1>8, <1>9, <1>10, <1>11, <1>12, <1>13,
     <1>14, <1>15, <1>16, <1>17, <1>18, <1>19, <1>20, <1>21, <1>22, <1>23, <1>24, <1>25,
     <1>26, <1>27, <1>28, <1>29, <1>30 DEF Next, AsyncCallback, OnError

\* Both parts hold initially.
LEMMA CommitInit == Init => TaskInv /\ CommitInv
  BY DEF Init, NoState, TaskInv, CommitInv, Active, Backups

\* While no late task inherits a state object, what the backup knows of its own
\* pool task is true, at every point where the task can interfere.
LEMMA CommitInvariant == Spec /\ []NoneInherited => [](TaskInv /\ CommitInv)
<1>1. Init => TaskInv /\ CommitInv
  BY CommitInit
<1>2. /\ TypeOK /\ ControlInv /\ NoneInherited /\ TaskInv /\ CommitInv /\ [Next]_vars
      => TaskInv' /\ CommitInv'
  BY TaskStays, CommitStays DEF ControlInv
<1> QED BY <1>1, <1>2, TypeCorrect, ControlInvariant, PTL DEF Spec

\* As long as no pool task outlives its backup into a later one that has its
\* address, the machine leaves SYNC_FREEZE_WAIT on the success path only after a
\* COMMIT that was delivered, for any number of backups.
THEOREM CommitTheorem == Spec /\ []NoneInherited => []CommitPrecedesThaw
<1>1. ControlInv /\ CommitInv => CommitPrecedesThaw
  BY DEF ControlInv, SourcesInv, CommitInv, CommitPrecedesThaw
<1> QED BY <1>1, CommitInvariant, ControlInvariant, PTL

\* Under the same condition a backup that starts its thaw scripts has thawed what
\* it froze, and its pool task is over.
THEOREM ThawedTheorem == Spec /\ []NoneInherited => []ThawedOnSuccess
<1>1. ControlInv /\ CommitInv => ThawedOnSuccess
  BY DEF ControlInv, SourcesInv, CommitInv, ThawedOnSuccess
<1> QED BY <1>1, CommitInvariant, ControlInvariant, PTL

\* With a single backup there is no later one to inherit its state object, so that
\* both hold without the condition.
THEOREM OneBackupTheorem ==
  ASSUME MaxBackups = 1 PROVE Spec => [](CommitPrecedesThaw /\ ThawedOnSuccess)
<1>1. TypeOK /\ TaskInv => NoneInherited
  BY DEF TypeOK, TaskInv, NoneInherited, Backups, Running
<1>2. /\ TypeOK /\ ControlInv /\ TaskInv /\ CommitInv /\ [Next]_vars
      => TaskInv' /\ CommitInv'
  BY <1>1, TaskStays, CommitStays DEF ControlInv
<1>3. ControlInv /\ CommitInv => CommitPrecedesThaw /\ ThawedOnSuccess
  BY DEF ControlInv, SourcesInv, CommitInv, CommitPrecedesThaw, ThawedOnSuccess
<1> QED BY CommitInit, <1>2, <1>3, TypeCorrect, ControlInvariant, PTL DEF Spec
=============================================================================
