----------------------------- MODULE VmBackup -----------------------------
(***************************************************************************)
(* The quiesced-snapshot ("vmbackup") plugin of the tools daemon, Linux     *)
(* build: services/plugins/vmbackup.  Two kinds of threads touch one heap   *)
(* object, VmBackupState:                                                   *)
(*                                                                         *)
(*   - the main loop dispatches RPCs and timers one at a time.  A dispatch  *)
(*     is cut into steps (variable pc) only where a pool thread can get in  *)
(*     between: VmBackupAsyncCallback drops opLock between asking an        *)
(*     operation for its status and acting on the answer;                   *)
(*   - a pool thread runs provider->start, which can block for as long as   *)
(*     the kernel takes to freeze, and then writes into the state object it *)
(*     was given, whether or not that object is still alive.                *)
(*                                                                         *)
(* Each backup submits at most one pool task, so a task is named by the     *)
(* number of its backup.  The fields of a freed VmBackupState keep their    *)
(* initial values here; a write through a dangling pointer lands in the     *)
(* state object that has reused the address, or else crashes the daemon or  *)
(* is lost.                                                                 *)
(***************************************************************************)
EXTENDS Integers, FiniteSets

CONSTANTS
  Addrs,       \* heap addresses a VmBackupState can be allocated at
  NULL,        \* the null pointer
  MaxBackups   \* bound: number of vmbackup.start RPCs accepted

ASSUME AddrsAssumption == Addrs # {} /\ NULL \notin Addrs
ASSUME MaxBackupsAssumption == MaxBackups \in Nat \ {0}

VARIABLES
  gBackupState,  \* address of the live VmBackupState, or NULL
  machineState,  \* VmBackupMState
  currentOp,     \* kind of the VmBackupOp being monitored
  opTask,        \* backup whose sync handle a "driverFreeze" op owns
  opProc,        \* script processes behind a script op
  callback,      \* VmBackupSyncDriverReadyForSnapshot ("ready") or "NULL"
  forceRequeue,  \* 0 or 1
  freezeStatus,  \* VmBackupFreezeStatus
  clientData,    \* backup whose handle cell state->clientData points to, or 0
  attached,      \* main loop sources attached for the backup
  configCheckTask, \* 0 while the daemon believes that I/O is frozen
  pc,            \* where the main thread is
  opStatus,      \* VmBackupAsyncCallback's local variable "status"
  sent,          \* events sent to the VMX since the last RESET
  undo,          \* history: how the last attempt to start freezeFail or thaw scripts went
  backups,       \* number of backups started so far
  execScripts,   \* {the current backup} if it was asked to run the custom scripts
  provider,      \* provider each backup was started with
  addr,          \* address each backup's VmBackupState was allocated at
  wpc,           \* where each backup's pool task is
  cell,          \* the SyncDriverHandle cell each task allocated
  frozen         \* task whose FIFREEZE holds the filesystems, or 0

opVars  == <<currentOp, opTask, opProc, callback, forceRequeue>>
history == <<sent, undo>>
birth   == <<backups, execScripts, provider, addr>>
workers == <<wpc, cell, frozen>>
vars == <<gBackupState, machineState, opVars, freezeStatus, clientData,
          attached, configCheckTask, pc, opStatus, history, birth, workers>>

Backups == 1..MaxBackups

MStates == {"IDLE", "SCRIPT_FREEZE", "SYNC_FREEZE_WAIT", "SYNC_FREEZE",
            "SYNC_THAW", "SCRIPT_THAW", "SCRIPT_ERROR", "SYNC_ERROR"}
ErrorStates  == {"SCRIPT_ERROR", "SYNC_ERROR"}
FrozenStates == {"SYNC_FREEZE_WAIT", "SYNC_FREEZE", "SYNC_THAW"}

ScriptOps == {"freeze", "freezeFail", "thaw"}
\* "driverFreeze" owns its handle until it is queried and becomes "driverFrozen".
OpKinds == ScriptOps \cup {"NULL", "driverFreeze", "driverFrozen", "driverThaw"}

\* "LOST" stands for a COMMIT that could not be delivered.  Of the other events
\* the plugin ignores whether they were: they are in "sent" once it sent them.
Events == {"RESET", "COMMIT", "LOST", "ERROR", "ABORT", "DONE"}

Sources == {"timerEvent", "abortTimer", "keepAlive"}

\* Running: a pool thread is inside the task.
Running == {"freeze", "publish", "setop", "nullSetop", "nullCommit", "nullOk", "nullErr"}
TaskStates == Running \cup {"none", "queued", "done", "dropped"}

\* "exit" is the exit label of VmBackupAsyncCallback; "onError" and "rpcError"
\* are calls of VmBackupOnError made from it and from an RPC or the abort timer.
MainSteps == {"loop", "status", "callbacks", "onError", "exit", "rpcError",
              "finalize", "poolWait", "lastFinalize", "stopped", "crashed"}

TypeOK ==
  /\ gBackupState \in Addrs \cup {NULL}
  /\ machineState \in MStates
  /\ currentOp \in OpKinds
  /\ opTask \in 0..MaxBackups
  /\ opProc \in {"absent", "running", "ended"}
  /\ callback \in {"NULL", "ready"}
  /\ forceRequeue \in {0, 1}
  /\ freezeStatus \in {"PENDING", "FINISHED", "ERROR"}
  /\ clientData \in 0..MaxBackups
  /\ attached \subseteq Sources
  /\ configCheckTask \in {0, 1}
  /\ pc \in MainSteps
  /\ opStatus \in {"PENDING", "FINISHED", "ERROR"}
  /\ sent \subseteq Events
  /\ undo \in {"none", "started", "failed"}
  /\ backups \in 0..MaxBackups
  /\ execScripts \subseteq Backups
  /\ provider \in [Backups -> {"driver", "null"}]
  /\ addr \in [Backups -> Addrs \cup {NULL}]
  /\ wpc \in [Backups -> TaskStates]
  /\ cell \in [Backups -> {"none", "live", "invalid", "freed"}]
  /\ frozen \in 0..MaxBackups

\* The fields of a VmBackupState fresh from g_new0, or free again.
NoState ==
  /\ gBackupState = NULL /\ machineState = "IDLE"
  /\ currentOp = "NULL" /\ opTask = 0 /\ opProc = "absent"
  /\ callback = "NULL" /\ forceRequeue = 0
  /\ freezeStatus = "FINISHED" /\ clientData = 0
  /\ attached = {}

Init ==
  /\ NoState
  /\ configCheckTask = 1 /\ pc = "loop" /\ opStatus = "FINISHED"
  /\ sent = {} /\ undo = "none"
  /\ backups = 0 /\ execScripts = {}
  /\ provider = [b \in Backups |-> "null"]
  /\ addr = [b \in Backups |-> NULL]
  /\ wpc = [b \in Backups |-> "none"]
  /\ cell = [b \in Backups |-> "none"]
  /\ frozen = 0

Active == gBackupState # NULL
Dispatching == pc = "loop"

------------------------------------------------------------------------------
(* What the handlers below have in common.                                   *)

\* VmBackup_SendEvent: tell the VMX, restart the keep-alive timer.  The sources
\* are those that the handler otherwise leaves attached.
SendAnyEvent(events, kept) ==   \* mutant
  /\ sent' = sent \cup events \cup {"KEEP_ALIVE"}
  /\ attached' = kept \cup {"keepAlive"}

SendEvent(events, kept) ==
  /\ sent' = sent \cup events
  /\ attached' = kept \cup {"keepAlive"}

\* VmBackup_SetCurrentOp: takes over, whatever operation was there before.
SetCurrentOp(op, task, proc, cb) ==
  /\ currentOp' = op /\ opTask' = task /\ opProc' = proc
  /\ callback' = cb
  /\ forceRequeue' = IF cb # "NULL" /\ op = "NULL" THEN 1 ELSE 0

\* currentOp = NULL, the rest of the state object as it was.
ForgetOp ==
  /\ currentOp' = "NULL" /\ opTask' = 0 /\ opProc' = "absent"
  /\ UNCHANGED <<callback, forceRequeue>>

\* VmBackup_Release: a driver op that was never queried frees its handle cell,
\* and with it the only way to thaw.
ReleaseOp ==
  cell' = IF currentOp = "driverFreeze" THEN [cell EXCEPT ![opTask] = "freed"] ELSE cell

\* VmBackup_Cancel on a script op whose list has no running process
\* dereferences a NULL ProcMgr handle, unless the script list is empty.
CancelMayCrash == currentOp \in ScriptOps /\ opProc = "absent"

\* VmBackupStartScripts returning TRUE.
StartScripts(type, nextState, exec) ==
  /\ machineState' = nextState
  /\ undo' = IF type = "freeze" THEN "none" ELSE "started"
  /\ IF exec
     THEN \E proc \in {"absent", "running"} : SetCurrentOp(type, 0, proc, "NULL")
     ELSE UNCHANGED opVars

\* VmBackupStartScripts returning FALSE; the caller adds its ERROR event.
ScriptsDontStart ==
  /\ backups \in execScripts
  /\ SetCurrentOp("NULL", 0, "absent", "NULL")
  /\ undo' = "failed"

------------------------------------------------------------------------------
(* vmbackup.start: VmBackupStart, VmBackupStartWithOpts.                     *)

\* An accepted request.  A timeout of 0 means no abort timer.
Start ==
  /\ Dispatching /\ ~Active /\ backups < MaxBackups
  /\ backups' = backups + 1
  /\ \E a \in Addrs, p \in {"driver", "null"} :
       /\ gBackupState' = a
       /\ addr' = [addr EXCEPT ![backups + 1] = a]
       /\ provider' = [provider EXCEPT ![backups + 1] = p]
  /\ execScripts' \in {{}, {backups + 1}}
  /\ sent' = {"RESET"}
  /\ attached' \in {{"timerEvent", "keepAlive"}, Sources}
  /\ StartScripts("freeze", "SCRIPT_FREEZE", backups + 1 \in execScripts')
  /\ UNCHANGED <<freezeStatus, clientData, configCheckTask, pc, opStatus, workers>>

\* The freeze scripts do not start: the state object is freed before the RPC
\* returns its error, and no DONE follows the RESET.
StartFails ==
  /\ Dispatching /\ ~Active /\ backups < MaxBackups
  /\ backups' = backups + 1
  /\ sent' = {"RESET", "ERROR"}
  /\ UNCHANGED <<gBackupState, machineState, opVars, freezeStatus, clientData,
                 attached, configCheckTask, pc, opStatus, undo, execScripts,
                 provider, addr, workers>>

------------------------------------------------------------------------------
(* VmBackupAsyncCallback, the timer that drives the state machine.           *)

\* First critical section: ask the current operation for its status.
QueryStatus ==
  /\ Dispatching /\ "timerEvent" \in attached
  /\ pc' = "status"
  /\ \/ /\ currentOp \in {"NULL", "driverThaw"}
        /\ opStatus' = "FINISHED"
        /\ attached' = attached \ {"timerEvent"}
        /\ UNCHANGED <<currentOp, sent>>
     \/ /\ currentOp = "driverFreeze"
        /\ currentOp' = "driverFrozen" /\ opStatus' = "FINISHED"
        /\ attached' = attached \ {"timerEvent"}
        /\ UNCHANGED sent
     \/ /\ currentOp \in ScriptOps
        /\ \/ /\ opStatus' = IF opProc = "running" THEN "PENDING" ELSE "FINISHED"
              /\ attached' = attached \ {"timerEvent"}
              /\ UNCHANGED sent
           \/ /\ opProc = "ended"
              /\ opStatus' = "ERROR"
              /\ SendEvent({"ERROR"}, attached \ {"timerEvent"})
        /\ currentOp' = currentOp
  /\ UNCHANGED <<gBackupState, machineState, opTask, opProc, callback, forceRequeue,
                 freezeStatus, clientData, configCheckTask, undo, birth, workers>>

\* Second critical section: act on the answer, on the operation found now.
OpPending ==
  /\ pc = "status" /\ opStatus = "PENDING"
  /\ pc' = "exit"
  /\ UNCHANGED <<gBackupState, machineState, opVars, freezeStatus, clientData,
                 attached, configCheckTask, opStatus, history, birth, workers>>

OpFinished ==
  /\ pc = "status" /\ opStatus = "FINISHED"
  /\ ReleaseOp /\ ForgetOp
  /\ pc' = "callbacks"
  /\ UNCHANGED <<gBackupState, machineState, freezeStatus, clientData, attached,
                 configCheckTask, opStatus, history, birth, wpc, frozen>>

OpFailed ==
  /\ pc = "status" /\ opStatus = "ERROR"
  /\ SendEvent({"ERROR"}, attached)
  /\ ReleaseOp /\ ForgetOp
  /\ pc' = "onError"
  /\ UNCHANGED <<gBackupState, machineState, freezeStatus, clientData,
                 configCheckTask, opStatus, undo, birth, wpc, frozen>>

\* What *handle != SYNCDRIVER_INVALID_HANDLE can evaluate to.
HandleReads ==
  IF clientData = 0 THEN {FALSE}
  ELSE CASE cell[clientData] = "live"  -> {TRUE}
         [] cell[clientData] = "freed" -> BOOLEAN
         [] OTHER                      -> {FALSE}

\* One turn of the callback loop: VmBackupSyncDriverReadyForSnapshot.
ReadyForSnapshot ==
  /\ pc = "callbacks" /\ callback = "ready"
  /\ callback' = "NULL"
  /\ \/ /\ TRUE \in HandleReads
        /\ \/ /\ SendEvent({"COMMIT"}, attached) /\ freezeStatus' = "FINISHED"
              /\ pc' = IF currentOp # "NULL" \/ forceRequeue = 1 THEN "exit" ELSE "callbacks"
           \/ /\ SendEvent({"LOST"}, attached) /\ freezeStatus' = "ERROR"
              /\ pc' = "onError"
     \/ /\ FALSE \in HandleReads
        /\ freezeStatus' = "ERROR"
        /\ pc' = IF currentOp # "NULL" \/ forceRequeue = 1 THEN "exit" ELSE "callbacks"
        /\ UNCHANGED <<sent, attached>>
  /\ UNCHANGED <<gBackupState, machineState, currentOp, opTask, opProc, forceRequeue,
                 clientData, configCheckTask, opStatus, undo, birth, workers>>

\* No callback is left: the state machine moves on.
MoveOnFrom(state) == pc = "callbacks" /\ callback = "NULL" /\ machineState = state

EnableSyncWait ==
  /\ MoveOnFrom("SCRIPT_FREEZE")
  /\ freezeStatus' = "PENDING"
  /\ \/ /\ wpc' = [wpc EXCEPT ![backups] = "queued"]
        /\ configCheckTask' = 0
        /\ machineState' = "SYNC_FREEZE_WAIT"
        /\ pc' = "exit"
        /\ UNCHANGED <<sent, attached>>
     \/ /\ configCheckTask' = 1
        /\ SendEvent({"ERROR"}, attached)
        /\ pc' = "onError"
        /\ UNCHANGED <<machineState, wpc>>
  /\ UNCHANGED <<gBackupState, opVars, clientData, opStatus, undo, birth, cell,
                 frozen>>

\* VmBackupEnableSync's test of freezeStatus.
FreezeIsOverEarly == freezeStatus # "ERROR"   \* mutant: does not wait
FreezeIsOver == freezeStatus = "FINISHED"

EnableSync ==
  /\ MoveOnFrom("SYNC_FREEZE_WAIT")
  /\ \/ /\ freezeStatus = "ERROR"
        /\ configCheckTask' = 1
        /\ SendEvent({"ERROR"}, attached)
        /\ pc' = "onError"
        /\ UNCHANGED machineState
     \/ /\ freezeStatus # "ERROR"
        /\ machineState' = IF FreezeIsOver THEN "SYNC_FREEZE" ELSE machineState
        /\ pc' = "exit"
        /\ UNCHANGED <<configCheckTask, sent, attached>>
  /\ UNCHANGED <<gBackupState, opVars, freezeStatus, clientData, opStatus, undo,
                 birth, workers>>

\* SYNC_FREEZE is only left by the snapshotDone RPC.
WaitForSnapshot ==
  /\ MoveOnFrom("SYNC_FREEZE")
  /\ pc' = "exit"
  /\ UNCHANGED <<gBackupState, machineState, opVars, freezeStatus, clientData,
                 attached, configCheckTask, opStatus, history, birth, workers>>

LeaveSyncThaw ==
  /\ MoveOnFrom("SYNC_THAW")
  /\ configCheckTask' = 1
  /\ \/ /\ StartScripts("thaw", "SCRIPT_THAW", backups \in execScripts)
        /\ pc' = "exit"
        /\ UNCHANGED <<sent, attached>>
     \/ /\ ScriptsDontStart /\ SendEvent({"ERROR"}, attached)
        /\ pc' = "onError"
        /\ UNCHANGED machineState
  /\ UNCHANGED <<gBackupState, freezeStatus, clientData, opStatus, birth, workers>>

LeaveSyncError ==
  /\ MoveOnFrom("SYNC_ERROR")
  /\ \/ /\ StartScripts("freezeFail", "SCRIPT_ERROR", backups \in execScripts)
        /\ pc' = "exit"
        /\ UNCHANGED <<sent, attached>>
     \/ /\ ScriptsDontStart /\ SendEvent({"ERROR"}, attached)
        /\ pc' = "onError"
        /\ UNCHANGED machineState
  /\ UNCHANGED <<gBackupState, freezeStatus, clientData, configCheckTask, opStatus,
                 birth, workers>>

ScriptsOver ==
  /\ \E state \in {"SCRIPT_ERROR", "SCRIPT_THAW"} : MoveOnFrom(state)
  /\ machineState' = "IDLE"
  /\ pc' = "exit"
  /\ UNCHANGED <<gBackupState, opVars, freezeStatus, clientData, attached,
                 configCheckTask, opStatus, history, birth, workers>>

\* The exit label, when the backup goes on.
Requeue ==
  /\ pc = "exit" /\ machineState # "IDLE"
  /\ forceRequeue' = 0
  /\ attached' = attached \cup {"timerEvent"}
  /\ pc' = "loop"
  /\ UNCHANGED <<gBackupState, machineState, currentOp, opTask, opProc, callback,
                 freezeStatus, clientData, configCheckTask, opStatus, history, birth,
                 workers>>

------------------------------------------------------------------------------
(* VmBackupOnError.  AsyncCallback goes on to its exit label; the RPCs and   *)
(* the abort timer finalize at once if the state machine came back to IDLE.  *)

InOnError == pc \in {"onError", "rpcError"}

\* mutant: the RPCs ignore that the state machine is back in IDLE
ForgetsToFinalize == pc' = IF pc = "onError" THEN "exit" ELSE "loop"

AfterOnError ==
  pc' = IF pc = "onError" THEN "exit" ELSE IF machineState' = "IDLE" THEN "finalize" ELSE "loop"

OnErrorScripts ==
  /\ InOnError /\ machineState \in {"SCRIPT_FREEZE", "SYNC_ERROR"}
  /\ \/ /\ StartScripts("freezeFail", "SCRIPT_ERROR", backups \in execScripts)
        /\ UNCHANGED <<sent, attached>>
     \/ /\ ScriptsDontStart /\ SendEvent({"ERROR"}, attached)
        /\ machineState' = "IDLE"
  /\ AfterOnError
  /\ UNCHANGED <<gBackupState, freezeStatus, clientData, configCheckTask, opStatus,
                 birth, workers>>

\* mutant: the end of the I/O freeze is not signalled
OnErrorSyncMuted ==
  /\ InOnError /\ machineState \in FrozenStates
  /\ machineState' = "SYNC_ERROR"
  /\ AfterOnError
  /\ UNCHANGED <<gBackupState, opVars, freezeStatus, clientData, attached,
                 configCheckTask, opStatus, history, birth, workers>>

OnErrorSync ==
  /\ InOnError /\ machineState \in FrozenStates
  /\ machineState' = "SYNC_ERROR"
  /\ configCheckTask' = 1
  /\ AfterOnError
  /\ UNCHANGED <<gBackupState, opVars, freezeStatus, clientData, attached, opStatus,
                 history, birth, workers>>

\* mutant: errors of the freeze scripts end the backup like those of the thaw scripts
OnErrorThawAny ==
  /\ InOnError /\ machineState \in {"SCRIPT_FREEZE", "SCRIPT_THAW"}
  /\ machineState' = "IDLE"
  /\ AfterOnError
  /\ UNCHANGED <<gBackupState, opVars, freezeStatus, clientData, attached,
                 configCheckTask, opStatus, history, birth, workers>>

OnErrorThaw ==
  /\ InOnError /\ machineState = "SCRIPT_THAW"
  /\ machineState' = "IDLE"
  /\ AfterOnError
  /\ UNCHANGED <<gBackupState, opVars, freezeStatus, clientData, attached,
                 configCheckTask, opStatus, history, birth, workers>>

\* The daemon dies where it stands: g_error, or a bad pointer.
Crash ==
  /\ pc' = "crashed"
  /\ UNCHANGED <<gBackupState, machineState, opVars, freezeStatus, clientData,
                 attached, configCheckTask, opStatus, history, birth, workers>>

\* g_error("Unexpected machine state on error").
OnErrorUnexpected == InOnError /\ machineState \in {"SCRIPT_ERROR", "IDLE"} /\ Crash

------------------------------------------------------------------------------
(* VmBackupFinalize, after an exit in IDLE or at shutdown.                   *)

Finalizing == \/ pc \in {"finalize", "lastFinalize"}
              \/ pc = "exit" /\ machineState = "IDLE"

Finalize ==
  /\ Finalizing
  /\ ReleaseOp
  /\ sent' = sent \cup {"DONE"}
  /\ gBackupState' = NULL /\ machineState' = "IDLE"
  /\ SetCurrentOp("NULL", 0, "absent", "NULL")
  /\ freezeStatus' = "FINISHED" /\ clientData' = 0
  /\ attached' = {}
  /\ pc' = IF pc = "lastFinalize" THEN "stopped" ELSE "loop"
  /\ UNCHANGED <<configCheckTask, opStatus, undo, birth, wpc, frozen>>

FinalizeCrashes == Finalizing /\ CancelMayCrash /\ Crash

------------------------------------------------------------------------------
(* The other RPCs and timers.                                                *)

\* mutant: aborts again in the error states
DoAbortTwice(kept) ==
  /\ ReleaseOp /\ ForgetOp
  /\ SendEvent({"ABORT"}, kept)
  /\ pc' = "rpcError"
  /\ UNCHANGED <<gBackupState, machineState, freezeStatus, clientData,
                 configCheckTask, opStatus, undo, birth, wpc, frozen>>

\* VmBackupDoAbort outside the error states.
DoAbort(kept) ==
  /\ machineState \notin ErrorStates
  /\ ReleaseOp /\ ForgetOp
  /\ SendEvent({"ABORT"}, kept)
  /\ pc' = "rpcError"
  /\ UNCHANGED <<gBackupState, machineState, freezeStatus, clientData,
                 configCheckTask, opStatus, undo, birth, wpc, frozen>>

Abort == Dispatching /\ Active /\ DoAbort(attached)

\* mutant: the timeout only logs its warning
AbortTimerOnlyWarns ==
  /\ Dispatching /\ "abortTimer" \in attached
  /\ attached' = attached \ {"abortTimer"}
  /\ UNCHANGED <<gBackupState, machineState, opVars, freezeStatus, clientData,
                 configCheckTask, pc, opStatus, history, birth, workers>>

AbortTimer ==
  /\ Dispatching /\ "abortTimer" \in attached
  /\ \/ DoAbort(attached \ {"abortTimer"})
     \/ /\ machineState \in ErrorStates
        /\ attached' = attached \ {"abortTimer"}
        /\ UNCHANGED <<gBackupState, machineState, opVars, freezeStatus, clientData,
                       configCheckTask, pc, opStatus, history, birth, workers>>

AbortCrashes ==
  /\ Dispatching /\ Active /\ machineState \notin ErrorStates
  /\ CancelMayCrash /\ Crash

\* VmBackupSnapshotDone in any state but SYNC_FREEZE is refused.
Snapshotting == Dispatching /\ Active /\ machineState = "SYNC_FREEZE"

\* VmBackupDriverThaw: what stays frozen after a thaw through a task's handle.
NotThawedBy(task) == frozen                   \* mutant: closes without thawing
ThawedBy(task) == IF frozen = task THEN 0 ELSE frozen

\* The provider's snapshotDone returns TRUE: the filesystems are thawed through
\* the handle in clientData, which is then freed.
SnapshotDone ==
  /\ Snapshotting
  /\ \/ /\ provider[backups] = "driver"
        /\ clientData # 0 /\ cell[clientData] \in {"live", "freed"}
        /\ frozen' = ThawedBy(clientData)
        /\ cell' = [cell EXCEPT ![clientData] = "freed"]
        /\ clientData' = 0
        /\ SetCurrentOp("driverThaw", 0, "absent", "NULL")
     \/ /\ provider[backups] = "null"
        /\ SetCurrentOp("NULL", 0, "absent", "NULL")
        /\ UNCHANGED <<frozen, cell, clientData>>
  /\ machineState' = "SYNC_THAW"
  /\ UNCHANGED <<gBackupState, freezeStatus, attached, configCheckTask, pc, opStatus,
                 history, birth, wpc>>

\* FITHAW failed: the handle is closed and freed all the same.
SnapshotDoneFails ==
  /\ Snapshotting /\ provider[backups] = "driver"
  /\ clientData # 0 /\ cell[clientData] = "live"
  /\ cell' = [cell EXCEPT ![clientData] = "freed"]
  /\ clientData' = 0
  /\ SetCurrentOp("NULL", 0, "absent", "NULL")
  /\ SendEvent({"ERROR"}, attached)
  /\ pc' = "rpcError"
  /\ UNCHANGED <<gBackupState, machineState, freezeStatus, configCheckTask, opStatus,
                 undo, birth, wpc, frozen>>

\* SyncDriver_Thaw follows a handle that is NULL or no longer there.
SnapshotDoneCrashes ==
  /\ Snapshotting /\ provider[backups] = "driver"
  /\ (IF clientData = 0 THEN TRUE ELSE cell[clientData] # "live")
  /\ Crash

\* VmBackupKeepAliveCallback detaches its source and sends KEEP_ALIVE, which
\* attaches a new one.
KeepAlive ==
  /\ Dispatching /\ "keepAlive" \in attached
  /\ SendEvent({}, attached)
  /\ UNCHANGED <<gBackupState, machineState, opVars, freezeStatus, clientData,
                 configCheckTask, pc, opStatus, undo, birth, workers>>

\* The service quits its main loop: ToolsCoreCleanup drops the queued tasks and
\* waits for the running ones, then unloads the plugins (VmBackupShutdown).
Shutdown ==
  /\ Dispatching
  /\ wpc' = [b \in Backups |-> IF wpc[b] = "queued" THEN "dropped" ELSE wpc[b]]
  /\ pc' = "poolWait"
  /\ UNCHANGED <<gBackupState, machineState, opVars, freezeStatus, clientData,
                 attached, configCheckTask, opStatus, history, birth, cell, frozen>>

\* g_thread_pool_free(pool, immediate = TRUE, wait = TRUE) has returned.
PoolAbandoned == TRUE                         \* mutant: wait = FALSE
PoolIdle == \A b \in Backups : wpc[b] \notin Running

UnloadPlugins ==
  /\ pc = "poolWait" /\ PoolIdle
  /\ pc' = IF Active THEN "lastFinalize" ELSE "stopped"
  /\ UNCHANGED <<gBackupState, machineState, opVars, freezeStatus, clientData,
                 attached, configCheckTask, opStatus, history, birth, workers>>

------------------------------------------------------------------------------
(* The pool task of backup b.  Its pointer is good as long as the object it  *)
(* was given lives, or again once the address has been reused.               *)

Alive == pc \notin {"stopped", "crashed"}
Lands(b) == gBackupState = addr[b]

TaskStep(b, from, to) == Alive /\ wpc[b] = from /\ wpc' = [wpc EXCEPT ![b] = to]

mainVars == <<gBackupState, machineState, configCheckTask, pc, opStatus, undo, birth>>

RunTask(b) ==
  /\ TaskStep(b, "queued", IF provider[b] = "driver" THEN "freeze" ELSE "nullSetop")
  /\ UNCHANGED <<mainVars, opVars, freezeStatus, clientData, attached, sent, cell, frozen>>

\* VmBackupNewDriverOp calls SyncDriver_Freeze.  A filesystem that is frozen
\* already gives EBUSY, which counts as success with nothing to thaw; so does
\* the null driver.  If the mounts cannot be listed SyncDriver_Freeze returns
\* SD_ERROR, which is TRUE, and leaves the handle invalid.
Freeze(b) ==
  /\ \/ cell' = [cell EXCEPT ![b] = "live"] /\ frozen' \in {frozen, IF frozen = 0 THEN b ELSE frozen}
     \/ cell' = [cell EXCEPT ![b] = "invalid"] /\ UNCHANGED frozen
     \/ UNCHANGED <<cell, frozen>>
  /\ TaskStep(b, "freeze", "publish")
  /\ UNCHANGED <<mainVars, opVars, freezeStatus, clientData, attached, sent>>

\* state->clientData = op->syncHandle, if there is an op.
Publish(b) ==
  /\ TaskStep(b, "publish", "setop")
  /\ clientData' = IF cell[b] # "none" /\ Lands(b) THEN b ELSE clientData
  /\ UNCHANGED <<mainVars, opVars, freezeStatus, attached, sent, cell, frozen>>

\* VmBackup_SetCurrentOp, from the pool thread.
SetFreezeOp(b) ==
  /\ TaskStep(b, "setop", "done")
  /\ IF Lands(b)
     THEN IF cell[b] # "none" THEN SetCurrentOp("driverFreeze", b, "absent", "ready")
                              ELSE SetCurrentOp("NULL", 0, "absent", "ready")
     ELSE UNCHANGED opVars
  /\ UNCHANGED <<mainVars, freezeStatus, clientData, attached, sent, cell, frozen>>

\* VmBackupNullStart.
NullSetOp(b) ==
  /\ TaskStep(b, "nullSetop", "nullCommit")
  /\ IF Lands(b) THEN SetCurrentOp("NULL", 0, "absent", "NULL") ELSE UNCHANGED opVars
  /\ UNCHANGED <<mainVars, freezeStatus, clientData, attached, sent, cell, frozen>>

\* VmBackup_SendEvent goes through the global, not the task's own pointer.
NullCommit(b) ==
  /\ Active
  /\ \/ TaskStep(b, "nullCommit", "nullOk") /\ SendEvent({"COMMIT"}, attached)
     \/ TaskStep(b, "nullCommit", "nullErr") /\ SendEvent({"LOST"}, attached)
  /\ UNCHANGED <<mainVars, opVars, freezeStatus, clientData, cell, frozen>>

NullStatus(b) ==
  /\ \/ /\ TaskStep(b, "nullOk", "done")
        /\ freezeStatus' = IF Lands(b) THEN "FINISHED" ELSE freezeStatus
     \/ /\ TaskStep(b, "nullErr", "done")
        /\ freezeStatus' = IF Lands(b) THEN "ERROR" ELSE freezeStatus
  /\ UNCHANGED <<mainVars, opVars, clientData, attached, sent, cell, frozen>>

\* A write through a dangling pointer, or SendEvent without a backup.
TaskCrashes(b) ==
  /\ Alive /\ wpc[b] \in Running \ {"freeze"}
  /\ IF wpc[b] = "nullCommit" THEN ~Active ELSE ~Lands(b)
  /\ Crash

\* The last process of a script list ends; ProcMgr is not part of the plugin.
ScriptsEnd ==
  /\ Alive /\ currentOp \in ScriptOps /\ opProc = "running"
  /\ opProc' = "ended"
  /\ UNCHANGED <<gBackupState, machineState, currentOp, opTask, callback,
                 forceRequeue, freezeStatus, clientData, attached, configCheckTask,
                 pc, opStatus, history, birth, workers>>

------------------------------------------------------------------------------
AsyncCallback ==
  \/ QueryStatus \/ OpPending \/ OpFinished \/ OpFailed \/ ReadyForSnapshot
  \/ EnableSyncWait \/ EnableSync \/ WaitForSnapshot \/ LeaveSyncThaw
  \/ LeaveSyncError \/ ScriptsOver \/ Requeue

OnError == OnErrorScripts \/ OnErrorSync \/ OnErrorThaw \/ OnErrorUnexpected

Crashes ==
  \/ FinalizeCrashes \/ AbortCrashes \/ SnapshotDoneCrashes
  \/ \E b \in Backups : TaskCrashes(b)

Task(b) ==
  \/ RunTask(b) \/ Freeze(b) \/ Publish(b) \/ SetFreezeOp(b)
  \/ NullSetOp(b) \/ NullCommit(b) \/ NullStatus(b)

Next ==
  \/ Start \/ StartFails \/ AsyncCallback \/ OnError \/ Finalize
  \/ Abort \/ AbortTimer \/ SnapshotDone \/ SnapshotDoneFails
  \/ KeepAlive \/ Shutdown \/ UnloadPlugins
  \/ \E b \in Backups : Task(b)
  \/ ScriptsEnd
  \/ Crashes

Spec == Init /\ [][Next]_vars

------------------------------------------------------------------------------
(* Properties.                                                               *)

\* The main loop is at rest, between two dispatches.
AtRest == pc = "loop"

\* A backup can only move if the poll timer is attached, and a timer that
\* outlives its backup dereferences a NULL gBackupState (the ASSERTs at the top
\* of VmBackupAsyncCallback, VmBackupAbortTimer and VmBackupKeepAliveCallback).
\* So between two dispatches the poll and keep-alive sources are attached
\* exactly while a backup is active, whichever of the exits of AsyncCallback,
\* OnError, DoAbort and Finalize the thread took, and the abort timer at most then.
SourcesFollowBackup ==
  AtRest => /\ "timerEvent" \in attached <=> Active
            /\ "keepAlive" \in attached <=> Active
            /\ "abortTimer" \in attached => Active
            /\ machineState # "IDLE" <=> Active

\* The rest of the daemon is told that I/O is frozen (it then stops reading its
\* configuration and writing its log) exactly while the backup is between the
\* submission of the freeze and the end of the thaw or the error: no error path
\* leaves the daemon muted, none unmutes it early.
IoFollowsState == AtRest => (configCheckTask = 0 <=> machineState \in FrozenStates)

\* The freeze scripts of the backup were undone: the thaw or freezeFail scripts
\* have been started, or the last attempt to start them failed and the VMX was
\* sent an ERROR.
Undone == undo = "started" \/ (undo = "failed" /\ "ERROR" \in sent)

\* A backup that ran its freeze scripts does not end, short of a shutdown or a
\* crash, before VmBackupStartScripts was called to undo them, whichever error,
\* abort or lost event came first: an ERROR sent for another reason is no excuse.
ScriptsAreUndone ==
  [][Active /\ gBackupState' = NULL /\ pc # "lastFinalize" /\ backups \in execScripts
       => Undone]_vars

\* The snapshot is only declared done, and the scripts only thawed, after the
\* VMX was asked to take it: nothing but a delivered COMMIT moves the machine
\* out of SYNC_FREEZE_WAIT on the success path.
CommitPrecedesThaw ==
  machineState \in {"SYNC_FREEZE", "SYNC_THAW", "SCRIPT_THAW"} => "COMMIT" \in sent

\* A backup that got as far as its thaw scripts has thawed what it froze, and
\* none of its pool threads is left.
ThawedOnSuccess ==
  machineState = "SCRIPT_THAW"
    => frozen # backups /\ wpc[backups] = "done"

\* When the daemon has unloaded its plugins no pool thread is still inside
\* their code, and no backup is left open.
QuietAfterStop ==
  pc = "stopped" => ~Active /\ \A b \in Backups : wpc[b] \notin Running \cup {"queued"}

\* The main thread is inside a handler that dereferences gBackupState.
InHandler == pc \in {"status", "callbacks", "onError", "exit", "rpcError", "finalize", "lastFinalize"}

\* Why the sources follow the backup: what holds in the middle of a handler.
SourcesInv ==
  /\ InHandler => Active
  /\ ~Active => attached = {} /\ machineState = "IDLE"
  /\ Active => "keepAlive" \in attached
  /\ pc \in {"loop", "rpcError"} /\ Active => "timerEvent" \in attached
  /\ pc \in {"loop", "status", "callbacks", "onError", "rpcError"} /\ Active
       => machineState # "IDLE"
  /\ pc = "finalize" => machineState = "IDLE"

\* Why I/O follows the state: only on the way into VmBackupOnError may the
\* signal be ahead of the state.
IoInv ==
  /\ pc \in {"loop", "status", "callbacks", "exit", "rpcError", "finalize"}
       => (configCheckTask = 0 <=> machineState \in FrozenStates)
  /\ pc = "onError" /\ machineState \notin FrozenStates => configCheckTask = 1

\* Why the protocol is kept: on every path into an error state the VMX has been
\* told of an error or an abort, or could not be told of a COMMIT.
ToldInv ==
  pc \in {"onError", "rpcError"} \/ machineState \in ErrorStates
    => sent \cap {"ERROR", "ABORT", "LOST"} # {}

\* Why the daemon is quiet when it has stopped.
PoolInv ==
  /\ pc \in {"poolWait", "lastFinalize", "stopped"} => \A b \in Backups : wpc[b] # "queued"
  /\ pc \in {"lastFinalize", "stopped"} => PoolIdle
  /\ pc = "stopped" => ~Active

\* Why the freeze scripts are undone.
UndoneInv ==
  /\ machineState \in {"SCRIPT_THAW", "SCRIPT_ERROR"} => undo = "started"
  /\ Active /\ machineState = "IDLE" => Undone

\* The inductive invariant of the plugin: in every handler, at every point where
\* a pool thread can interfere, the state object, the sources, the I/O signal,
\* the events and the pool agree about how far the backup is.
ControlInv == SourcesInv /\ IoInv /\ ToldInv /\ PoolInv /\ UndoneInv

\* The daemon is being stopped, or has died.
Going == pc \in {"poolWait", "lastFinalize", "stopped", "crashed"}

\* The plugin implements the protocol its README draws: the phases in order, one
\* backup at a time, RESET first and DONE last, and no way off the success path
\* before the VMX was told of the error or the abort.
P == INSTANCE BackupProtocol
       WITH phase <- machineState, open <- Active, told <- sent, stopping <- Going
Protocol == P!PSpec

\* The fairness of the main loop: GLib dispatches a source that stays ready, and
\* every source of one priority that is ready in an iteration, so neither the
\* poll timer nor the abort timer is passed over for ever, and a handler that
\* was entered returns.  Nothing is assumed of the pool threads: FIFREEZE may
\* never return.
MainLoopFairness ==
  /\ WF_vars(AsyncCallback) /\ WF_vars(OnError) /\ WF_vars(Finalize)
  /\ SF_vars(AbortTimer)

\* In addition the custom scripts terminate.
FairSpec == Spec /\ MainLoopFairness /\ WF_vars(ScriptsEnd)

\* Only the timeout is fair: scripts may hang.
HungScriptSpec == Spec /\ MainLoopFairness

\* With a timeout armed every backup ends, even if the kernel never finishes the
\* freeze and the VMX never answers: the abort timer gets it out of every state
\* it can wait in, and the error states drain by themselves.
BackupEnds == "abortTimer" \in attached ~> (~Active \/ Going)

------------------------------------------------------------------------------
(* What comments, assertions and the README say and the code does not do.    *)

\* VmBackupAbort: "If the sync provider has been activated, tell it to abort the
\* ongoing operation."  Once no backup is active and no freeze is under way,
\* nothing should be frozen that was not given up on by a failed thaw.
NothingLeftFrozen ==
  AtRest /\ ~Active /\ (\A b \in Backups : wpc[b] \notin Running \cup {"queued"})
    => frozen = 0 \/ "ERROR" \in sent

\* ASSERT(state->currentOp == NULL) in VmBackup_SetCurrentOp, for the calls made
\* by the pool threads.
NoOpReplaced ==
  [][\A b \in Backups :
       (SetFreezeOp(b) \/ NullSetOp(b)) /\ Lands(b) => currentOp = "NULL"]_vars

\* VmBackup_Release: "Releasing a state object that hasn't finished yet can
\* result in undefined behavior."  VmBackupAsyncCallback only releases an
\* operation that answered its query.
ReleasedOpWasQueried == [][OpFinished => currentOp # "driverFreeze"]_vars

\* README, the edge from SCRIPT_ERROR to IDLE: "b, e", e being "error condition:
\* runtime error, or vmbackup.abort RPC".  An error is handled in SCRIPT_ERROR.
ErrorHandledInScriptError == ~(InOnError /\ machineState = "SCRIPT_ERROR")

\* VmBackupAbort: "Aborts the current operation if one is active, and stops the
\* backup process."  A host that was told ABORT is not asked for a snapshot.
NoCommitAfterAbort == [][("COMMIT" \in sent' \ sent) => "ABORT" \notin sent]_vars

\* README, the edge from SYNC_ERROR to SCRIPT_ERROR: "d. sync provider operation
\* is finished".
SyncErrorWaitsForProvider ==
  [][machineState = "SYNC_ERROR" /\ machineState' = "SCRIPT_ERROR"
       => wpc[backups] \notin Running]_vars

=============================================================================
