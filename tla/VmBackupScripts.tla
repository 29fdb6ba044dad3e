-------------------------- MODULE VmBackupScripts --------------------------
(***************************************************************************)
(* The custom scripts of a backup: services/plugins/vmbackup/scriptOps.c.   *)
(* VmBackup sees a script operation as one process; this module looks into  *)
(* it.  The freeze operation builds a list of scripts and runs them in      *)
(* order; the thaw or freezeFail operation comes back down the same list.   *)
(* Both move one index, state->currentScript, and leave it for the other.   *)
(*                                                                         *)
(* A file is a number: -1 is the legacy thaw script, 0 the legacy freeze    *)
(* script, the others are the entries of backupScripts.d in the order of    *)
(* their names.  Indices are one more than in C: 0 is "before the first     *)
(* script" and Len(paths) + 1 the terminator of the list.                   *)
(***************************************************************************)
EXTENDS Integers, Sequences

CONSTANT MaxEntries  \* bound: number of entries of backupScripts.d

ASSUME EntriesAssumption == MaxEntries \in Nat

VARIABLES
  files,          \* the regular files there are
  entries,        \* number of entries of backupScripts.d
  scripts,        \* state->scripts: "NULL" or "array"
  paths, procs,   \* the path and the process of each script of the array
  currentScript,  \* state->currentScript
  op,             \* type of the operation, or "NULL"
  thawFailed,     \* op->thawFailed, 0 or 1
  phase,          \* what the state machine is doing with its scripts
  status,         \* what the operation last answered
  froze,          \* scripts whose freeze call exited with 0
  undone,         \* scripts started by the thaw or freezeFail operation, in order
  unwell          \* scripts of that operation that did not start or that failed

array == <<scripts, paths, procs, currentScript>>
history == <<froze, undone, unwell>>
vars == <<files, entries, array, op, thawFailed, phase, status, history>>

LegacyThaw   == -1
LegacyFreeze == 0
UndoTypes == {"thaw", "freezeFail"}

ProcStates == {"NULL", "running", "exited", "failed", "killed"}

TypeOK ==
  /\ files \subseteq -1..MaxEntries /\ entries \in 0..MaxEntries
  /\ scripts \in {"NULL", "array"}
  /\ paths \in Seq(-1..MaxEntries)
  /\ procs \in [1..Len(paths) -> ProcStates]
  /\ currentScript \in 0..(Len(paths) + 1)
  /\ op \in {"NULL", "freeze"} \cup UndoTypes
  /\ thawFailed \in {0, 1}
  /\ phase \in {"idle", "freezing", "frozen", "failed", "undoing", "over", "crashed"}
  /\ status \in {"none", "PENDING", "FINISHED", "ERROR"}
  /\ froze \subseteq 1..(MaxEntries + 1) /\ unwell \subseteq 1..(MaxEntries + 1)
  /\ undone \in Seq(1..(MaxEntries + 1))

Init ==
  /\ entries \in 0..MaxEntries
  /\ files \in SUBSET (-1..entries)
  /\ scripts = "NULL" /\ paths = <<>> /\ procs = <<>> /\ currentScript = 1
  /\ op = "NULL" /\ thawFailed = 0 /\ phase = "idle" /\ status = "none"
  /\ froze = {} /\ undone = <<>> /\ unwell = {}

IsFile(path) == path \in files
Slots(list) == 1..Len(list)

------------------------------------------------------------------------------
(* VmBackupRunNextScript: where the index and the processes of a list can    *)
(* get to, what it returns, and which scripts did not start.                 *)

\* Where the index stands when there is nothing left to freeze.
PastTheEnd(list) == Len(list) + 2   \* mutant: one increment too many
Terminator(list) == Len(list) + 1

\* Freezing stops at the first file, whether or not it starts.
First(S) == {i \in S : \A j \in S : i <= j}

NextUp(list, ps, from) ==
  LET ahead == {i \in Slots(list) : i > from /\ IsFile(list[i])} IN
    IF ahead = {}
    THEN {[index |-> Terminator(list), procs |-> ps, ret |-> 0, dead |-> {}]}
    ELSE UNION {{[index |-> i, procs |-> [ps EXCEPT ![i] = "running"], ret |-> 1, dead |-> {}],
                 [index |-> i, procs |-> [ps EXCEPT ![i] = "NULL"], ret |-> -1, dead |-> {i}]} :
                i \in First(ahead)}

\* "All thaw/fail scripts failed to start": the test after the last decrement.
FirstFailed(list, ps) ==
  LET failIdx == IF IsFile(list[1]) THEN 1 ELSE 2 IN
    failIdx \in Slots(list) /\ ps[failIdx] = "NULL"

\* Undoing goes down until a script starts.
StartsHere(from) == {i \in 1..from : i <= from}   \* mutant: --currentScript is forgotten
Below(from) == {i \in 1..from : i < from}

NextDown(list, ps, from) ==
  LET ahead == {i \in Below(from) \cap Slots(list) : IsFile(list[i])}
      Without(dead) == [i \in Slots(list) |-> IF i \in dead THEN "NULL" ELSE ps[i]]
  IN {[index |-> j,
       procs |-> [Without({i \in ahead : i > j}) EXCEPT ![j] = "running"],
       ret |-> 1,
       dead |-> {i \in ahead : i > j}] : j \in ahead}
     \cup {[index |-> 0,
            procs |-> Without(ahead),
            ret |-> IF from > 1 /\ FirstFailed(list, Without(ahead)) THEN -1 ELSE 0,
            dead |-> ahead]}

RunNextScript(type, list, ps, from) ==
  IF type = "freeze" THEN NextUp(list, ps, from) ELSE NextDown(list, ps, from)

------------------------------------------------------------------------------
(* VmBackup_NewScriptOp.                                                     *)

Legacy == IF IsFile(LegacyFreeze) \/ IsFile(LegacyThaw) THEN <<LegacyFreeze>> ELSE <<>>

\* The regular files of backupScripts.d, sorted by name.
Listings == UNION {[1..n -> 1..entries] : n \in 0..entries}
IsListing(l) ==
  /\ {l[i] : i \in Slots(l)} = {f \in 1..entries : IsFile(f)}
  /\ \A i, j \in Slots(l) : i < j => l[i] < l[j]

\* The list of the freeze scripts, and the first of them is started.
NewFreezeOp ==
  /\ phase = "idle"
  /\ \E l \in Listings :
     LET list == Legacy \o l
         idle == [i \in Slots(list) |-> "NULL"]
     IN /\ IsListing(l)
        /\ paths' = list
        /\ \/ /\ Len(Legacy) + entries = 0
              /\ procs' = idle /\ scripts' = "NULL" /\ currentScript' = 1
              /\ op' = "freeze" /\ phase' = "freezing" /\ status' = "PENDING"
           \/ /\ Len(Legacy) + entries > 0
              /\ scripts' = "array"
              /\ \E r \in RunNextScript("freeze", list, idle, 0) :
                   /\ procs' = r.procs /\ currentScript' = r.index
                   /\ op' = IF r.ret = -1 THEN "NULL" ELSE "freeze"
                   /\ phase' = IF r.ret = -1 THEN "over" ELSE "freezing"
                   /\ status' = IF r.ret = -1 THEN "ERROR" ELSE "PENDING"
  /\ thawFailed' = 0
  /\ UNCHANGED <<files, entries, history>>

Crash ==
  /\ phase' = "crashed"
  /\ UNCHANGED <<files, entries, array, op, thawFailed, status, history>>

\* backupScripts.d cannot be listed: numFiles is -1, which the loop that frees
\* the list compares as an unsigned number.
ListingFails == phase = "idle" /\ Crash

\* No memory, or no script directory: NULL, and the list stays.
NewOpFails ==
  /\ phase \in {"idle", "frozen", "failed"}
  /\ status' = "ERROR"
  /\ phase' \in IF phase = "frozen" THEN {"failed"} ELSE {phase, "over"} \ {"idle"}
  /\ UNCHANGED <<files, entries, array, op, thawFailed, history>>

\* VmBackupScriptOpRelease of an operation that is not a freeze.
FreeScripts == scripts' = "NULL" /\ paths' = <<>> /\ procs' = <<>> /\ currentScript' = 1

\* The legacy entry becomes the legacy thaw script, and the last script that the
\* freeze got through is started.  Without a list there is nothing to do.
UndoList ==
  [i \in Slots(paths) |-> IF i = 1 /\ paths[1] = LegacyFreeze THEN LegacyThaw ELSE paths[i]]

NewUndoOp(type) ==
  /\ <<phase, type>> \in {<<"frozen", "thaw">>, <<"failed", "freezeFail">>}
  /\ \/ /\ scripts = "NULL"
        /\ op' = type /\ phase' = "undoing" /\ status' = "PENDING" /\ thawFailed' = 0
        /\ UNCHANGED <<array, undone, unwell>>
     \/ /\ scripts = "array" /\ paths # <<>>
        /\ \E r \in RunNextScript(type, UndoList, procs, currentScript) :
             /\ unwell' = unwell \cup r.dead
             /\ undone' = IF r.ret = 1 THEN Append(undone, r.index) ELSE undone
             /\ \/ /\ r.ret = -1
                   /\ FreeScripts
                   /\ op' = "NULL" /\ status' = "ERROR" /\ thawFailed' = 0
                   /\ phase' \in {"failed", "over"}
                \/ /\ r.ret # -1
                   /\ scripts' = scripts /\ paths' = UndoList
                   /\ procs' = r.procs /\ currentScript' = r.index
                   /\ op' = type /\ status' = "PENDING" /\ phase' = "undoing"
                   /\ thawFailed' = IF r.dead = {} THEN 0 ELSE 1
  /\ UNCHANGED <<files, entries, froze>>

\* strcmp on the path of the first entry of a list without files.
ListIsEmpty == phase \in {"frozen", "failed"} /\ scripts = "array" /\ paths = <<>> /\ Crash

------------------------------------------------------------------------------
(* VmBackupScriptOpQuery, and the release that follows it in                 *)
(* VmBackupAsyncCallback unless the operation is pending.                    *)

Process == IF scripts = "NULL" \/ currentScript \notin Slots(paths) THEN "NULL"
           ELSE procs[currentScript]

\* The operation is over; the list is only freed with a thaw or freezeFail.
Over(answer, list, ps, index) ==
  /\ status' = answer /\ op' = "NULL" /\ thawFailed' = 0
  /\ \/ /\ op = "freeze"
        /\ phase' = IF answer = "FINISHED" THEN "frozen" ELSE "failed"
        /\ scripts' = scripts /\ paths' = list /\ procs' = ps /\ currentScript' = index
     \/ /\ op # "freeze"
        /\ phase' = "over"
        /\ FreeScripts

\* No script is left that could be waited for.
HasNoList == scripts = "NULL"   \* mutant: currScript->proc is not looked at
NothingRuns == Process = "NULL"

QueryIdle ==
  /\ op # "NULL" /\ phase \in {"freezing", "undoing"} /\ NothingRuns
  /\ Over("FINISHED", paths, procs, currentScript)
  /\ UNCHANGED <<files, entries, history>>

\* A freeze script failed: the scripts before it are to be undone.
QueryFreezeFailed ==
  /\ op = "freeze" /\ phase = "freezing" /\ Process = "failed"
  /\ Over("ERROR", paths, [procs EXCEPT ![currentScript] = "NULL"], currentScript)
  /\ UNCHANGED <<files, entries, history>>

\* What becomes of op->thawFailed; the exit code of a freezeFail script is ignored.
ForgetsFailure(dead) == IF Process = "failed" /\ op = "thaw" THEN 1 ELSE 0   \* mutant
ThawFailed(dead) ==
  IF (Process = "failed" /\ op = "thaw") \/ dead # {} THEN 1 ELSE thawFailed

FailedThaws == {i \in Slots(procs) : op = "thaw" /\ procs[i] = "failed"}

\* The next script is run.
QueryNext ==
  /\ op # "NULL" /\ phase \in {"freezing", "undoing"}
  /\ Process = "exited" \/ (Process = "failed" /\ op # "freeze")
  /\ froze' = IF op = "freeze" THEN froze \cup {currentScript} ELSE froze
  /\ LET ps == [procs EXCEPT ![currentScript] = "NULL"] IN
     \E r \in RunNextScript(op, paths, ps, currentScript) :
       /\ unwell' = IF op = "freeze" THEN unwell
                    ELSE unwell \cup r.dead \cup ({currentScript} \cap FailedThaws)
       /\ undone' = IF r.ret = 1 /\ op # "freeze" THEN Append(undone, r.index) ELSE undone
       /\ \/ /\ r.ret = 1
             /\ procs' = r.procs /\ currentScript' = r.index
             /\ thawFailed' = IF op = "freeze" THEN 0 ELSE ThawFailed(r.dead)
             /\ status' = "PENDING"
             /\ UNCHANGED <<scripts, paths, op, phase>>
          \/ r.ret = -1 /\ Over("ERROR", paths, r.procs, r.index)
          \/ /\ r.ret = 0
             /\ Over(IF op # "freeze" /\ ThawFailed(r.dead) = 1 THEN "ERROR" ELSE "FINISHED",
                     paths, r.procs, r.index)
  /\ UNCHANGED <<files, entries>>

------------------------------------------------------------------------------
(* VmBackup_Cancel and VmBackup_Release, for an abort or a shutdown.         *)

\* The running script is killed, and its process stays in the list.  Killing
\* fails only if there is nothing to kill.
LeftAlone(i) == procs[i]     \* mutant: the operation is only flagged
Killed(i) == "killed"

Cancel ==
  /\ op # "NULL" /\ phase \in {"freezing", "undoing"}
  /\ scripts = "NULL" \/ Process # "NULL"
  /\ LET ps == [i \in Slots(paths) |-> IF i = currentScript THEN Killed(i) ELSE procs[i]] IN
     Over("ERROR", paths, ps, currentScript)
  /\ UNCHANGED <<files, entries, history>>

\* There is a list, but no process where the index stands.
CancelCrashes ==
  /\ op # "NULL" /\ phase \in {"freezing", "undoing"}
  /\ scripts = "array" /\ Process = "NULL"
  /\ Crash

\* An error or an abort between the freeze and the thaw scripts.
SyncFails ==
  /\ phase = "frozen" /\ phase' = "failed"
  /\ UNCHANGED <<files, entries, array, op, thawFailed, status, history>>

------------------------------------------------------------------------------
(* The guest.                                                                *)

\* The running script exits, with 0 or not.
ScriptExits ==
  /\ phase # "crashed" /\ Process = "running"
  /\ procs' \in {[procs EXCEPT ![currentScript] = e] : e \in {"exited", "failed"}}
  /\ UNCHANGED <<files, entries, scripts, paths, currentScript, op, thawFailed, phase, status,
                 history>>

\* A script is deleted.
Delete(f) ==
  /\ phase \notin {"over", "crashed"} /\ f \in files
  /\ files' = files \ {f}
  /\ UNCHANGED <<entries, array, op, thawFailed, phase, status, history>>

Query == QueryIdle \/ QueryFreezeFailed \/ QueryNext

Next ==
  \/ NewFreezeOp \/ NewOpFails \/ (\E type \in UndoTypes : NewUndoOp(type))
  \/ Query \/ Cancel \/ SyncFails
  \/ ScriptExits \/ (\E f \in files : Delete(f))
  \/ ListingFails \/ ListIsEmpty \/ CancelCrashes

Spec == Init /\ [][Next]_vars

------------------------------------------------------------------------------
(* Properties.                                                               *)

Undone == {undone[i] : i \in 1..Len(undone)}

\* The legacy entry stands for two scripts, which need not both exist.
IsLegacy(i) == i = 1 /\ scripts = "array" /\ paths # <<>> /\ paths[1] \in {LegacyFreeze, LegacyThaw}

\* The thaw and freezeFail scripts are run in the reverse order of the freeze, each
\* once, and only for scripts whose freeze succeeded: not for the one that failed
\* or was killed, and not for those it never got to.
UndoneInReverse ==
  /\ \A i, j \in 1..Len(undone) : i < j => undone[i] > undone[j]
  /\ phase = "undoing" => \A i \in Undone : i \in froze \/ IsLegacy(i)

\* An undo that is about to answer that it is finished has started the script of
\* everything that was frozen and still exists, has seen none of them fail to
\* start and, thawing, none of them fail.
FinishedIsComplete ==
  [][status' = "FINISHED" /\ status # "FINISHED" /\ op \in UndoTypes /\ scripts = "array"
       => unwell' = {} /\ (\A i \in froze : i \in Undone \/ ~IsFile(paths[i]))]_vars

\* While a script is running the operation knows it: the index stands on it, and
\* no other process of the list is running.
OneScriptAtATime ==
  \A i \in Slots(paths) : procs[i] = "running" => i = currentScript /\ op # "NULL"

\* The list of scripts and its one index: what was frozen is undone in reverse, one
\* script after the other.
ScriptsInv == TypeOK /\ UndoneInReverse /\ OneScriptAtATime

\* The poll timer keeps asking, and scripts end.
FairSpec == Spec /\ WF_vars(Query) /\ WF_vars(ScriptExits)

\* An operation ends: the index reaches an end of the list, whatever is missing,
\* does not start or fails on the way.
OperationEnds == op # "NULL" ~> (op = "NULL" \/ phase = "crashed")

------------------------------------------------------------------------------
(* What comments and assertions say and the code does not do.                *)

\* VmBackupRunNextScript: "This happens if all thaw/fail scripts failed to start."
\* An error is only reported for scripts that did not start or failed.
ErrorHasCause ==
  [][op = "thaw" /\ QueryNext /\ status' = "ERROR" => unwell' # {}]_vars

\* ASSERT(currScript->proc != NULL) in VmBackupScriptOpCancel.
CancelHasProcess == [][~CancelCrashes]_vars

\* VmBackup_NewScriptOp: "only files directly under the script dir will be
\* considered".  A directory in it makes no difference.
DirectoriesAreIgnored == [][~ListIsEmpty]_vars

\* VmBackup_NewScriptOp returns "A pointer to the operation state, or NULL on
\* failure."
NewOpReturns == [][~ListingFails]_vars

=============================================================================
