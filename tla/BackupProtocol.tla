--------------------------- MODULE BackupProtocol ---------------------------
(***************************************************************************)
(* What the vmbackup plugin promises to the VMX, and nothing about how: the *)
(* phases of a quiesced snapshot as the diagram in the plugin's README      *)
(* draws them, and the events the host sees.  One backup at a time; it      *)
(* starts with RESET and ends with DONE; it goes through its phases in      *)
(* order; it leaves the success path only after the host was told why; and  *)
(* it ends through the scripts that undo the freeze scripts, or with an     *)
(* error.                                                                   *)
(***************************************************************************)
VARIABLES
  phase,   \* state of the diagram
  open,    \* a backup is in progress
  told,    \* events of this backup the host was sent, "LOST" for one that failed
  stopping \* the service has left its main loop, or has died

pvars == <<phase, open, told, stopping>>

\* Something went wrong and the host has heard of it, or cannot be reached.
Bad == {"ERROR", "ABORT", "LOST"}

SuccessEdges == {<<"SCRIPT_FREEZE", "SYNC_FREEZE_WAIT">>,
                 <<"SYNC_FREEZE_WAIT", "SYNC_FREEZE">>,
                 <<"SYNC_FREEZE", "SYNC_THAW">>,
                 <<"SYNC_THAW", "SCRIPT_THAW">>,
                 <<"SCRIPT_THAW", "IDLE">>}

\* The undo scripts of a backup can themselves fail to start.
ErrorEdges == {<<"SCRIPT_FREEZE", "SCRIPT_ERROR">>,
               <<"SCRIPT_FREEZE", "IDLE">>,
               <<"SYNC_FREEZE_WAIT", "SYNC_ERROR">>,
               <<"SYNC_FREEZE", "SYNC_ERROR">>,
               <<"SYNC_THAW", "SYNC_ERROR">>,
               <<"SYNC_ERROR", "SCRIPT_ERROR">>,
               <<"SYNC_ERROR", "IDLE">>,
               <<"SCRIPT_ERROR", "IDLE">>}

PInit == phase = "IDLE" /\ open = FALSE /\ told = {} /\ stopping = FALSE

\* vmbackup.start, accepted.
Begin ==
  /\ ~open /\ ~stopping
  /\ phase' = "SCRIPT_FREEZE" /\ open' = TRUE /\ told' = {"RESET"}
  /\ UNCHANGED stopping

\* vmbackup.start whose scripts cannot be started.
Refuse ==
  /\ ~open /\ ~stopping
  /\ told' = {"RESET", "ERROR"}
  /\ UNCHANGED <<phase, open, stopping>>

Report(e) ==
  /\ open /\ told' = told \cup {e}
  /\ UNCHANGED <<phase, open, stopping>>

\* vmbackup.abort, or the plugin's own timeout.
Cancel == ~stopping /\ phase \notin {"SCRIPT_ERROR", "SYNC_ERROR"} /\ Report("ABORT")

Advance ==
  /\ open /\ ~stopping /\ <<phase, phase'>> \in SuccessEdges
  /\ UNCHANGED <<open, told, stopping>>

Recover ==
  /\ open /\ ~stopping /\ <<phase, phase'>> \in ErrorEdges
  /\ told' \in {told, told \cup {"ERROR"}} /\ told' \cap Bad # {}
  /\ UNCHANGED <<open, stopping>>

End ==
  /\ open /\ ~stopping /\ phase = "IDLE"
  /\ told' = told \cup {"DONE"} /\ open' = FALSE
  /\ UNCHANGED <<phase, stopping>>

\* The service leaves its main loop, or dies; what a call under way still reports
\* may follow, no phase does.
Quit == ~stopping /\ stopping' = TRUE /\ UNCHANGED <<phase, open, told>>

\* Only then is a backup closed in the middle of a phase.
Stop ==
  /\ open /\ stopping
  /\ phase' = "IDLE" /\ told' = told \cup {"DONE"} /\ open' = FALSE
  /\ UNCHANGED stopping

PNext ==
  \/ Begin \/ Refuse \/ Cancel \/ Advance \/ Recover \/ End
  \/ Quit \/ Stop
  \/ \E e \in {"COMMIT", "ERROR", "LOST"} : Report(e)

PSpec == PInit /\ [][PNext]_pvars
=============================================================================
