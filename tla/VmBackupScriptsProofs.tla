----------------------- MODULE VmBackupScriptsProofs -----------------------
(***************************************************************************)
(* Proofs about VmBackupScripts: the freeze scripts are undone in reverse,  *)
(* one at a time, and an undo that answers that it is finished has undone   *)
(* everything, for any number of scripts and whatever fails or is deleted.  *)
(*                                                                         *)
(* The invariant is about the index that one operation leaves to the other. *)
(* Below it are scripts that were frozen, or that were not there to be      *)
(* frozen and, since files only disappear, are not there to be undone.      *)
(* Above it, once the undo is under way, is what was undone or could not    *)
(* be.                                                                      *)
(***************************************************************************)
EXTENDS VmBackupScripts, TLAPS

Before == {"idle", "freezing", "frozen", "failed"}   \* no script has been undone

\* The operation is the one of the phase, and only an undo undoes anything.
PhaseInv ==
  /\ phase \in {"idle", "frozen", "failed", "over"} => op = "NULL"
  /\ phase = "freezing" => op = "freeze"
  /\ phase = "undoing" => op \in UndoTypes
  /\ phase = "idle" => froze = {} /\ unwell = {} /\ scripts = "NULL"
  /\ phase \in Before => undone = <<>>
  /\ phase \in Before /\ scripts = "array" => unwell = {}

\* The list is there with its array, and the processes below the index are gone; the freeze
\* has left none above it either.
ListInv ==
  /\ scripts = "NULL" => paths = <<>>
  /\ Len(paths) <= MaxEntries + 1
  /\ \A i \in Slots(paths) : i < currentScript => procs[i] = "NULL"
  /\ phase = "freezing" => \A i \in Slots(paths) : i # currentScript => procs[i] = "NULL"

\* What is below the index was frozen, or there is nothing to undo.
BelowInv ==
  phase \in Before \cup {"undoing"} =>
    \A i \in Slots(paths) : i < currentScript => i \in froze \/ IsLegacy(i) \/ ~IsFile(paths[i])

\* What was frozen is below the index.
FrozenInv ==
  phase \in Before /\ scripts = "array" => \A i \in froze : i < currentScript

\* The undo has been through all that is above the index, and stands on a script that it
\* started, or had nothing to start.
UndoInv ==
  phase = "undoing" /\ scripts = "array" =>
    /\ froze \subseteq Slots(paths)
    /\ \A i \in Undone : i >= currentScript
    /\ unwell # {} => thawFailed = 1
    /\ \A i \in froze : \/ i < currentScript \/ i \in Undone \/ i \in unwell
                        \/ ~IsFile(paths[i])
    /\ \/ currentScript = 0 /\ unwell = {}
       \/ /\ currentScript \in Slots(paths) /\ currentScript \in Undone
          /\ procs[currentScript] \in {"running", "exited", "failed"}

\* The inductive invariant.
IndexInv ==
  /\ TypeOK /\ UndoneInReverse /\ OneScriptAtATime
  /\ PhaseInv /\ ListInv /\ BelowInv /\ FrozenInv /\ UndoInv

-----------------------------------------------------------------------------
(***************************************************************************)
(* What VmBackupRunNextScript does with a list, its processes and an index. *)
(***************************************************************************)
LEMMA UpFacts ==
  ASSUME NEW list \in Seq(Int), NEW ps \in [Slots(list) -> ProcStates],
         NEW from \in 0..Len(list), NEW r \in NextUp(list, ps, from)
  PROVE  /\ r.index \in 1..(Len(list) + 1) /\ r.index > from
         /\ r.procs \in [Slots(list) -> ProcStates] /\ r.ret \in {-1, 0, 1}
         /\ \A i \in Slots(list) : from < i /\ i < r.index => ~IsFile(list[i])
         /\ \A i \in Slots(list) : i # r.index => r.procs[i] = ps[i]
         /\ r.index \in Slots(list) => r.procs[r.index] = (IF r.ret = 1 THEN "running" ELSE "NULL")
         /\ r.ret = 1 => r.index \in Slots(list)
<1> DEFINE ahead == {i \in Slots(list) : i > from /\ IsFile(list[i])}
<1>0. Len(list) \in Nat /\ Slots(list) = 1..Len(list)
  BY DEF Slots
<1>1. CASE ahead = {}
  <2>1. r = [index |-> Len(list) + 1, procs |-> ps, ret |-> 0, dead |-> {}]
    BY <1>1 DEF NextUp, Terminator
  <2>2. r.index = Len(list) + 1 /\ r.procs = ps /\ r.ret = 0
    BY <2>1
  <2> QED
    BY <1>0, <1>1, <2>2
<1>2. CASE ahead # {}
  <2> DEFINE With(i, v) == [ps EXCEPT ![i] = v]
  <2>1. PICK i \in First(ahead) :
          r \in {[index |-> i, procs |-> With(i, "running"), ret |-> 1, dead |-> {}],
                 [index |-> i, procs |-> With(i, "NULL"), ret |-> -1, dead |-> {i}]}
    BY <1>2 DEF NextUp
  <2>2. /\ r.index = i
        /\ \/ r.procs = With(i, "running") /\ r.ret = 1
           \/ r.procs = With(i, "NULL") /\ r.ret = -1
    <3> HIDE DEF With
    <3> QED
      BY <2>1
  <2>3. i \in Slots(list) /\ i > from /\ \A j \in ahead : i <= j
    BY DEF First
  <2>4. \A j \in Slots(list) : from < j /\ j < i => ~IsFile(list[j])
    BY <1>0, <2>3
  <2> HIDE DEF ahead
  <2>5. r.procs \in [Slots(list) -> ProcStates]
    BY <2>2, <2>3 DEF ProcStates
  <2>6. /\ \A j \in Slots(list) : j # i => r.procs[j] = ps[j]
        /\ r.procs[i] = (IF r.ret = 1 THEN "running" ELSE "NULL")
    <3>1. CASE r.procs = With(i, "running") /\ r.ret = 1
      BY <2>3, <3>1
    <3>2. CASE r.procs = With(i, "NULL") /\ r.ret = -1
      BY <2>3, <3>2
    <3> QED
      BY <2>2, <3>1, <3>2
  <2> QED
    BY <1>0, <2>2, <2>3, <2>4, <2>5, <2>6
<1> QED
  BY <1>1, <1>2

LEMMA DownFacts ==
  ASSUME NEW list \in Seq(Int), NEW ps \in [Slots(list) -> ProcStates],
         NEW from \in 0..(Len(list) + 1), NEW r \in NextDown(list, ps, from)
  PROVE  /\ r.index \in 0..Len(list)
         /\ r.procs \in [Slots(list) -> ProcStates] /\ r.ret \in {-1, 0, 1}
         /\ r.dead = {i \in Slots(list) : i < from /\ r.index < i /\ IsFile(list[i])}
         /\ \A i \in Slots(list) : i = r.index \/ r.procs[i] \in {"NULL", ps[i]}
         /\ r.ret = 1 => /\ r.index \in Slots(list) /\ r.index < from
                         /\ IsFile(list[r.index]) /\ r.procs[r.index] = "running"
         /\ r.ret # 1 => r.index = 0
         /\ r.ret = 0 /\ (\A i \in Slots(list) : i < from => ps[i] = "NULL") => r.dead = {}
<1> DEFINE ahead == {i \in Below(from) \cap Slots(list) : IsFile(list[i])}
           Without(dead) == [i \in Slots(list) |-> IF i \in dead THEN "NULL" ELSE ps[i]]
<1>0. Len(list) \in Nat /\ Slots(list) = 1..Len(list) /\ from \in Nat
  BY DEF Slots
<1>1. ahead = {i \in Slots(list) : i < from /\ IsFile(list[i])}
  BY <1>0 DEF Below
<1>2. ASSUME NEW S
      PROVE  /\ Without(S) \in [Slots(list) -> ProcStates]
             /\ \A i \in Slots(list) : Without(S)[i] = IF i \in S THEN "NULL" ELSE ps[i]
  BY DEF ProcStates
<1>3. CASE \E j \in ahead :
             r = [index |-> j,
                  procs |-> [Without({i \in ahead : i > j}) EXCEPT ![j] = "running"],
                  ret |-> 1,
                  dead |-> {i \in ahead : i > j}]
  <2> DEFINE W(j) == Without({i \in ahead : i > j})
             run(j) == [W(j) EXCEPT ![j] = "running"]
             dead(j) == {i \in ahead : i > j}
  <2>0. PICK j \in ahead : r = [index |-> j, procs |-> run(j), ret |-> 1, dead |-> dead(j)]
    BY <1>3
  <2>1. r.index = j /\ r.procs = run(j) /\ r.ret = 1 /\ r.dead = dead(j)
    <3> HIDE DEF run, dead
    <3> QED
      BY <2>0
  <2>2. j \in Slots(list) /\ j < from /\ IsFile(list[j])
    BY <1>1
  <2>3. /\ W(j) \in [Slots(list) -> ProcStates]
        /\ \A i \in Slots(list) : W(j)[i] \in {"NULL", ps[i]}
    BY <1>2
  <2> HIDE DEF W
  <2>4. r.procs \in [Slots(list) -> ProcStates]
    BY <2>1, <2>2, <2>3 DEF ProcStates
  <2>5. /\ r.procs[j] = "running"
        /\ \A i \in Slots(list) : i = j \/ r.procs[i] \in {"NULL", ps[i]}
    BY <2>1, <2>2, <2>3
  <2>6. r.dead = {i \in Slots(list) : i < from /\ j < i /\ IsFile(list[i])}
    BY <1>0, <1>1, <2>1, <2>2
  <2> QED
    BY <1>0, <2>1, <2>2, <2>4, <2>5, <2>6
<1>4. CASE r = [index |-> 0,
                procs |-> Without(ahead),
                ret |-> IF from > 1 /\ FirstFailed(list, Without(ahead)) THEN -1 ELSE 0,
                dead |-> ahead]
  <2> DEFINE W == Without(ahead)
  <2>1. /\ r.index = 0 /\ r.procs = W /\ r.dead = ahead
        /\ r.ret = IF from > 1 /\ FirstFailed(list, W) THEN -1 ELSE 0
    BY <1>4
  <2>2. /\ W \in [Slots(list) -> ProcStates]
        /\ \A i \in Slots(list) : W[i] = IF i \in ahead THEN "NULL" ELSE ps[i]
    BY <1>2
  <2> HIDE DEF W
  <2>3. ASSUME \A i \in Slots(list) : i < from => ps[i] = "NULL", ahead # {}
        PROVE  from > 1 /\ FirstFailed(list, W)
    <3>1. PICK d \in Slots(list) : d < from /\ IsFile(list[d])
      BY <1>1, <2>3
    <3>2. \A i \in Slots(list) : i < from => W[i] = "NULL"
      BY <2>2, <2>3
    <3>3. CASE IsFile(list[1])
      BY <1>0, <3>1, <3>2, <3>3 DEF FirstFailed
    <3>4. CASE ~IsFile(list[1])
      <4>1. d >= 2
        BY <1>0, <3>1, <3>4
      <4>2. FirstFailed(list, W) /\ from > 1
        <5>1. 2 \in Slots(list) /\ from > 1
          BY <1>0, <3>1, <4>1
        <5>2. W[2] = "NULL"
          BY <1>0, <3>1, <3>2, <4>1, <5>1
        <5> QED
          BY <3>4, <5>1, <5>2 DEF FirstFailed
      <4> QED
        BY <4>2
    <3> QED
      BY <3>3, <3>4
  <2>4. r.dead = {i \in Slots(list) : i < from /\ 0 < i /\ IsFile(list[i])}
    BY <1>0, <1>1, <2>1
  <2> HIDE DEF ahead
  <2>5. r.ret \in {-1, 0} /\ (r.ret = 0 => ~(from > 1 /\ FirstFailed(list, W)))
    BY <2>1
  <2> QED
    BY <1>0, <2>1, <2>2, <2>3, <2>4, <2>5
<1> QED
  BY <1>3, <1>4 DEF NextDown

-----------------------------------------------------------------------------
(***************************************************************************)
(* The inductive invariant, operation by operation.                         *)
(***************************************************************************)
LEMMA InitIndex == ASSUME Init PROVE IndexInv
<1> USE DEF Init
<1>1. TypeOK
  <2>1. files \subseteq -1..MaxEntries
    <3>1. entries \in Int /\ entries <= MaxEntries /\ MaxEntries \in Int
      BY EntriesAssumption
    <3>2. files \subseteq -1..entries
      OBVIOUS
    <3> QED
      BY <3>1, <3>2
  <2>2. Len(paths) = 0 /\ paths \in Seq(-1..MaxEntries) /\ undone \in Seq(1..(MaxEntries + 1))
    OBVIOUS
  <2>3. procs \in [1..Len(paths) -> ProcStates]
    BY <2>2
  <2> QED
    BY <2>1, <2>2, <2>3 DEF TypeOK
<1>2. Len(paths) = 0 /\ Len(undone) = 0 /\ Slots(paths) = {} /\ Undone = {}
  BY DEF Slots, Undone
<1>3. UndoneInReverse /\ OneScriptAtATime
  BY <1>2 DEF UndoneInReverse, OneScriptAtATime
<1>4. PhaseInv /\ ListInv
  BY <1>2, EntriesAssumption DEF PhaseInv, ListInv, Before
<1>5. BelowInv /\ FrozenInv /\ UndoInv
  BY <1>2 DEF BelowInv, FrozenInv, UndoInv
<1> QED
  BY <1>1, <1>3, <1>4, <1>5 DEF IndexInv

\* The numbers of a list: what the slots are, and that its processes fit it.
LEMMA ListFacts ==
  ASSUME TypeOK
  PROVE  /\ Len(paths) \in Nat /\ Slots(paths) = 1..Len(paths) /\ MaxEntries \in Nat
         /\ paths \in Seq(Int) /\ procs \in [Slots(paths) -> ProcStates]
         /\ currentScript \in 0..(Len(paths) + 1) /\ Len(undone) \in Nat
  BY EntriesAssumption DEF TypeOK, Slots

\* A step that leaves the list, the operation and the history, and goes to a phase that
\* asks no more of them.
LEMMA QuietIndex ==
  ASSUME IndexInv, UNCHANGED <<entries, array, op, thawFailed, history>>,
         files' \subseteq files, status' \in {"none", "PENDING", "FINISHED", "ERROR"},
         \/ phase' = phase
         \/ phase' = "failed" /\ phase = "frozen"
         \/ phase' = "over" /\ op = "NULL"
         \/ phase' = "crashed"
  PROVE  IndexInv'
<1> USE DEF array, history
<1>1. TypeOK'
  BY DEF IndexInv, TypeOK
<1>2. Slots(paths)' = Slots(paths) /\ Undone' = Undone
  BY DEF Slots, Undone
<1>3. \A i : IsLegacy(i)' <=> IsLegacy(i)
  BY DEF IsLegacy
<1>4. UndoneInReverse' /\ OneScriptAtATime'
  BY <1>2, <1>3 DEF IndexInv, UndoneInReverse, OneScriptAtATime
<1>5. PhaseInv' /\ ListInv'
  BY <1>2 DEF IndexInv, PhaseInv, ListInv, Before
<1>6. BelowInv'
  BY <1>2, <1>3 DEF IndexInv, BelowInv, Before, IsFile
<1>7. FrozenInv'
  BY DEF IndexInv, FrozenInv, Before
<1>8. UndoInv'
  BY <1>2 DEF IndexInv, UndoInv, IsFile
<1> QED
  BY <1>1, <1>4, <1>5, <1>6, <1>7, <1>8 DEF IndexInv

LEMMA ExitIndex == ASSUME IndexInv, ScriptExits PROVE IndexInv'
<1> USE DEF history
<1>1. PICK e \in {"exited", "failed"} : procs' = [procs EXCEPT ![currentScript] = e]
  BY DEF ScriptExits
<1>2. /\ currentScript \in Slots(paths) /\ procs[currentScript] = "running" /\ scripts = "array"
  BY DEF ScriptExits, Process, IndexInv, TypeOK
<1>3. /\ UNCHANGED <<files, entries, scripts, paths, currentScript, op, thawFailed, phase, status>>
      /\ UNCHANGED <<froze, undone, unwell>>
  BY DEF ScriptExits
<1>4. procs \in [Slots(paths) -> ProcStates] /\ Len(paths) \in Nat
  BY ListFacts DEF IndexInv
<1>5. /\ procs' \in [Slots(paths) -> ProcStates]
      /\ \A i \in Slots(paths) : i # currentScript => procs'[i] = procs[i]
      /\ procs'[currentScript] \in {"exited", "failed"}
  BY <1>1, <1>2, <1>4 DEF ProcStates
<1>6. Slots(paths)' = Slots(paths) /\ Undone' = Undone /\ \A i : IsLegacy(i)' <=> IsLegacy(i)
  BY <1>3 DEF Slots, Undone, IsLegacy
<1>7. TypeOK'
  BY <1>3, <1>5 DEF IndexInv, TypeOK, Slots
<1>8. UndoneInReverse' /\ OneScriptAtATime'
  BY <1>2, <1>3, <1>5, <1>6 DEF IndexInv, UndoneInReverse, OneScriptAtATime
<1>9. PhaseInv' /\ BelowInv' /\ FrozenInv'
  BY <1>3, <1>6 DEF IndexInv, PhaseInv, BelowInv, FrozenInv, Before, IsFile
<1>10. ListInv'
  <2>1. \A i \in Slots(paths) : i < currentScript => i # currentScript
    BY ListFacts DEF IndexInv
  <2> QED
    BY <1>3, <1>5, <1>6, <2>1 DEF IndexInv, ListInv
<1>11. UndoInv'
  <2> SUFFICES ASSUME phase = "undoing"
               PROVE  UndoInv'
    BY <1>3 DEF UndoInv
  <2>1. currentScript # 0 /\ currentScript \in Undone
    BY <1>2, <1>4 DEF IndexInv, UndoInv, Slots
  <2> QED
    BY <1>2, <1>3, <1>5, <1>6, <2>1 DEF IndexInv, UndoInv, IsFile
<1> QED
  BY <1>7, <1>8, <1>9, <1>10, <1>11 DEF IndexInv

\* A freeze ends, with the index and the processes where its last script left them.
LEMMA FreezeEnds ==
  ASSUME IndexInv, phase = "freezing",
         NEW answer \in {"FINISHED", "ERROR"}, NEW ps \in [Slots(paths) -> ProcStates],
         NEW index \in 0..(Len(paths) + 1), Over(answer, paths, ps, index),
         UNCHANGED <<files, entries, undone, unwell>>, froze' \subseteq 1..(MaxEntries + 1),
         \A i \in Slots(paths) : ps[i] # "running" /\ (i < index => ps[i] = "NULL"),
         \A i \in Slots(paths) : i < index => i \in froze' \/ IsLegacy(i) \/ ~IsFile(paths[i]),
         scripts = "array" => \A i \in froze' : i < index
  PROVE  IndexInv'
<1>0. op = "freeze" /\ undone = <<>> /\ (scripts = "array" => unwell = {})
  BY DEF IndexInv, PhaseInv, Before
<1>1. /\ status' = answer /\ op' = "NULL" /\ thawFailed' = 0 /\ phase' \in {"frozen", "failed"}
      /\ scripts' = scripts /\ paths' = paths /\ procs' = ps /\ currentScript' = index
  BY <1>0 DEF Over
<1>2. Slots(paths)' = Slots(paths) /\ Undone' = Undone /\ \A i : IsLegacy(i)' <=> IsLegacy(i)
  BY <1>1 DEF Slots, Undone, IsLegacy
<1>3. TypeOK'
  BY <1>1 DEF IndexInv, TypeOK, Slots
<1>4. UndoneInReverse' /\ OneScriptAtATime'
  BY <1>1, <1>2 DEF IndexInv, UndoneInReverse, OneScriptAtATime
<1>5. PhaseInv' /\ ListInv'
  BY <1>0, <1>1, <1>2 DEF IndexInv, PhaseInv, ListInv, Before
<1>6. BelowInv' /\ FrozenInv' /\ UndoInv'
  BY <1>1, <1>2 DEF BelowInv, FrozenInv, UndoInv, IsFile
<1> QED
  BY <1>3, <1>4, <1>5, <1>6 DEF IndexInv

\* An undo ends, and its list with it.
LEMMA UndoEnds ==
  ASSUME IndexInv, phase = "undoing", NEW answer \in {"FINISHED", "ERROR"}, NEW ps, NEW index,
         Over(answer, paths, ps, index), UNCHANGED <<files, entries, froze, undone>>,
         unwell' \subseteq 1..(MaxEntries + 1)
  PROVE  IndexInv'
<1>0. op # "freeze"
  BY DEF IndexInv, PhaseInv, UndoTypes
<1>1. /\ status' = answer /\ op' = "NULL" /\ thawFailed' = 0 /\ phase' = "over"
      /\ scripts' = "NULL" /\ paths' = <<>> /\ procs' = <<>> /\ currentScript' = 1
  BY <1>0 DEF Over, FreeScripts
<1>2. Slots(paths)' = {} /\ Len(paths') = 0 /\ Undone' = Undone
  BY <1>1 DEF Slots, Undone
<1>3. TypeOK'
  <2>1. paths' \in Seq(-1..MaxEntries) /\ procs' \in [1..Len(paths') -> ProcStates]
    BY <1>1, <1>2
  <2> QED
    BY <1>1, <1>2, <2>1 DEF IndexInv, TypeOK
<1>4. UndoneInReverse' /\ OneScriptAtATime'
  BY <1>1, <1>2 DEF IndexInv, UndoneInReverse, OneScriptAtATime
<1>5. PhaseInv' /\ ListInv'
  BY <1>1, <1>2, EntriesAssumption DEF PhaseInv, ListInv, Before
<1>6. BelowInv' /\ FrozenInv' /\ UndoInv'
  BY <1>1, <1>2 DEF BelowInv, FrozenInv, UndoInv, Before
<1> QED
  BY <1>3, <1>4, <1>5, <1>6 DEF IndexInv

\* Sequences of numbers.
LEMMA SeqWider ==
  ASSUME NEW S, NEW T, S \subseteq T, NEW s \in Seq(S)
  PROVE  s \in Seq(T)
<1>1. s \in [1..Len(s) -> T] /\ Len(s) \in Nat
  OBVIOUS
<1> QED
  BY <1>1

LEMMA SeqJoined ==
  ASSUME NEW T, NEW s \in Seq(T), NEW t \in Seq(T)
  PROVE  s \o t \in Seq(T) /\ Len(s \o t) = Len(s) + Len(t)
  OBVIOUS

LEMMA SeqOne ==
  ASSUME NEW T, NEW x \in T
  PROVE  <<x>> \in Seq(T)
  OBVIOUS

LEMMA SeqElement ==
  ASSUME NEW T, NEW s \in Seq(T), NEW i \in 1..Len(s)
  PROVE  s[i] \in T
  OBVIOUS

LEMMA SeqEmpty ==
  ASSUME NEW T, NEW s \in Seq(T), Len(s) = 0
  PROVE  s = <<>>
  OBVIOUS

\* The list that a freeze builds.
LEMMA ListingFacts ==
  ASSUME TypeOK, NEW l \in Listings
  PROVE  /\ Legacy \o l \in Seq(-1..MaxEntries)
         /\ Len(Legacy \o l) = Len(Legacy) + Len(l)
         /\ Len(l) \in 0..entries /\ Len(Legacy) \in {0, 1} /\ entries \in 0..MaxEntries
<1>0. entries \in Nat /\ entries <= MaxEntries /\ MaxEntries \in Nat
  BY EntriesAssumption DEF TypeOK
<1>1. PICK n \in 0..entries : l \in [1..n -> 1..entries]
  BY DEF Listings
<1>2. l \in Seq(1..entries) /\ Len(l) = n
  BY <1>0, <1>1
<1>3. l \in Seq(-1..MaxEntries)
  <2>1. 1..entries \subseteq -1..MaxEntries
    BY <1>0
  <2> QED
    BY <1>2, <2>1, SeqWider
<1>4. Legacy \in Seq(-1..MaxEntries) /\ Len(Legacy) \in {0, 1}
  <2>1. LegacyFreeze \in -1..MaxEntries
    BY <1>0 DEF LegacyFreeze
  <2>2. CASE Legacy = <<>>
    BY <2>2
  <2>3. CASE Legacy = <<LegacyFreeze>>
    BY <2>1, <2>3
  <2> QED
    BY <2>2, <2>3 DEF Legacy
<1>5. /\ Legacy \o l \in Seq(-1..MaxEntries)
      /\ Len(Legacy \o l) = Len(Legacy) + Len(l)
  BY <1>3, <1>4, SeqJoined
<1> QED
  BY <1>0, <1>2, <1>4, <1>5

LEMMA FreezeIndex == ASSUME IndexInv, NewFreezeOp PROVE IndexInv'
<1> USE DEF history
<1>0. /\ TypeOK /\ phase = "idle" /\ thawFailed' = 0
      /\ UNCHANGED <<files, entries, froze, undone, unwell>>
      /\ froze = {} /\ unwell = {} /\ undone = <<>> /\ op = "NULL"
  BY DEF IndexInv, NewFreezeOp, PhaseInv, Before
<1>1. PICK l \in Listings :
        LET list == Legacy \o l
            idle == [i \in Slots(list) |-> "NULL"]
        IN /\ paths' = list
           /\ \/ /\ Len(Legacy) + entries = 0
                 /\ procs' = idle /\ scripts' = "NULL" /\ currentScript' = 1
                 /\ op' = "freeze" /\ phase' = "freezing" /\ status' = "PENDING"
              \/ /\ scripts' = "array"
                 /\ \E r \in RunNextScript("freeze", list, idle, 0) :
                      /\ procs' = r.procs /\ currentScript' = r.index
                      /\ op' = IF r.ret = -1 THEN "NULL" ELSE "freeze"
                      /\ phase' = IF r.ret = -1 THEN "over" ELSE "freezing"
                      /\ status' = IF r.ret = -1 THEN "ERROR" ELSE "PENDING"
  BY DEF NewFreezeOp
<1> DEFINE list == Legacy \o l
           idle == [i \in Slots(list) |-> "NULL"]
<1>2. list \in Seq(-1..MaxEntries) /\ Len(list) = Len(Legacy) + Len(l) /\ Len(l) \in 0..entries
  BY <1>0, ListingFacts
<1>3. Len(list) \in Nat /\ Len(list) <= MaxEntries + 1 /\ Slots(list) = 1..Len(list)
  <2>1. Len(Legacy) \in {0, 1} /\ entries \in 0..MaxEntries
    BY <1>0, ListingFacts
  <2>2. Slots(list) = 1..Len(list)
    BY DEF Slots
  <2>3. PICK a \in {0, 1}, b \in 0..entries : Len(list) = a + b
    BY <1>2, <2>1
  <2>4. a + b \in Nat /\ a + b <= MaxEntries + 1
    BY <2>1, EntriesAssumption
  <2> QED
    BY <2>2, <2>3, <2>4
<1>4. paths' = list /\ Slots(paths)' = Slots(list) /\ Undone' = {} /\ Len(undone) = 0
  <2>1. Len(undone) = 0
    BY <1>0
  <2> QED
    BY <1>0, <1>1, <2>1 DEF Slots, Undone
<1>5. UndoneInReverse'
  BY <1>0, <1>4 DEF UndoneInReverse
<1>6. CASE /\ Len(Legacy) + entries = 0
           /\ procs' = idle /\ scripts' = "NULL" /\ currentScript' = 1
           /\ op' = "freeze" /\ phase' = "freezing" /\ status' = "PENDING"
  <2>1. Len(list) = 0 /\ list = <<>> /\ Slots(list) = {}
    <3>1. Len(list) = 0
      BY <1>0, <1>2, <1>6, ListingFacts
    <3> HIDE DEF list
    <3>2. list = <<>>
      BY <1>2, <3>1, SeqEmpty
    <3> QED
      BY <1>3, <3>1, <3>2
  <2>2. procs' \in [1..Len(list) -> ProcStates]
    BY <1>3, <1>6 DEF ProcStates
  <2> HIDE DEF list, idle
  <2>3. TypeOK'
    BY <1>0, <1>2, <1>4, <1>6, <2>1, <2>2 DEF TypeOK
  <2>4. OneScriptAtATime' /\ PhaseInv' /\ ListInv'
    BY <1>0, <1>3, <1>4, <1>6, <2>1 DEF OneScriptAtATime, PhaseInv, ListInv, Before
  <2>5. BelowInv' /\ FrozenInv' /\ UndoInv'
    BY <1>0, <1>4, <1>6, <2>1 DEF BelowInv, FrozenInv, UndoInv
  <2> QED
    BY <1>5, <2>3, <2>4, <2>5 DEF IndexInv
<1>7. CASE /\ scripts' = "array"
           /\ \E r \in RunNextScript("freeze", list, idle, 0) :
                /\ procs' = r.procs /\ currentScript' = r.index
                /\ op' = IF r.ret = -1 THEN "NULL" ELSE "freeze"
                /\ phase' = IF r.ret = -1 THEN "over" ELSE "freezing"
                /\ status' = IF r.ret = -1 THEN "ERROR" ELSE "PENDING"
  <2>1. idle \in [Slots(list) -> ProcStates] /\ \A i \in Slots(list) : idle[i] = "NULL"
    BY DEF ProcStates
  <2> HIDE DEF list, idle
  <2>2. PICK r \in NextUp(list, idle, 0) :
          /\ procs' = r.procs /\ currentScript' = r.index
          /\ \/ r.ret = -1 /\ op' = "NULL" /\ phase' = "over" /\ status' = "ERROR"
             \/ r.ret # -1 /\ op' = "freeze" /\ phase' = "freezing" /\ status' = "PENDING"
    BY <1>7 DEF RunNextScript
  <2>3. list \in Seq(Int)
    BY <1>2, SeqWider, EntriesAssumption
  <2>4. /\ r.index \in 1..(Len(list) + 1)
        /\ r.procs \in [Slots(list) -> ProcStates] /\ r.ret \in {-1, 0, 1}
        /\ \A i \in Slots(list) : 0 < i /\ i < r.index => ~IsFile(list[i])
        /\ \A i \in Slots(list) : i # r.index => r.procs[i] = "NULL"
        /\ r.index \in Slots(list) => r.procs[r.index] = (IF r.ret = 1 THEN "running" ELSE "NULL")
    <3>1. 0 \in 0..Len(list)
      BY <1>3
    <3> QED
      BY <2>1, <2>3, <3>1, UpFacts
  <2>5. TypeOK'
    BY <1>0, <1>2, <1>3, <1>4, <1>7, <2>2, <2>4 DEF TypeOK
  <2>6. OneScriptAtATime'
    BY <1>4, <2>2, <2>4 DEF OneScriptAtATime
  <2>7. PhaseInv' /\ ListInv'
    BY <1>0, <1>3, <1>4, <1>7, <2>2, <2>4 DEF PhaseInv, ListInv, Before
  <2>8. BelowInv' /\ FrozenInv' /\ UndoInv'
    BY <1>0, <1>3, <1>4, <2>2, <2>4 DEF BelowInv, FrozenInv, UndoInv, IsFile
  <2> QED
    BY <1>5, <2>5, <2>6, <2>7, <2>8 DEF IndexInv
<1> QED
  BY <1>1, <1>6, <1>7

\* The list of an undo is that of the freeze, but for the legacy script.
LEMMA UndoListFacts ==
  ASSUME TypeOK
  PROVE  /\ UndoList \in Seq(-1..MaxEntries) /\ UndoList \in Seq(Int)
         /\ Len(UndoList) = Len(paths)
         /\ Slots(UndoList) = Slots(paths)
         /\ \A i \in Slots(paths) :
              \/ UndoList[i] = paths[i]
              \/ i = 1 /\ paths[1] = LegacyFreeze /\ UndoList[1] = LegacyThaw
<1>1. Len(paths) \in Nat /\ Slots(paths) = 1..Len(paths) /\ MaxEntries \in Nat
  BY ListFacts
<1>2. \A i \in Slots(paths) :
        /\ UndoList[i] = (IF i = 1 /\ paths[1] = LegacyFreeze THEN LegacyThaw ELSE paths[i])
        /\ UndoList[i] \in -1..MaxEntries
  BY <1>1 DEF UndoList, LegacyThaw, TypeOK
<1>3. UndoList \in Seq(-1..MaxEntries) /\ Len(UndoList) = Len(paths)
  BY <1>1, <1>2 DEF UndoList
<1>4. UndoList \in Seq(Int)
  <2>1. -1..MaxEntries \subseteq Int
    OBVIOUS
  <2> HIDE DEF UndoList
  <2> QED
    BY <1>3, <2>1, SeqWider
<1> QED
  BY <1>1, <1>2, <1>3, <1>4 DEF Slots

\* Without a list an undo has nothing to do.
LEMMA UndoNothing ==
  ASSUME IndexInv, phase \in {"frozen", "failed"}, scripts = "NULL", op' \in UndoTypes,
         phase' = "undoing", status' = "PENDING", thawFailed' = 0,
         UNCHANGED <<files, entries, array, history>>
  PROVE  IndexInv'
<1> USE DEF array, history
<1>1. undone = <<>> /\ paths = <<>> /\ scripts = "NULL"
  BY DEF IndexInv, PhaseInv, ListInv, Before
<1>2. Slots(paths)' = {} /\ Undone' = {} /\ Len(undone) = 0 /\ Len(paths) = 0
  BY <1>1 DEF Slots, Undone
<1>3. TypeOK'
  BY DEF IndexInv, TypeOK, UndoTypes
<1>4. UndoneInReverse' /\ OneScriptAtATime'
  BY <1>2 DEF UndoneInReverse, OneScriptAtATime
<1>5. PhaseInv' /\ ListInv'
  BY <1>1, <1>2, EntriesAssumption DEF PhaseInv, ListInv, Before
<1>6. BelowInv' /\ FrozenInv' /\ UndoInv'
  BY <1>1, <1>2 DEF BelowInv, FrozenInv, UndoInv, Before
<1> QED
  BY <1>3, <1>4, <1>5, <1>6 DEF IndexInv

\* No script of an undo starts: the list is freed, and the operation with it.
LEMMA UndoFails ==
  ASSUME IndexInv, phase \in {"frozen", "failed"}, FreeScripts, op' = "NULL",
         status' = "ERROR", thawFailed' = 0, phase' \in {"failed", "over"},
         unwell' \subseteq 1..(MaxEntries + 1), UNCHANGED <<files, entries, froze, undone>>
  PROVE  IndexInv'
<1>1. /\ scripts' = "NULL" /\ paths' = <<>> /\ procs' = <<>> /\ currentScript' = 1
      /\ undone = <<>>
  BY DEF FreeScripts, IndexInv, PhaseInv, Before
<1>2. Slots(paths)' = {} /\ Len(paths') = 0 /\ Undone' = {} /\ Len(undone) = 0
  BY <1>1 DEF Slots, Undone
<1>3. TypeOK'
  <2>1. paths' \in Seq(-1..MaxEntries) /\ procs' \in [1..Len(paths') -> ProcStates]
    BY <1>1, <1>2
  <2> QED
    BY <1>1, <1>2, <2>1 DEF IndexInv, TypeOK
<1>4. UndoneInReverse' /\ OneScriptAtATime'
  BY <1>2 DEF UndoneInReverse, OneScriptAtATime
<1>5. PhaseInv' /\ ListInv'
  BY <1>1, <1>2, EntriesAssumption DEF PhaseInv, ListInv, Before
<1>6. BelowInv' /\ FrozenInv' /\ UndoInv'
  BY <1>1, <1>2 DEF BelowInv, FrozenInv, UndoInv, Before
<1> QED
  BY <1>3, <1>4, <1>5, <1>6 DEF IndexInv

\* An undo begins where the freeze left the index, and goes down to the first script that
\* starts.
LEMMA UndoBegins ==
  ASSUME IndexInv, phase \in {"frozen", "failed"}, scripts = "array",
         NEW r \in NextDown(UndoList, procs, currentScript), r.ret # -1,
         unwell' = unwell \cup r.dead,
         undone' = IF r.ret = 1 THEN Append(undone, r.index) ELSE undone,
         scripts' = scripts, paths' = UndoList, procs' = r.procs, currentScript' = r.index,
         op' \in UndoTypes, status' = "PENDING", phase' = "undoing",
         thawFailed' = IF r.dead = {} THEN 0 ELSE 1,
         UNCHANGED <<files, entries, froze>>
  PROVE  IndexInv'
<1>0. /\ TypeOK /\ op = "NULL" /\ undone = <<>> /\ unwell = {}
      /\ Len(paths) \in Nat /\ Slots(paths) = 1..Len(paths)
      /\ procs \in [Slots(paths) -> ProcStates] /\ currentScript \in 0..(Len(paths) + 1)
      /\ Len(paths) <= MaxEntries + 1 /\ MaxEntries \in Nat
  BY ListFacts DEF IndexInv, PhaseInv, ListInv, Before
<1>1. /\ UndoList \in Seq(-1..MaxEntries) /\ Len(UndoList) = Len(paths)
      /\ Slots(UndoList) = Slots(paths)
      /\ \A i \in Slots(paths) :
           \/ UndoList[i] = paths[i]
           \/ i = 1 /\ paths[1] = LegacyFreeze /\ UndoList[1] = LegacyThaw
  BY <1>0, UndoListFacts
<1>2. Slots(paths)' = Slots(paths) /\ Len(paths') = Len(paths)
  BY <1>1 DEF Slots
<1>3. /\ r.index \in 0..Len(paths)
      /\ r.procs \in [Slots(paths) -> ProcStates] /\ r.ret \in {0, 1}
      /\ r.dead = {i \in Slots(paths) : i < currentScript /\ r.index < i /\ IsFile(UndoList[i])}
      /\ \A i \in Slots(paths) : i = r.index \/ r.procs[i] \in {"NULL", procs[i]}
      /\ r.ret = 1 => /\ r.index \in Slots(paths) /\ r.index < currentScript
                      /\ IsFile(UndoList[r.index]) /\ r.procs[r.index] = "running"
      /\ r.ret # 1 => r.index = 0
      /\ r.ret = 0 => r.dead = {}
  <2>1. UndoList \in Seq(Int)
    BY <1>0, UndoListFacts
  <2>2. \A i \in Slots(UndoList) : i < currentScript => procs[i] = "NULL"
    BY <1>1 DEF IndexInv, ListInv
  <2> HIDE DEF UndoList
  <2>3. /\ procs \in [Slots(UndoList) -> ProcStates] /\ currentScript \in 0..(Len(UndoList) + 1)
    BY <1>0, <1>1
  <2> QED
    BY <1>1, <2>1, <2>2, <2>3, DownFacts
<1>4. /\ r.ret = 1 => undone' = <<r.index>> /\ Len(undone') = 1 /\ Undone' = {r.index}
      /\ r.ret = 0 => undone' = <<>> /\ Len(undone') = 0 /\ Undone' = {}
  <2>1. ASSUME r.ret = 1 PROVE undone' = <<r.index>>
    BY <1>0, <2>1
  <2>2. ASSUME r.ret = 0 PROVE undone' = <<>>
    BY <1>0, <2>2
  <2> QED
    BY <2>1, <2>2 DEF Undone
<1>5. \A i : IsLegacy(i) <=> i = 1 /\ paths # <<>> /\ paths[1] \in {LegacyFreeze, LegacyThaw}
  BY DEF IsLegacy
<1>6. ASSUME NEW i \in Slots(paths)
      PROVE  /\ IsLegacy(i) => IsLegacy(i)'
             /\ IsLegacy(i)' \/ UndoList[i] = paths[i]
  <2>1. paths' # <<>>
    BY <1>0, <1>2
  <2>2. IsLegacy(i)' <=> i = 1 /\ UndoList[1] \in {LegacyFreeze, LegacyThaw}
    BY <2>1 DEF IsLegacy
  <2> QED
    BY <1>1, <1>5, <2>2
<1>7. TypeOK'
  <2>1. r.dead \subseteq 1..(MaxEntries + 1)
    BY <1>0, <1>3
  <2>2. undone' \in Seq(1..(MaxEntries + 1))
    <3>1. CASE r.ret = 1
      <4>1. r.index \in 1..(MaxEntries + 1)
        BY <1>0, <1>3, <3>1
      <4> QED
        BY <1>4, <3>1, <4>1, SeqOne
    <3>2. CASE r.ret = 0
      BY <1>4, <3>2
    <3> QED
      BY <1>3, <3>1, <3>2
  <2>3. currentScript' \in 0..(Len(paths') + 1)
    BY <1>0, <1>2, <1>3
  <2>4. procs' \in [1..Len(paths') -> ProcStates]
    BY <1>0, <1>2, <1>3
  <2>5. unwell' \subseteq 1..(MaxEntries + 1) /\ thawFailed' \in {0, 1}
    BY <1>0, <2>1
  <2> QED
    BY <1>0, <1>1, <2>2, <2>3, <2>4, <2>5 DEF TypeOK
<1>8. \A i \in Slots(paths) : i < currentScript =>
        i \in froze \/ IsLegacy(i)' \/ ~IsFile(UndoList[i])
  BY <1>6 DEF IndexInv, BelowInv, Before
<1>9. UndoneInReverse'
  <2>1. \A i, j \in 1..Len(undone') : ~(i < j)
    BY <1>3, <1>4
  <2>2. \A i \in Undone' : i \in froze \/ IsLegacy(i)'
    BY <1>3, <1>4, <1>8
  <2> QED
    BY <2>1, <2>2 DEF UndoneInReverse
<1>10. OneScriptAtATime'
  <2>1. \A i \in Slots(paths) : procs[i] # "running"
    BY <1>0 DEF IndexInv, OneScriptAtATime
  <2>2. op' # "NULL"
    BY DEF UndoTypes
  <2> QED
    BY <1>2, <1>3, <2>1, <2>2 DEF OneScriptAtATime
<1>11. PhaseInv'
  BY DEF PhaseInv, Before
<1>12. \A i \in Slots(paths) : i < r.index => i < currentScript /\ i # r.index
  BY <1>0, <1>3
<1>13. ListInv'
  <2>1. \A i \in Slots(paths) : i < r.index => r.procs[i] = "NULL"
    BY <1>3, <1>12 DEF IndexInv, ListInv
  <2> QED
    BY <1>0, <1>2, <2>1 DEF ListInv
<1>14. BelowInv'
  BY <1>2, <1>8, <1>12 DEF BelowInv, IsFile
<1>15. FrozenInv'
  BY DEF FrozenInv, Before
<1>16. UndoInv'
  <2>1. \A i \in froze : i \in Slots(paths) /\ i < currentScript
    <3>1. \A i \in froze : i < currentScript /\ i \in 1..(MaxEntries + 1)
      BY DEF IndexInv, FrozenInv, Before, TypeOK
    <3> QED
      BY <1>0, <3>1
  <2>2. \A i \in Undone' : i >= r.index
    BY <1>0, <1>3, <1>4
  <2>3. unwell' = r.dead /\ (unwell' # {} => thawFailed' = 1)
    BY <1>0
  <2>4. \A i \in froze : i < r.index \/ i \in Undone' \/ i \in r.dead \/ ~IsFile(UndoList[i])
    <3> SUFFICES ASSUME NEW i \in froze, ~(i < r.index), i \notin r.dead, IsFile(UndoList[i])
                 PROVE  i \in Undone'
      OBVIOUS
    <3>1. i = r.index
      BY <1>0, <1>3, <2>1
    <3> QED
      BY <1>0, <1>3, <1>4, <2>1, <3>1
  <2>5. \/ r.index = 0 /\ unwell' = {}
        \/ /\ r.index \in Slots(paths) /\ r.index \in Undone'
           /\ r.procs[r.index] \in {"running", "exited", "failed"}
    BY <1>3, <1>4, <2>3
  <2> QED
    BY <1>2, <2>1, <2>2, <2>3, <2>4, <2>5 DEF UndoInv, IsFile
<1> QED
  BY <1>7, <1>9, <1>10, <1>11, <1>13, <1>14, <1>15, <1>16 DEF IndexInv

LEMMA UndoIndex ==
  ASSUME IndexInv, NEW type \in UndoTypes, NewUndoOp(type)
  PROVE  IndexInv'
<1>0. phase \in {"frozen", "failed"} /\ UNCHANGED <<files, entries, froze>>
  BY DEF NewUndoOp
<1>1. CASE /\ scripts = "NULL"
           /\ op' = type /\ phase' = "undoing" /\ status' = "PENDING" /\ thawFailed' = 0
           /\ UNCHANGED <<array, undone, unwell>>
  BY <1>0, <1>1, UndoNothing DEF history
<1>2. CASE scripts = "array" /\ paths # <<>>
  <2>1. PICK r \in NextDown(UndoList, procs, currentScript) :
             /\ unwell' = unwell \cup r.dead
             /\ undone' = IF r.ret = 1 THEN Append(undone, r.index) ELSE undone
             /\ \/ /\ r.ret = -1
                   /\ FreeScripts
                   /\ op' = "NULL" /\ status' = "ERROR" /\ thawFailed' = 0
                   /\ phase' \in {"failed", "over"}
                \/ /\ r.ret # -1
                   /\ scripts' = scripts /\ paths' = UndoList
                   /\ procs' = r.procs /\ currentScript' = r.index
                   /\ op' = type /\ status' = "PENDING" /\ phase' = "undoing"
                   /\ thawFailed' = IF r.dead = {} THEN 0 ELSE 1
    BY <1>2 DEF NewUndoOp, RunNextScript, UndoTypes
  <2>2. CASE r.ret = -1
    <3>1. r.dead \subseteq Slots(paths)
      <4>1. TypeOK /\ UndoList \in Seq(-1..MaxEntries) /\ Slots(UndoList) = Slots(paths)
            /\ Len(UndoList) = Len(paths)
        BY UndoListFacts DEF IndexInv
      <4>2. UndoList \in Seq(Int)
        BY <4>1, UndoListFacts
      <4>3. procs \in [Slots(UndoList) -> ProcStates] /\ currentScript \in 0..(Len(UndoList) + 1)
        BY <4>1, ListFacts
      <4> HIDE DEF UndoList
      <4> QED
        BY <4>1, <4>2, <4>3, DownFacts
    <3>2. unwell' \subseteq 1..(MaxEntries + 1)
      <4>1. Slots(paths) \subseteq 1..(MaxEntries + 1)
        BY ListFacts DEF IndexInv, ListInv
      <4> QED
        BY <2>1, <3>1, <4>1 DEF IndexInv, TypeOK
    <3> QED
      BY <1>0, <2>1, <2>2, <3>2, UndoFails
  <2>3. CASE r.ret # -1
    BY <1>0, <1>2, <2>1, <2>3, UndoBegins
  <2> QED
    BY <2>2, <2>3
<1> QED
  BY <1>1, <1>2 DEF NewUndoOp

\* A script that has ended stands at the index, and no other process is running.
LEMMA EndedFacts ==
  ASSUME IndexInv, Process \in {"exited", "failed"}
  PROVE  LET ps == [procs EXCEPT ![currentScript] = "NULL"] IN
         /\ TypeOK /\ scripts = "array"
         /\ currentScript \in Slots(paths) /\ Len(paths) \in Nat /\ Slots(paths) = 1..Len(paths)
         /\ Slots(paths) \subseteq 1..(MaxEntries + 1) /\ paths \in Seq(Int)
         /\ ps \in [Slots(paths) -> ProcStates]
         /\ \A i \in Slots(paths) : ps[i] # "running" /\ (i <= currentScript => ps[i] = "NULL")
<1> DEFINE ps == [procs EXCEPT ![currentScript] = "NULL"]
<1>1. currentScript \in Slots(paths) /\ scripts = "array"
  BY DEF Process, IndexInv, TypeOK
<1>2. /\ TypeOK /\ Len(paths) \in Nat /\ Slots(paths) = 1..Len(paths) /\ paths \in Seq(Int)
      /\ procs \in [Slots(paths) -> ProcStates]
  BY ListFacts DEF IndexInv
<1>3. Slots(paths) \subseteq 1..(MaxEntries + 1)
  BY <1>2, EntriesAssumption DEF IndexInv, ListInv
<1>4. /\ ps \in [Slots(paths) -> ProcStates] /\ ps[currentScript] = "NULL"
      /\ \A i \in Slots(paths) : i # currentScript => ps[i] = procs[i]
  BY <1>1, <1>2 DEF ProcStates
<1> HIDE DEF ps
<1>5. \A i \in Slots(paths) : ps[i] # "running"
  BY <1>4 DEF IndexInv, OneScriptAtATime
<1>6. \A i \in Slots(paths) : i <= currentScript => i < currentScript \/ i = currentScript
  BY <1>1, <1>2
<1>7. \A i \in Slots(paths) : i <= currentScript => ps[i] = "NULL"
  BY <1>4, <1>6 DEF IndexInv, ListInv
<1> QED
  BY <1>1, <1>2, <1>3, <1>4, <1>5, <1>7 DEF ps

\* A freeze script has succeeded, and the next one is started, or is not, or there is none.
LEMMA FreezeGoesOn ==
  ASSUME IndexInv, QueryNext, op = "freeze"
  PROVE  IndexInv'
<1> DEFINE ps == [procs EXCEPT ![currentScript] = "NULL"]
<1>0. /\ TypeOK /\ phase = "freezing" /\ scripts = "array"
      /\ currentScript \in Slots(paths) /\ Len(paths) \in Nat /\ Slots(paths) = 1..Len(paths)
      /\ Slots(paths) \subseteq 1..(MaxEntries + 1) /\ paths \in Seq(Int)
      /\ ps \in [Slots(paths) -> ProcStates]
      /\ \A i \in Slots(paths) : ps[i] # "running" /\ (i <= currentScript => ps[i] = "NULL")
  <2>1. phase = "freezing"
    BY DEF QueryNext, IndexInv, PhaseInv, UndoTypes
  <2> QED
    BY <2>1, EndedFacts DEF QueryNext
<1>1. /\ froze' = froze \cup {currentScript} /\ unwell' = unwell /\ undone' = undone
      /\ UNCHANGED <<files, entries>>
  BY DEF QueryNext
<1>2. PICK r \in NextUp(paths, ps, currentScript) :
         \/ /\ r.ret = 1
            /\ procs' = r.procs /\ currentScript' = r.index /\ thawFailed' = 0
            /\ status' = "PENDING"
            /\ UNCHANGED <<scripts, paths, op, phase>>
         \/ r.ret = -1 /\ Over("ERROR", paths, r.procs, r.index)
         \/ r.ret = 0 /\ Over("FINISHED", paths, r.procs, r.index)
  BY DEF QueryNext, RunNextScript
<1> HIDE DEF ps
<1>3. /\ r.index \in 1..(Len(paths) + 1) /\ r.index > currentScript
      /\ r.procs \in [Slots(paths) -> ProcStates] /\ r.ret \in {-1, 0, 1}
      /\ \A i \in Slots(paths) : currentScript < i /\ i < r.index => ~IsFile(paths[i])
      /\ \A i \in Slots(paths) : i # r.index => r.procs[i] = ps[i]
      /\ r.index \in Slots(paths) => r.procs[r.index] = (IF r.ret = 1 THEN "running" ELSE "NULL")
      /\ r.ret = 1 => r.index \in Slots(paths)
  <2>1. currentScript \in 0..Len(paths)
    BY <1>0
  <2> QED
    BY <1>0, <2>1, UpFacts
<1>4. /\ froze' \subseteq Slots(paths) /\ froze' \subseteq 1..(MaxEntries + 1)
      /\ \A i \in froze' : i < r.index
  <2>1. \A i \in froze : i < currentScript /\ i \in 1..(MaxEntries + 1)
    BY <1>0 DEF IndexInv, FrozenInv, Before, TypeOK
  <2> QED
    BY <1>0, <1>1, <1>3, <2>1
<1>5. \A i \in Slots(paths) : i < r.index => i \in froze' \/ IsLegacy(i) \/ ~IsFile(paths[i])
  <2> SUFFICES ASSUME NEW i \in Slots(paths), i < r.index
               PROVE  i \in froze' \/ IsLegacy(i) \/ ~IsFile(paths[i])
    OBVIOUS
  <2>1. CASE i < currentScript
    BY <1>0, <1>1, <2>1 DEF IndexInv, BelowInv, Before
  <2>2. CASE i = currentScript
    BY <1>1, <2>2
  <2>3. CASE currentScript < i
    BY <1>3, <2>3
  <2> QED
    BY <1>0, <2>1, <2>2, <2>3
<1>6. \A i \in Slots(paths) : i # r.index => r.procs[i] = "NULL"
  <2>1. \A i \in Slots(paths) : ps[i] = "NULL"
    <3>1. \A i \in Slots(paths) : i # currentScript => ps[i] = procs[i]
      BY <1>0, ListFacts DEF ps
    <3>2. ps[currentScript] = "NULL"
      BY <1>0
    <3> QED
      BY <1>0, <3>1, <3>2 DEF IndexInv, ListInv
  <2> QED
    BY <1>3, <2>1
<1>7. \A i \in Slots(paths) : i < r.index => i # r.index
  BY <1>0, <1>3
<1>8. CASE r.ret # 1
  <2>1. \A i \in Slots(paths) : r.procs[i] # "running" /\ (i < r.index => r.procs[i] = "NULL")
    BY <1>3, <1>6, <1>7, <1>8
  <2>2. r.index \in 0..(Len(paths) + 1)
    BY <1>0, <1>3
  <2>3. CASE Over("ERROR", paths, r.procs, r.index)
    BY <1>0, <1>1, <1>3, <1>4, <1>5, <2>1, <2>2, <2>3, FreezeEnds
  <2>4. CASE Over("FINISHED", paths, r.procs, r.index)
    BY <1>0, <1>1, <1>3, <1>4, <1>5, <2>1, <2>2, <2>4, FreezeEnds
  <2> QED
    BY <1>2, <1>8, <2>3, <2>4
<1>9. CASE r.ret = 1
  <2>1. /\ procs' = r.procs /\ currentScript' = r.index /\ thawFailed' = 0 /\ status' = "PENDING"
        /\ UNCHANGED <<scripts, paths, op, phase>>
    BY <1>2, <1>9
  <2>2. Slots(paths)' = Slots(paths) /\ Undone' = Undone /\ \A i : IsLegacy(i)' <=> IsLegacy(i)
    BY <1>1, <2>1 DEF Slots, Undone, IsLegacy
  <2>3. TypeOK'
    BY <1>0, <1>1, <1>3, <1>4, <2>1 DEF TypeOK
  <2>4. UndoneInReverse'
    BY <1>0, <1>1, <2>1 DEF IndexInv, UndoneInReverse
  <2>5. OneScriptAtATime'
    BY <1>6, <2>1, <2>2 DEF OneScriptAtATime
  <2>6. PhaseInv'
    BY <1>0, <1>1, <2>1 DEF IndexInv, PhaseInv
  <2>7. ListInv'
    BY <1>0, <1>6, <1>7, <2>1, <2>2 DEF IndexInv, ListInv
  <2>8. BelowInv' /\ FrozenInv' /\ UndoInv'
    BY <1>0, <1>1, <1>4, <1>5, <2>1, <2>2 DEF BelowInv, FrozenInv, UndoInv, IsFile
  <2> QED
    BY <2>3, <2>4, <2>5, <2>6, <2>7, <2>8 DEF IndexInv
<1> QED
  BY <1>8, <1>9

\* What an undo's next step is: the script that has ended is not counted, those that do not
\* start are.
LEMMA UndoNext ==
  ASSUME IndexInv, QueryNext, op \in UndoTypes
  PROVE  LET ps == [procs EXCEPT ![currentScript] = "NULL"] IN
         /\ phase = "undoing" /\ froze' = froze /\ UNCHANGED <<files, entries>>
         /\ \E r \in NextDown(paths, ps, currentScript) :
              /\ r.index \in 0..Len(paths) /\ r.index < currentScript
              /\ r.procs \in [Slots(paths) -> ProcStates] /\ r.ret \in {-1, 0, 1}
              /\ r.dead = {i \in Slots(paths) :
                             i < currentScript /\ r.index < i /\ IsFile(paths[i])}
              /\ \A i \in Slots(paths) : i = r.index \/ r.procs[i] \in {"NULL", ps[i]}
              /\ r.ret = 1 => /\ r.index \in Slots(paths)
                              /\ IsFile(paths[r.index]) /\ r.procs[r.index] = "running"
              /\ r.ret # 1 => r.index = 0
              /\ unwell' = unwell \cup r.dead \cup ({currentScript} \cap FailedThaws)
              /\ undone' = IF r.ret = 1 THEN Append(undone, r.index) ELSE undone
              /\ \/ /\ r.ret = 1
                    /\ procs' = r.procs /\ currentScript' = r.index
                    /\ thawFailed' = ThawFailed(r.dead) /\ status' = "PENDING"
                    /\ UNCHANGED <<scripts, paths, op, phase>>
                 \/ r.ret = -1 /\ Over("ERROR", paths, r.procs, r.index)
                 \/ /\ r.ret = 0
                    /\ Over(IF ThawFailed(r.dead) = 1 THEN "ERROR" ELSE "FINISHED",
                            paths, r.procs, r.index)
<1> DEFINE ps == [procs EXCEPT ![currentScript] = "NULL"]
<1>0. op # "freeze" /\ phase = "undoing" /\ froze' = froze /\ UNCHANGED <<files, entries>>
  BY DEF QueryNext, IndexInv, PhaseInv, UndoTypes
<1>1. PICK r \in NextDown(paths, ps, currentScript) :
              /\ unwell' = unwell \cup r.dead \cup ({currentScript} \cap FailedThaws)
              /\ undone' = IF r.ret = 1 THEN Append(undone, r.index) ELSE undone
              /\ \/ /\ r.ret = 1
                    /\ procs' = r.procs /\ currentScript' = r.index
                    /\ thawFailed' = ThawFailed(r.dead) /\ status' = "PENDING"
                    /\ UNCHANGED <<scripts, paths, op, phase>>
                 \/ r.ret = -1 /\ Over("ERROR", paths, r.procs, r.index)
                 \/ /\ r.ret = 0
                    /\ Over(IF ThawFailed(r.dead) = 1 THEN "ERROR" ELSE "FINISHED",
                            paths, r.procs, r.index)
  BY <1>0 DEF QueryNext, RunNextScript
<1>2. /\ currentScript \in Slots(paths) /\ Len(paths) \in Nat /\ Slots(paths) = 1..Len(paths)
      /\ paths \in Seq(Int) /\ ps \in [Slots(paths) -> ProcStates]
  BY EndedFacts DEF QueryNext
<1> HIDE DEF ps
<1>3. currentScript \in 0..(Len(paths) + 1) /\ 0 < currentScript
  BY <1>2
<1>4. /\ r.index \in 0..Len(paths)
      /\ r.procs \in [Slots(paths) -> ProcStates] /\ r.ret \in {-1, 0, 1}
      /\ r.dead = {i \in Slots(paths) : i < currentScript /\ r.index < i /\ IsFile(paths[i])}
      /\ \A i \in Slots(paths) : i = r.index \/ r.procs[i] \in {"NULL", ps[i]}
      /\ r.ret = 1 => /\ r.index \in Slots(paths) /\ r.index < currentScript
                      /\ IsFile(paths[r.index]) /\ r.procs[r.index] = "running"
      /\ r.ret # 1 => r.index = 0
  <2>1. ps \in [Slots(paths) -> ProcStates] /\ paths \in Seq(Int) /\ currentScript \in 0..(Len(paths) + 1)
    BY <1>2, <1>3
  <2>2. r \in NextDown(paths, ps, currentScript)
    BY <1>1
  <2> QED
    BY <2>1, <2>2, DownFacts
<1>5. r.index < currentScript
  BY <1>3, <1>4
<1> QED
  BY <1>0, <1>1, <1>4, <1>5 DEF ps

LEMMA AppendFacts ==
  ASSUME NEW T, NEW s \in Seq(T), NEW x \in T
  PROVE  /\ Append(s, x) \in Seq(T) /\ Len(Append(s, x)) = Len(s) + 1 /\ Len(s) \in Nat
         /\ \A i \in 1..Len(s) : Append(s, x)[i] = s[i]
         /\ Append(s, x)[Len(s) + 1] = x
  OBVIOUS

\* A script of an undo has ended, and one further down is started.
LEMMA UndoGoesOn ==
  ASSUME IndexInv, QueryNext, op \in UndoTypes, status' = "PENDING"
  PROVE  IndexInv'
<1> DEFINE ps == [procs EXCEPT ![currentScript] = "NULL"]
<1>0. /\ TypeOK /\ scripts = "array" /\ phase = "undoing" /\ froze' = froze
      /\ UNCHANGED <<files, entries>>
      /\ currentScript \in Slots(paths) /\ Len(paths) \in Nat /\ Slots(paths) = 1..Len(paths)
      /\ Slots(paths) \subseteq 1..(MaxEntries + 1)
      /\ \A i \in Slots(paths) : ps[i] # "running" /\ (i <= currentScript => ps[i] = "NULL")
  BY EndedFacts, UndoNext DEF QueryNext
<1>1. PICK r \in NextDown(paths, ps, currentScript) :
        /\ r.index < currentScript /\ r.procs \in [Slots(paths) -> ProcStates]
        /\ r.dead = {i \in Slots(paths) : i < currentScript /\ r.index < i /\ IsFile(paths[i])}
        /\ \A i \in Slots(paths) : i = r.index \/ r.procs[i] \in {"NULL", ps[i]}
        /\ r.index \in Slots(paths) /\ IsFile(paths[r.index]) /\ r.procs[r.index] = "running"
        /\ unwell' = unwell \cup r.dead \cup ({currentScript} \cap FailedThaws)
        /\ undone' = Append(undone, r.index)
        /\ procs' = r.procs /\ currentScript' = r.index /\ thawFailed' = ThawFailed(r.dead)
        /\ UNCHANGED <<scripts, paths, op, phase>>
  BY UndoNext DEF Over
<1> HIDE DEF ps
<1>2. Slots(paths)' = Slots(paths) /\ \A i : IsLegacy(i)' <=> IsLegacy(i)
  BY <1>1 DEF Slots, IsLegacy
<1>3. r.index \in 1..(MaxEntries + 1) /\ r.index \in Nat /\ currentScript \in Nat
  BY <1>0, <1>1
<1>4. /\ undone' \in Seq(1..(MaxEntries + 1)) /\ Len(undone') = Len(undone) + 1
      /\ Len(undone) \in Nat /\ undone'[Len(undone) + 1] = r.index
      /\ \A i \in 1..Len(undone) : undone'[i] = undone[i]
  <2>1. undone \in Seq(1..(MaxEntries + 1))
    BY <1>0 DEF TypeOK
  <2> QED
    BY <1>1, <1>3, <2>1, AppendFacts
<1>5. Undone' = Undone \cup {r.index} /\ Undone \subseteq Nat
  <2>1. \A i \in 1..Len(undone) : undone[i] \in 1..(MaxEntries + 1)
    <3>1. undone \in Seq(1..(MaxEntries + 1))
      BY <1>0 DEF TypeOK
    <3> QED
      BY <3>1, SeqElement
  <2>2. 1..(MaxEntries + 1) \subseteq Nat
    BY EntriesAssumption
  <2>3. Undone \subseteq Nat
    BY <2>1, <2>2 DEF Undone
  <2> QED
    BY <1>4, <2>3 DEF Undone
<1>6. /\ froze \subseteq Slots(paths) /\ currentScript \in Undone
      /\ \A i \in Undone : i >= currentScript
      /\ unwell # {} => thawFailed = 1
      /\ \A i \in froze : i < currentScript \/ i \in Undone \/ i \in unwell \/ ~IsFile(paths[i])
  BY <1>0 DEF IndexInv, UndoInv
<1>7. TypeOK'
  <2>1. unwell' \subseteq 1..(MaxEntries + 1)
    BY <1>0, <1>1 DEF TypeOK
  <2>2. thawFailed' \in {0, 1}
    BY <1>0, <1>1 DEF TypeOK, ThawFailed
  <2> QED
    BY <1>0, <1>1, <1>4, <2>1, <2>2 DEF TypeOK
<1>8. UndoneInReverse'
  <2>1. ASSUME NEW i \in 1..Len(undone'), NEW j \in 1..Len(undone'), i < j
        PROVE  undone'[i] > undone'[j]
    <3>1. i \in 1..Len(undone)
      BY <1>4, <2>1
    <3>2. undone[i] \in Undone /\ undone[i] \in Nat
      BY <1>5, <3>1 DEF Undone
    <3>3. CASE j \in 1..Len(undone)
      BY <1>4, <2>1, <3>1, <3>3 DEF IndexInv, UndoneInReverse
    <3>4. CASE j = Len(undone) + 1
      <4>1. undone[i] >= currentScript
        BY <1>6, <3>2
      <4> QED
        BY <1>1, <1>3, <1>4, <3>1, <3>2, <3>4, <4>1
    <3> QED
      BY <1>4, <3>3, <3>4
  <2>2. r.index \in froze \/ IsLegacy(r.index)
    BY <1>0, <1>1 DEF IndexInv, BelowInv
  <2>3. \A i \in Undone' : i \in froze \/ IsLegacy(i)
    BY <1>0, <1>5, <2>2 DEF IndexInv, UndoneInReverse
  <2> QED
    BY <1>0, <1>2, <2>1, <2>3 DEF UndoneInReverse
<1>9. OneScriptAtATime'
  <2>1. op # "NULL"
    BY DEF UndoTypes
  <2> QED
    BY <1>0, <1>1, <1>2, <2>1 DEF OneScriptAtATime
<1>10. PhaseInv' /\ FrozenInv'
  BY <1>0, <1>1 DEF PhaseInv, FrozenInv, Before
<1>11. \A i \in Slots(paths) : i < r.index => i < currentScript /\ i <= currentScript /\ i # r.index
  BY <1>0, <1>1, <1>3
<1>12. ListInv'
  <2>1. \A i \in Slots(paths) : i < r.index => r.procs[i] = "NULL"
    BY <1>0, <1>1, <1>11
  <2> QED
    BY <1>0, <1>1, <1>2, <2>1 DEF IndexInv, ListInv
<1>13. BelowInv'
  BY <1>0, <1>1, <1>2, <1>11 DEF IndexInv, BelowInv, IsFile
<1>14. UndoInv'
  <2>1. \A i \in Undone' : i >= r.index
    <3>1. ASSUME NEW i \in Undone PROVE i >= r.index
      <4>1. i \in Nat /\ i >= currentScript
        BY <1>5, <1>6
      <4> QED
        BY <1>1, <1>3, <4>1
    <3> QED
      BY <1>3, <1>5, <3>1
  <2>2. ASSUME unwell' # {} PROVE thawFailed' = 1
    <3>1. CASE unwell # {} \/ r.dead # {}
      BY <1>1, <1>6, <3>1 DEF ThawFailed
    <3>2. CASE currentScript \in FailedThaws
      <4>1. op = "thaw" /\ Process = "failed"
        BY <1>0, <3>2 DEF FailedThaws, Process
      <4> QED
        BY <1>1, <4>1 DEF ThawFailed
    <3> QED
      BY <1>1, <2>2, <3>1, <3>2
  <2>3. ASSUME NEW i \in froze, IsFile(paths[i])
        PROVE  i < r.index \/ i \in Undone' \/ i \in unwell'
    <3>1. i \in Slots(paths) /\ i \in Nat
      BY <1>0, <1>6
    <3>2. CASE i < currentScript
      <4>1. i < r.index \/ i = r.index \/ r.index < i
        BY <1>3, <3>1
      <4> QED
        BY <1>1, <1>5, <2>3, <3>1, <3>2, <4>1
    <3>3. CASE ~(i < currentScript)
      BY <1>1, <1>5, <1>6, <2>3, <3>3
    <3> QED
      BY <3>2, <3>3
  <2> QED
    BY <1>0, <1>1, <1>2, <1>5, <1>6, <2>1, <2>2, <2>3 DEF UndoInv, IsFile
<1> QED
  BY <1>7, <1>8, <1>9, <1>10, <1>12, <1>13, <1>14 DEF IndexInv

LEMMA QueryIndex ==
  ASSUME IndexInv, Query \/ Cancel
  PROVE  IndexInv'
<1>0. /\ TypeOK /\ Len(paths) \in Nat /\ Slots(paths) = 1..Len(paths)
      /\ procs \in [Slots(paths) -> ProcStates] /\ currentScript \in 0..(Len(paths) + 1)
      /\ froze \subseteq 1..(MaxEntries + 1) /\ unwell \subseteq 1..(MaxEntries + 1)
  BY ListFacts DEF IndexInv, TypeOK
<1>1. CASE QueryNext
  <2>1. CASE op = "freeze"
    BY <1>1, <2>1, FreezeGoesOn
  <2>2. CASE op \in UndoTypes /\ status' = "PENDING"
    BY <1>1, <2>2, UndoGoesOn
  <2>3. CASE op \in UndoTypes /\ status' # "PENDING"
    <3> DEFINE ps == [procs EXCEPT ![currentScript] = "NULL"]
    <3>0. PICK r \in NextDown(paths, ps, currentScript) :
            /\ r.dead = {i \in Slots(paths) :
                           i < currentScript /\ r.index < i /\ IsFile(paths[i])}
            /\ unwell' = unwell \cup r.dead \cup ({currentScript} \cap FailedThaws)
            /\ undone' = IF r.ret = 1 THEN Append(undone, r.index) ELSE undone
            /\ \/ r.ret = 1 /\ status' = "PENDING"
               \/ r.ret = -1 /\ Over("ERROR", paths, r.procs, r.index)
               \/ /\ r.ret = 0
                  /\ Over(IF ThawFailed(r.dead) = 1 THEN "ERROR" ELSE "FINISHED",
                          paths, r.procs, r.index)
      BY <1>1, <2>3, UndoNext
    <3>1. /\ r.dead \subseteq Slots(paths) /\ undone' = undone
          /\ \E answer \in {"FINISHED", "ERROR"} : Over(answer, paths, r.procs, r.index)
      BY <2>3, <3>0
    <3>2. phase = "undoing" /\ UNCHANGED <<files, entries, froze>>
      BY <1>1, <2>3, UndoNext
    <3>3. currentScript \in Slots(paths) /\ Slots(paths) \subseteq 1..(MaxEntries + 1)
      BY <1>1, EndedFacts DEF QueryNext
    <3>4. unwell' \subseteq 1..(MaxEntries + 1)
      BY <1>0, <3>0, <3>1, <3>3
    <3> QED
      BY <3>1, <3>2, <3>4, UndoEnds
  <2> QED
    BY <1>0, <1>1, <2>1, <2>2, <2>3 DEF TypeOK, QueryNext
<1>2. CASE phase = "undoing" /\ (QueryIdle \/ Cancel)
  <2>1. UNCHANGED <<files, entries, froze, undone, unwell>>
    BY <1>2 DEF QueryIdle, Cancel, history
  <2>2. CASE QueryIdle
    <3>1. Over("FINISHED", paths, procs, currentScript)
      BY <2>2 DEF QueryIdle
    <3> QED
      BY <1>0, <1>2, <2>1, <3>1, UndoEnds
  <2>3. CASE Cancel
    <3>1. PICK ps : Over("ERROR", paths, ps, currentScript)
      BY <2>3 DEF Cancel
    <3> QED
      BY <1>0, <1>2, <2>1, <3>1, UndoEnds
  <2> QED
    BY <1>2, <2>2, <2>3
<1>3. CASE phase = "freezing" /\ (QueryIdle \/ QueryFreezeFailed \/ Cancel)
  <2>1. /\ UNCHANGED <<files, entries, froze, undone, unwell>>
        /\ scripts = "array" => \A i \in froze : i < currentScript
        /\ \A i \in Slots(paths) : i < currentScript =>
             i \in froze \/ IsLegacy(i) \/ ~IsFile(paths[i])
    BY <1>3 DEF QueryIdle, QueryFreezeFailed, Cancel, history, IndexInv, FrozenInv, BelowInv, Before
  <2>2. /\ scripts = "NULL" => Slots(paths) = {}
        /\ \A i \in Slots(paths) : procs[i] = "running" => i = currentScript
        /\ \A i \in Slots(paths) : i < currentScript => procs[i] = "NULL" /\ i # currentScript
    <3>1. scripts = "NULL" => Slots(paths) = {}
      BY <1>0 DEF IndexInv, ListInv
    <3> QED
      BY <1>0, <3>1 DEF IndexInv, ListInv, OneScriptAtATime
  <2>3. CASE QueryIdle
    <3>1. \A i \in Slots(paths) : procs[i] # "running"
      BY <1>0, <2>2, <2>3 DEF QueryIdle, NothingRuns, Process
    <3>2. Over("FINISHED", paths, procs, currentScript)
      BY <2>3 DEF QueryIdle
    <3> QED
      BY <1>0, <1>3, <2>1, <2>2, <3>1, <3>2, FreezeEnds
  <2>4. CASE QueryFreezeFailed
    <3> DEFINE ps == [procs EXCEPT ![currentScript] = "NULL"]
    <3>1. /\ ps \in [Slots(paths) -> ProcStates] /\ currentScript \in Nat
          /\ \A i \in Slots(paths) : ps[i] # "running" /\ (i <= currentScript => ps[i] = "NULL")
      BY <1>0, <2>4, EndedFacts DEF QueryFreezeFailed
    <3>2. Over("ERROR", paths, ps, currentScript)
      BY <2>4 DEF QueryFreezeFailed
    <3> HIDE DEF ps
    <3>3. \A i \in Slots(paths) : ps[i] # "running" /\ (i < currentScript => ps[i] = "NULL")
      BY <1>0, <3>1
    <3> QED
      BY <1>0, <1>3, <2>1, <3>1, <3>2, <3>3, FreezeEnds
  <2>5. CASE Cancel
    <3> DEFINE ps == [i \in Slots(paths) |-> IF i = currentScript THEN Killed(i) ELSE procs[i]]
    <3>1. /\ ps \in [Slots(paths) -> ProcStates]
          /\ \A i \in Slots(paths) : ps[i] # "running" /\ (i < currentScript => ps[i] = "NULL")
      BY <1>0, <2>2 DEF Killed, ProcStates
    <3>2. Over("ERROR", paths, ps, currentScript)
      BY <2>5 DEF Cancel
    <3> HIDE DEF ps
    <3> QED
      BY <1>0, <1>3, <2>1, <3>1, <3>2, FreezeEnds
  <2> QED
    BY <1>3, <2>3, <2>4, <2>5
<1>4. phase \in {"freezing", "undoing"} /\ (QueryFreezeFailed => phase = "freezing")
  BY DEF Query, QueryIdle, QueryFreezeFailed, QueryNext, Cancel
<1> QED
  BY <1>1, <1>2, <1>3, <1>4 DEF Query

LEMMA NextIndex == ASSUME IndexInv, [Next]_vars PROVE IndexInv'
<1>1. CASE UNCHANGED vars
  <2>1. status \in {"none", "PENDING", "FINISHED", "ERROR"}
    BY DEF IndexInv, TypeOK
  <2> QED
    BY <1>1, <2>1, QuietIndex DEF vars
<1>2. CASE NewOpFails
  <2>1. op = "NULL"
    BY <1>2 DEF NewOpFails, IndexInv, PhaseInv
  <2>2. phase' = phase \/ (phase' = "failed" /\ phase = "frozen") \/ phase' = "over"
    BY <1>2 DEF NewOpFails
  <2>3. UNCHANGED <<files, entries, array, op, thawFailed, history>> /\ status' = "ERROR"
    BY <1>2 DEF NewOpFails
  <2> QED
    BY <2>1, <2>2, <2>3, QuietIndex
<1>3. CASE SyncFails \/ ListingFails \/ ListIsEmpty \/ CancelCrashes \/ (\E f \in files : Delete(f))
  <2>1. /\ UNCHANGED <<entries, array, op, thawFailed, status, history>>
        /\ files' \subseteq files
        /\ phase' = phase \/ (phase' = "failed" /\ phase = "frozen") \/ phase' = "crashed"
    BY <1>3 DEF SyncFails, ListingFails, ListIsEmpty, CancelCrashes, Crash, Delete
  <2>2. status \in {"none", "PENDING", "FINISHED", "ERROR"}
    BY DEF IndexInv, TypeOK
  <2> QED
    BY <2>1, <2>2, QuietIndex
<1>4. CASE NewFreezeOp \/ ScriptExits \/ Query \/ Cancel \/ (\E type \in UndoTypes : NewUndoOp(type))
  BY <1>4, FreezeIndex, ExitIndex, QueryIndex, UndoIndex
<1> QED
  BY <1>1, <1>2, <1>3, <1>4 DEF Next

-----------------------------------------------------------------------------
(***************************************************************************)
(* The theorems.                                                            *)
(***************************************************************************)
\* The index that the freeze leaves to the undo always separates what is still to be undone
\* from what was undone or could not be: the inductive invariant of the scripts.
THEOREM IndexIsCorrect == Spec => []IndexInv
  BY InitIndex, NextIndex, PTL DEF Spec

\* The thaw and freezeFail scripts are run in the reverse order of the freeze, once each, only
\* for scripts whose freeze succeeded, and one at a time, for any number of scripts and
\* whatever does not start, fails, is cancelled or is deleted.
THEOREM ScriptsAreCorrect == Spec => []ScriptsInv
<1>1. IndexInv => ScriptsInv
  BY DEF IndexInv, ScriptsInv
<1> QED
  BY <1>1, IndexIsCorrect, PTL

LEMMA CompleteStep ==
  ASSUME IndexInv, [Next]_vars,
         status' = "FINISHED", status # "FINISHED", op \in UndoTypes, scripts = "array"
  PROVE  unwell' = {} /\ (\A i \in froze : i \in Undone \/ ~IsFile(paths[i]))
<1>1. QueryIdle \/ QueryNext
  BY DEF Next, vars, NewFreezeOp, NewOpFails, NewUndoOp, Query, QueryFreezeFailed, Cancel, Over,
         SyncFails, ScriptExits, Delete, ListingFails, ListIsEmpty, CancelCrashes, Crash
<1>2. phase = "undoing"
  BY <1>1 DEF QueryIdle, QueryNext, IndexInv, PhaseInv, UndoTypes
<1>3. /\ froze \subseteq Slots(paths) /\ (unwell # {} => thawFailed = 1)
      /\ \A i \in froze : \/ i < currentScript \/ i \in Undone \/ i \in unwell
                          \/ ~IsFile(paths[i])
      /\ \/ currentScript = 0 /\ unwell = {}
         \/ /\ currentScript \in Slots(paths) /\ currentScript \in Undone
            /\ procs[currentScript] \in {"running", "exited", "failed"}
  BY <1>2 DEF IndexInv, UndoInv
<1>4. Len(paths) \in Nat /\ Slots(paths) = 1..Len(paths)
  BY ListFacts DEF IndexInv
<1>5. CASE QueryIdle
  <2>1. currentScript = 0 /\ unwell = {} /\ unwell' = unwell
    BY <1>3, <1>5 DEF QueryIdle, NothingRuns, Process, history
  <2>2. \A i \in froze : ~(i < currentScript)
    BY <1>3, <1>4, <2>1
  <2> QED
    BY <1>3, <2>1, <2>2
<1>6. CASE QueryNext
  <2> DEFINE ps == [procs EXCEPT ![currentScript] = "NULL"]
  <2>1. PICK r \in NextDown(paths, ps, currentScript) :
          /\ r.dead = {i \in Slots(paths) :
                         i < currentScript /\ r.index < i /\ IsFile(paths[i])}
          /\ r.ret # 1 => r.index = 0
          /\ unwell' = unwell \cup r.dead \cup ({currentScript} \cap FailedThaws)
          /\ \/ r.ret = 1 /\ status' = "PENDING"
             \/ r.ret = -1 /\ Over("ERROR", paths, r.procs, r.index)
             \/ /\ r.ret = 0
                /\ Over(IF ThawFailed(r.dead) = 1 THEN "ERROR" ELSE "FINISHED",
                        paths, r.procs, r.index)
    BY <1>6, UndoNext
  <2>2. r.ret = 0 /\ r.index = 0 /\ ThawFailed(r.dead) # 1
    BY <2>1 DEF Over
  <2>3. /\ ~(Process = "failed" /\ op = "thaw") /\ r.dead = {} /\ thawFailed # 1
    BY <2>2 DEF ThawFailed
  <2>4. currentScript \in Slots(paths) /\ Process = procs[currentScript]
    <3>1. currentScript \in Slots(paths)
      BY <1>6, EndedFacts DEF QueryNext
    <3> QED
      BY <3>1 DEF Process
  <2>5. currentScript \notin FailedThaws /\ unwell = {}
    BY <1>3, <2>3, <2>4 DEF FailedThaws
  <2>6. ASSUME NEW i \in froze, IsFile(paths[i])
        PROVE  i \in Undone
    <3>1. ~(i < currentScript)
      <4>1. i \in Slots(paths) /\ 0 < i
        BY <1>3, <1>4
      <4> QED
        BY <2>1, <2>2, <2>3, <2>6, <4>1
    <3> QED
      BY <1>3, <2>5, <2>6, <3>1
  <2> QED
    BY <2>1, <2>3, <2>5, <2>6
<1> QED
  BY <1>1, <1>5, <1>6

\* An undo that answers that it is finished has started the script of everything that was
\* frozen and still exists; all of them started and, thawing, none of them failed.
THEOREM FinishedTheorem == Spec => FinishedIsComplete
<1>1. ASSUME IndexInv, [Next]_vars
      PROVE  [status' = "FINISHED" /\ status # "FINISHED" /\ op \in UndoTypes /\ scripts = "array"
                => unwell' = {} /\ (\A i \in froze : i \in Undone \/ ~IsFile(paths[i]))]_vars
  BY <1>1, CompleteStep
<1> QED
  BY <1>1, IndexIsCorrect, PTL DEF Spec, FinishedIsComplete
=============================================================================
