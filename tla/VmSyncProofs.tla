---------------------------- MODULE VmSyncProofs ----------------------------
(***************************************************************************)
(* The vmsync module, for any number of descriptors, devices, threads and  *)
(* paths: the lists and the kernel's counts agree, no device is on the     *)
(* lists of two descriptors, the work item that thaws is never forgotten,  *)
(* and it is done before its state is freed.  The inductive invariant adds *)
(* what gFreezeLock protects, who may still be at work on a descriptor     *)
(* that is released, and how often its work item can have been scheduled.  *)
(***************************************************************************)
EXTENDS VmSync, FiniteSetTheorems, TLAPS

Freezing(t) == At(t, "add") \/ At(t, "freeze")
Scheduling(t, f) == On(t, f) /\ (Freezing(t) \/ At(t, "schedule"))
Frees(t) == (At(t, "flush") \/ At(t, "lock") \/ At(t, "thaw")) /\ call[t].release

\* The kernel thread only thaws, and never frees a state.
KeventdThaws ==
  ~At(Keventd, "idle") => (At(Keventd, "lock") \/ At(Keventd, "thaw")) /\ ~call[Keventd].release

\* gFreezeLock excludes.
FreezersExclude == \A t, u \in Tasks : Freezing(t) /\ Freezing(u) => t = u

\* The devices that VmSyncAddPath has accepted are frozen by no other descriptor.
PathsAreFree ==
  \A t \in Tasks :
    Freezing(t) =>
      \A i \in DOMAIN call[t].pathList, g \in Files :
        g # call[t].file => Freezes(g, {call[t].pathList[i]}) = {}

\* User threads are at work on open descriptors only, and a state is freed without devices.
StatesInUse ==
  /\ \A t \in Threads : ~At(t, "idle") => state[call[t].file] = "open"
  /\ \A f \in Files : state[f] = "freed" => devices[f] = <<>>

\* The release is the last thread on its descriptor.
ReleaseIsLast == \A t, u \in Threads : Frees(t) /\ On(u, call[t].file) => u = t

\* The work item of a descriptor that is frozen once is scheduled once.
WorkOnce ==
  \A f \in Files :
    /\ freezes[f] = 0 => thawTask[f] = "idle" /\ ~On(Keventd, f) /\ \A t \in Tasks : ~Scheduling(t, f)
    /\ freezes[f] = 1 =>
         /\ \A t, u \in Tasks : Scheduling(t, f) /\ Scheduling(u, f) => t = u
         /\ \A t \in Tasks : Scheduling(t, f) => thawTask[f] = "idle" /\ ~On(Keventd, f)
         /\ On(Keventd, f) => thawTask[f] = "idle"

\* The release has cancelled the work item or waited for it.
ReleaseWaits ==
  \A t \in Threads :
    Frees(t) =>
      /\ At(t, "flush") => thawTask[call[t].file] # "timer"
      /\ ~At(t, "flush") /\ freezes[call[t].file] <= 1 =>
           thawTask[call[t].file] = "idle" /\ ~On(Keventd, call[t].file)

WorkInv ==
  /\ TypeOK /\ KeventdThaws /\ StatesInUse /\ ReleaseIsLast /\ WorkOnce /\ ReleaseWaits
  /\ ThawIsPending /\ StateOutlivesWork

SyncInv == WorkInv /\ FreezersExclude /\ PathsAreFree /\ FreezesAreOwned /\ OneFreezer

-----------------------------------------------------------------------------
(***************************************************************************)
(* Calls.                                                                  *)
(***************************************************************************)
USE VmSyncAssumption

LEMMA CallTypes ==
  ASSUME TypeOK, NEW t \in Tasks
  PROVE  /\ At(t, "idle") <=> call[t] = Idle
         /\ At(t, "add") \/ At(t, "freeze") \/ At(t, "schedule") <=> call[t] \in FreezeCall
         /\ At(t, "flush") \/ At(t, "lock") \/ At(t, "thaw") <=> call[t] \in ThawCall
         /\ ~At(t, "idle") => call[t].file \in Files
<1>1. call[t] = Idle \/ call[t] \in FreezeCall \/ call[t] \in ThawCall
  BY DEF TypeOK
<1>2. Idle.pc = "idle"
  BY DEF Idle
<1>3. \A r \in FreezeCall : r.pc \in {"add", "freeze", "schedule"} /\ r.file \in Files
  BY DEF FreezeCall
<1>4. \A r \in ThawCall : r.pc \in {"flush", "lock", "thaw"} /\ r.file \in Files
  BY DEF ThawCall
<1> QED
  BY <1>1, <1>2, <1>3, <1>4 DEF At

LEMMA CallMoves ==
  ASSUME TypeOK, NEW t \in Tasks, NEW v, call' = [call EXCEPT ![t] = v]
  PROVE  /\ call'[t] = v /\ \A u \in Tasks \ {t} : call'[u] = call[u]
         /\ v \in {Idle} \cup FreezeCall \cup ThawCall =>
              call' \in [Tasks -> {Idle} \cup FreezeCall \cup ThawCall]
BY DEF TypeOK

\* The call of a thread after each step of VmSyncFreezeDevices.
LEMMA FreezeFields ==
  ASSUME TypeOK, NEW t \in Tasks
  PROVE  /\ AddPath(t) =>
              /\ call'[t] \in FreezeCall /\ call[t] \in FreezeCall
              /\ call'[t].pc = "add" /\ call'[t].file = call[t].file
              /\ \/ call'[t].pathList = call[t].pathList
                 \/ \E d \in Devices :
                      bdFreeze[d] = 0 /\ call'[t].pathList = Append(call[t].pathList, d)
         /\ FreezeNext(t) =>
              /\ call'[t] \in FreezeCall /\ call[t] \in FreezeCall
              /\ call'[t].pc = "freeze" /\ call'[t].file = call[t].file
              /\ call'[t].pathList = Tail(call[t].pathList) /\ Head(call[t].pathList) \in Devices
         /\ FreezeUnlock(t) =>
              /\ call'[t] \in FreezeCall /\ call[t] \in FreezeCall
              /\ call'[t].pc = "schedule" /\ call'[t].file = call[t].file
         /\ Schedule(t) \/ DropPaths(t) => call'[t] = Idle /\ call[t] \in FreezeCall
         /\ AddPath(t) \/ FreezeNext(t) \/ FreezeUnlock(t) \/ Schedule(t) \/ DropPaths(t) =>
              /\ \A u \in Tasks \ {t} : call'[u] = call[u]
              /\ call' \in [Tasks -> {Idle} \cup FreezeCall \cup ThawCall]
<1>1. ASSUME AddPath(t)
      PROVE  /\ call'[t] \in FreezeCall /\ call[t] \in FreezeCall
             /\ call'[t].pc = "add" /\ call'[t].file = call[t].file
             /\ \/ call'[t].pathList = call[t].pathList
                \/ \E d \in Devices :
                     bdFreeze[d] = 0 /\ call'[t].pathList = Append(call[t].pathList, d)
             /\ \A u \in Tasks \ {t} : call'[u] = call[u]
             /\ call' \in [Tasks -> {Idle} \cup FreezeCall \cup ThawCall]
  <2> DEFINE p == Head(call[t].todo)
             c == call[t]
  <2>1. c \in FreezeCall /\ c.pc = "add"
    BY <1>1, CallTypes DEF AddPath, At
  <2>2. /\ c.todo \in Seq(Paths) /\ c.todo # <<>> /\ c.pathList \in Seq(Devices) /\ c.file \in Files
        /\ c.result \in {"0", "EALREADY", "ENOMEM", "ENOENT"}
    BY <1>1, <2>1 DEF AddPath, FreezeCall
  <2>3. p \in Paths /\ Tail(c.todo) \in Seq(Paths)
    BY <2>2
  <2>4. PICK r \in AddPathResults(c.file, p) : call' = [call EXCEPT ![t] = AfterPath(c, p, r)]
    BY <1>1 DEF AddPath
  <2>5. r = "0" => p \in Devices /\ bdFreeze[p] = 0
    <3>1. ASSUME r = "0"
          PROVE  p # NoDevice /\ ~(bdFreeze[p] > 0)
      BY <2>4, <3>1 DEF AddPathResults
    <3>2. \A d \in Devices : bdFreeze[d] \in Nat
      BY DEF TypeOK
    <3> QED
      BY <2>3, <3>1, <3>2 DEF Paths
  <2>6. r \in {"0", "EINVAL", "listed", "EALREADY", "ENOMEM", "ENOENT"}
    BY <2>4 DEF AddPathResults
  <2> DEFINE v == AfterPath(c, p, r)
  <2> HIDE DEF p, c
  <2>7. /\ v \in FreezeCall /\ v.pc = "add" /\ v.file = c.file
        /\ v.pathList = (IF r = "0" THEN Append(c.pathList, p) ELSE c.pathList)
    <3>1. CASE r = "0"
      <4>1. Append(c.pathList, p) \in Seq(Devices)
        BY <2>2, <2>5, <3>1
      <4> QED
        BY <2>1, <2>2, <2>3, <3>1, <4>1 DEF FreezeCall, AfterPath
    <3>2. CASE r \in {"EINVAL", "listed"}
      BY <2>1, <2>2, <2>3, <3>2 DEF FreezeCall, AfterPath
    <3>3. CASE r \in {"EALREADY", "ENOMEM", "ENOENT"}
      <4>1. v = [c EXCEPT !.todo = <<>>, !.result = r]
        BY <3>3 DEF AfterPath
      <4>2. <<>> \in Seq(Paths) /\ r # "0"
        BY <3>3
      <4> QED
        BY <2>1, <2>2, <3>3, <4>1, <4>2 DEF FreezeCall
    <3> QED
      BY <2>6, <3>1, <3>2, <3>3
  <2>8. call' = [call EXCEPT ![t] = v]
    BY <2>4
  <2> HIDE DEF v
  <2>9. call'[t] = v /\ \A u \in Tasks \ {t} : call'[u] = call[u]
    BY <2>8, CallMoves
  <2>10. call' \in [Tasks -> {Idle} \cup FreezeCall \cup ThawCall]
    BY <2>7, <2>8, CallMoves
  <2> QED
    BY <2>1, <2>5, <2>7, <2>9, <2>10 DEF c
<1>2. ASSUME FreezeNext(t)
      PROVE  /\ call'[t] \in FreezeCall /\ call[t] \in FreezeCall
             /\ call'[t].pc = "freeze" /\ call'[t].file = call[t].file
             /\ call'[t].pathList = Tail(call[t].pathList) /\ Head(call[t].pathList) \in Devices
             /\ \A u \in Tasks \ {t} : call'[u] = call[u]
             /\ call' \in [Tasks -> {Idle} \cup FreezeCall \cup ThawCall]
  <2>1. call[t] \in FreezeCall /\ call[t].pathList # <<>>
    BY <1>2, CallTypes DEF FreezeNext
  <2>2. /\ call[t].pathList \in Seq(Devices) /\ Tail(call[t].pathList) \in Seq(Devices)
        /\ Head(call[t].pathList) \in Devices
    BY <2>1 DEF FreezeCall
  <2> DEFINE v == [call[t] EXCEPT !.pc = "freeze", !.pathList = Tail(call[t].pathList)]
  <2>3. /\ v \in FreezeCall /\ v.pc = "freeze" /\ v.file = call[t].file
        /\ v.pathList = Tail(call[t].pathList)
    BY <2>1, <2>2 DEF FreezeCall
  <2>4. call' = [call EXCEPT ![t] = v]
    BY <1>2 DEF FreezeNext, TypeOK
  <2> HIDE DEF v
  <2> QED
    BY <2>1, <2>2, <2>3, <2>4, CallMoves
<1>3. ASSUME FreezeUnlock(t)
      PROVE  /\ call'[t] \in FreezeCall /\ call[t] \in FreezeCall
             /\ call'[t].pc = "schedule" /\ call'[t].file = call[t].file
             /\ \A u \in Tasks \ {t} : call'[u] = call[u]
             /\ call' \in [Tasks -> {Idle} \cup FreezeCall \cup ThawCall]
  <2>1. call[t] \in FreezeCall
    BY <1>3, CallTypes DEF FreezeUnlock
  <2> DEFINE v == [call[t] EXCEPT !.pc = "schedule"]
  <2>2. v \in FreezeCall /\ v.pc = "schedule" /\ v.file = call[t].file
    BY <2>1 DEF FreezeCall
  <2>3. call' = [call EXCEPT ![t] = v]
    BY <1>3 DEF FreezeUnlock
  <2> HIDE DEF v
  <2> QED
    BY <2>1, <2>2, <2>3, CallMoves
<1>4. ASSUME Schedule(t) \/ DropPaths(t)
      PROVE  /\ call'[t] = Idle /\ call[t] \in FreezeCall
             /\ \A u \in Tasks \ {t} : call'[u] = call[u]
             /\ call' \in [Tasks -> {Idle} \cup FreezeCall \cup ThawCall]
  <2>1. call[t] \in FreezeCall
    BY <1>4, CallTypes DEF Schedule, DropPaths
  <2>2. call' = [call EXCEPT ![t] = Idle]
    BY <1>4 DEF Schedule, DropPaths
  <2> QED
    BY <2>1, <2>2, CallMoves
<1> QED
  BY <1>1, <1>2, <1>3, <1>4

\* The same for VmSyncThawDevices and VmSyncRelease, and for the calls that begin.
LEMMA ThawFields ==
  ASSUME TypeOK, NEW t \in Tasks
  PROVE  /\ ThawLock(t) \/ Flush(t) =>
              /\ call'[t] \in ThawCall /\ call[t] \in ThawCall
              /\ call'[t].pc = (IF At(t, "lock") THEN "thaw" ELSE "lock")
              /\ call'[t].file = call[t].file /\ call'[t].release = call[t].release
         /\ ThawUnlock(t) => call'[t] = Idle /\ call[t] \in ThawCall
         /\ ThawLock(t) \/ Flush(t) \/ ThawUnlock(t) =>
              /\ \A u \in Tasks \ {t} : call'[u] = call[u]
              /\ call' \in [Tasks -> {Idle} \cup FreezeCall \cup ThawCall]
<1>1. ASSUME ThawLock(t) \/ Flush(t)
      PROVE  /\ call'[t] \in ThawCall /\ call[t] \in ThawCall
             /\ call'[t].pc = (IF At(t, "lock") THEN "thaw" ELSE "lock")
             /\ call'[t].file = call[t].file /\ call'[t].release = call[t].release
             /\ \A u \in Tasks \ {t} : call'[u] = call[u]
             /\ call' \in [Tasks -> {Idle} \cup FreezeCall \cup ThawCall]
  <2>1. call[t] \in ThawCall
    BY <1>1, CallTypes DEF ThawLock, Flush
  <2> DEFINE v == [call[t] EXCEPT !.pc = IF At(t, "lock") THEN "thaw" ELSE "lock"]
  <2>2. /\ v \in ThawCall /\ v.pc = (IF At(t, "lock") THEN "thaw" ELSE "lock")
        /\ v.file = call[t].file /\ v.release = call[t].release
    BY <2>1 DEF ThawCall
  <2>3. call' = [call EXCEPT ![t] = v]
    BY <1>1 DEF ThawLock, Flush, At
  <2> HIDE DEF v
  <2> QED
    BY <2>1, <2>2, <2>3, CallMoves
<1>2. ASSUME ThawUnlock(t)
      PROVE  /\ call'[t] = Idle /\ call[t] \in ThawCall
             /\ \A u \in Tasks \ {t} : call'[u] = call[u]
             /\ call' \in [Tasks -> {Idle} \cup FreezeCall \cup ThawCall]
  <2>1. call[t] \in ThawCall /\ call' = [call EXCEPT ![t] = Idle]
    BY <1>2, CallTypes DEF ThawUnlock
  <2> QED
    BY <2>1, CallMoves
<1> QED
  BY <1>1, <1>2

LEMMA BeginFields ==
  ASSUME TypeOK, NEW t \in Tasks, NEW f \in Files
  PROVE  /\ \A paths \in PathLists :
              FreezeDevices(t, f, paths) =>
                /\ call[t] = Idle /\ call'[t] \in FreezeCall
                /\ call'[t].pc = "add" /\ call'[t].file = f /\ call'[t].pathList = <<>>
                /\ \A u \in Tasks \ {t} : call'[u] = call[u]
                /\ call' \in [Tasks -> {Idle} \cup FreezeCall \cup ThawCall]
         /\ \A label \in {"flush", "lock", "thaw"}, release \in BOOLEAN :
              call' = [call EXCEPT ![t] = ThawDevices(f, label, release)] =>
                /\ call'[t] \in ThawCall
                /\ call'[t].pc = label /\ call'[t].file = f /\ call'[t].release = release
                /\ \A u \in Tasks \ {t} : call'[u] = call[u]
                /\ call' \in [Tasks -> {Idle} \cup FreezeCall \cup ThawCall]
<1>1. ASSUME NEW paths \in PathLists, FreezeDevices(t, f, paths)
      PROVE  /\ call[t] = Idle /\ call'[t] \in FreezeCall
             /\ call'[t].pc = "add" /\ call'[t].file = f /\ call'[t].pathList = <<>>
             /\ \A u \in Tasks \ {t} : call'[u] = call[u]
             /\ call' \in [Tasks -> {Idle} \cup FreezeCall \cup ThawCall]
  <2> DEFINE v == [pc |-> "add", file |-> f, todo |-> paths, pathList |-> <<>>, result |-> "0"]
  <2>0. paths \in Seq(Paths)
    BY DEF Paths
  <2>1. v \in FreezeCall /\ v.pc = "add" /\ v.file = f /\ v.pathList = <<>>
    BY <2>0 DEF FreezeCall
  <2>2. call' = [call EXCEPT ![t] = v] /\ call[t] = Idle
    BY <1>1, CallTypes DEF FreezeDevices, MayCall
  <2> HIDE DEF v
  <2> QED
    BY <2>1, <2>2, CallMoves
<1>2. ASSUME NEW label \in {"flush", "lock", "thaw"}, NEW release \in BOOLEAN,
             call' = [call EXCEPT ![t] = ThawDevices(f, label, release)]
      PROVE  /\ call'[t] \in ThawCall
             /\ call'[t].pc = label /\ call'[t].file = f /\ call'[t].release = release
             /\ \A u \in Tasks \ {t} : call'[u] = call[u]
             /\ call' \in [Tasks -> {Idle} \cup FreezeCall \cup ThawCall]
  <2> DEFINE v == ThawDevices(f, label, release)
  <2>1. v \in ThawCall /\ v.pc = label /\ v.file = f /\ v.release = release
    BY DEF ThawCall, ThawDevices
  <2> HIDE DEF v
  <2> QED
    BY <1>2, <2>1, CallMoves DEF v
<1> QED
  BY <1>1, <1>2

-----------------------------------------------------------------------------
(***************************************************************************)
(* The work item and the release, by step.                                 *)
(***************************************************************************)
Callers == KeventdThaws /\ StatesInUse /\ ReleaseIsLast
Work == WorkOnce /\ ReleaseWaits /\ ThawIsPending /\ StateOutlivesWork

LEMMA TypesOfCalls ==
  ASSUME WorkInv
  PROVE  /\ TypeOK /\ Callers /\ Work
         /\ Threads \subseteq Tasks /\ Keventd \in Tasks /\ Keventd \notin Threads
         /\ Tasks = Threads \cup {Keventd}
         /\ \A t \in Tasks : ~At(t, "idle") => call[t].file \in Files
         /\ \A f \in Files : freezes[f] \in Nat
         /\ DOMAIN state = Files /\ DOMAIN freezes = Files /\ DOMAIN thawTask = Files /\ DOMAIN devices = Files
BY CallTypes DEF WorkInv, Callers, Work, Tasks, TypeOK

\* Steps that leave every call where it is.
LEMMA QuietSteps ==
  ASSUME WorkInv, NEW f \in Files,
         Open(f) \/ TimerExpires(f) \/ ReleaseUnprivileged(f) \/ DropCapability(f)
  PROVE  Callers' /\ Work'
<1>0. /\ Callers /\ Work /\ DOMAIN state = Files /\ DOMAIN thawTask = Files /\ Threads \subseteq Tasks
      /\ \A t \in Tasks : ~At(t, "idle") => call[t].file \in Files
  BY TypesOfCalls
<1>1. /\ UNCHANGED <<freezes, devices, call>>
      /\ \/ state' = [state EXCEPT ![f] = "open"] /\ state[f] = "none" /\ thawTask' = thawTask
         \/ /\ state' = [state EXCEPT ![f] = "leaked"] /\ thawTask' = thawTask
            /\ state[f] = "open" /\ \A t \in Threads : ~On(t, f)
         \/ thawTask' = [thawTask EXCEPT ![f] = "queued"] /\ thawTask[f] = "timer" /\ state' = state
         \/ UNCHANGED <<state, thawTask>>
  BY DEF Open, TimerExpires, ReleaseUnprivileged, DropCapability, stateVars, InUse
<1>2. Callers'
  BY <1>0, <1>1 DEF Callers, KeventdThaws, StatesInUse, ReleaseIsLast, Frees, On, At
<1>3. WorkOnce' /\ StateOutlivesWork' /\ ReleaseWaits'
  BY <1>0, <1>1 DEF Work, WorkOnce, StateOutlivesWork, ReleaseWaits, Scheduling, Freezing, Frees, On, At
<1>4. ThawIsPending'
  BY <1>0, <1>1 DEF Work, ThawIsPending, On, At
<1> QED
  BY <1>2, <1>3, <1>4 DEF Work

LEMMA OtherSteps ==
  ASSUME WorkInv, UNCHANGED <<state, freezes, thawTask, devices, call>>
  PROVE  Callers' /\ Work'
<1>0. Callers /\ Work
  BY TypesOfCalls
<1>1. Callers'
  BY <1>0 DEF Callers, KeventdThaws, StatesInUse, ReleaseIsLast, Frees, On, At
<1>2. Work'
  BY <1>0 DEF Work, WorkOnce, StateOutlivesWork, ReleaseWaits, ThawIsPending, Scheduling, Freezing, Frees,
              On, At
<1> QED
  BY <1>1, <1>2

\* A thread that freezes goes on, up to the point where it schedules the work item.
LEMMA FreezeSteps ==
  ASSUME WorkInv, NEW t \in Tasks, AddPath(t) \/ FreezeNext(t) \/ FreezeUnlock(t)
  PROVE  Callers' /\ Work'
<1>0. /\ TypeOK /\ Callers /\ Work /\ Threads \subseteq Tasks /\ Keventd \in Tasks
      /\ DOMAIN devices = Files /\ Tasks = Threads \cup {Keventd}
  BY TypesOfCalls
<1>1. /\ call[t].pc \in {"add", "freeze"} /\ call'[t].file = call[t].file
      /\ \/ AddPath(t) /\ call'[t].pc = "add" /\ call[t].pc = "add"
         \/ FreezeNext(t) /\ call'[t].pc = "freeze"
         \/ FreezeUnlock(t) /\ call'[t].pc = "schedule"
      /\ FreezeNext(t) => call'[t].pc = "freeze"
      /\ \A u \in Tasks \ {t} : call'[u] = call[u]
  <2>1. call[t].pc \in {"add", "freeze"} /\ (AddPath(t) => call[t].pc = "add")
    BY DEF AddPath, FreezeNext, FreezeUnlock, At
  <2> QED
    BY <1>0, <2>1, FreezeFields
<1>2. t \in Threads /\ call[t].file \in Files
  BY <1>0, <1>1, TypesOfCalls DEF Callers, KeventdThaws, At
<1>3. UNCHANGED <<state, freezes, thawTask>> /\ (~FreezeNext(t) => devices' = devices)
      /\ \A f \in Files : f # call[t].file => devices'[f] = devices[f]
  BY <1>0 DEF AddPath, FreezeNext, FreezeUnlock, stateVars
<1>4. Callers'
  BY <1>0, <1>1, <1>2, <1>3 DEF Callers, KeventdThaws, StatesInUse, ReleaseIsLast, Frees, On, At
<1>5. WorkOnce' /\ StateOutlivesWork'
  BY <1>0, <1>1, <1>2, <1>3 DEF Work, WorkOnce, StateOutlivesWork, Scheduling, Freezing, On, At
<1>6. ReleaseWaits'
  BY <1>0, <1>1, <1>2, <1>3 DEF Work, ReleaseWaits, Frees, On, At
<1>7. ThawIsPending'
  <2> SUFFICES ASSUME NEW f \in Files, devices'[f] # <<>>, thawTask'[f] = "idle"
               PROVE  \E u \in Tasks : On(u, f)' /\ ~At(u, "add")'
    BY DEF ThawIsPending
  <2>1. CASE FreezeNext(t) /\ f = call[t].file
    BY <1>1, <2>1 DEF On, At
  <2>2. CASE devices'[f] = devices[f]
    <3>1. PICK u \in Tasks : On(u, f) /\ ~At(u, "add")
      BY <1>0, <1>3, <2>2 DEF Work, ThawIsPending
    <3>2. CASE u = t
      BY <1>1, <3>1, <3>2 DEF On, At
    <3>3. CASE u # t
      BY <1>1, <3>1, <3>3 DEF On, At
    <3> QED
      BY <3>2, <3>3
  <2> QED
    BY <1>3, <2>1, <2>2
<1> QED
  BY <1>4, <1>5, <1>6, <1>7 DEF Work

\* The call returns: VmSyncFreezeDevices has failed, or schedules the work item.
LEMMA FreezeReturns ==
  ASSUME WorkInv, NEW t \in Tasks, DropPaths(t) \/ Schedule(t)
  PROVE  Callers' /\ Work'
<1>0. /\ TypeOK /\ Callers /\ Work /\ Threads \subseteq Tasks /\ Keventd \in Tasks /\ Keventd \notin Threads
      /\ DOMAIN thawTask = Files /\ Tasks = Threads \cup {Keventd}
      /\ \A f \in Files : freezes[f] \in Nat
  BY TypesOfCalls
<1>1. /\ call'[t].pc = "idle" /\ \A u \in Tasks \ {t} : call'[u] = call[u]
      /\ call[t].pc \in {"add", "schedule"}
  <2>1. call'[t] = Idle /\ \A u \in Tasks \ {t} : call'[u] = call[u]
    BY <1>0, FreezeFields
  <2> QED
    BY <2>1 DEF Idle, DropPaths, Schedule, At
<1>2. t \in Threads /\ call[t].file \in Files
  BY <1>0, <1>1, TypesOfCalls DEF Callers, KeventdThaws, At
<1>3. /\ UNCHANGED <<state, freezes, devices>>
      /\ \/ thawTask' = thawTask /\ call[t].pc = "add"
         \/ thawTask' = [thawTask EXCEPT ![call[t].file] = Armed(call[t].file)] /\ call[t].pc = "schedule"
  BY DEF DropPaths, Schedule, stateVars, At
<1>4. /\ \A f \in Files : f # call[t].file => thawTask'[f] = thawTask[f]
      /\ thawTask'[call[t].file] # "idle" \/ (thawTask' = thawTask /\ call[t].pc = "add")
  BY <1>0, <1>2, <1>3 DEF Armed
<1>5. \A u \in Threads : Frees(u) => call[u].file # call[t].file
  BY <1>0, <1>1, <1>2 DEF Callers, ReleaseIsLast, On, Frees, At
<1>6. Callers'
  BY <1>0, <1>1, <1>2, <1>3 DEF Callers, KeventdThaws, StatesInUse, ReleaseIsLast, Frees, On, At
<1>7. WorkOnce'
  <2>1. Scheduling(t, call[t].file) /\ freezes[call[t].file] # 0
    BY <1>0, <1>1, <1>2 DEF Scheduling, Freezing, On, At, Work, WorkOnce
  <2>2. \A u \in Tasks, f \in Files : Scheduling(u, f)' <=> Scheduling(u, f) /\ u # t
    BY <1>1 DEF Scheduling, Freezing, On, At
  <2>3. \A f \in Files : On(Keventd, f)' <=> On(Keventd, f)
    BY <1>0, <1>1, <1>2 DEF On, At
  <2> QED
    BY <1>0, <1>2, <1>3, <1>4, <2>1, <2>2, <2>3 DEF Work, WorkOnce
<1>8. StateOutlivesWork' /\ ReleaseWaits'
  <2>1. state[call[t].file] = "open"
    BY <1>0, <1>1, <1>2 DEF Callers, StatesInUse, At
  <2> QED
    BY <1>0, <1>1, <1>2, <1>3, <1>4, <1>5, <2>1, TypesOfCalls
       DEF Work, StateOutlivesWork, ReleaseWaits, Frees, On, At
<1>9. ThawIsPending'
  <2> SUFFICES ASSUME NEW f \in Files, devices'[f] # <<>>, thawTask'[f] = "idle"
               PROVE  \E u \in Tasks : On(u, f)' /\ ~At(u, "add")'
    BY DEF ThawIsPending
  <2>1. thawTask[f] = "idle" /\ (f = call[t].file => call[t].pc = "add")
    BY <1>4
  <2>2. PICK u \in Tasks : On(u, f) /\ ~At(u, "add")
    BY <1>0, <1>3, <2>1 DEF Work, ThawIsPending
  <2>3. u # t
    BY <2>1, <2>2 DEF On, At
  <2> QED
    BY <1>1, <2>2, <2>3 DEF On, At
<1> QED
  BY <1>6, <1>7, <1>8, <1>9 DEF Work

\* A thread that thaws goes on: it takes the mutex, or has waited for the work item.
LEMMA ThawSteps ==
  ASSUME WorkInv, NEW t \in Tasks, ThawLock(t) \/ Flush(t)
  PROVE  Callers' /\ Work'
<1>0. /\ TypeOK /\ Callers /\ Work /\ Threads \subseteq Tasks /\ Keventd \in Tasks /\ Keventd \notin Threads
      /\ DOMAIN thawTask = Files /\ Tasks = Threads \cup {Keventd}
      /\ \A u \in Tasks : ~At(u, "idle") => call[u].file \in Files
      /\ \A f \in Files : freezes[f] \in Nat
  BY TypesOfCalls
<1>1. /\ call'[t].file = call[t].file /\ call'[t].release = call[t].release
      /\ \A u \in Tasks \ {t} : call'[u] = call[u]
      /\ \/ call[t].pc = "lock" /\ call'[t].pc = "thaw"
         \/ call[t].pc = "flush" /\ call'[t].pc = "lock"
  BY <1>0, ThawFields DEF ThawLock, Flush, At
<1>2. call[t].file \in Files
  BY <1>0, <1>1 DEF At
<1>3. /\ UNCHANGED <<state, freezes, devices>>
      /\ \/ thawTask' = [thawTask EXCEPT ![call[t].file] = Cancelled(call[t].file)] /\ call[t].pc = "lock"
         \/ /\ thawTask' = thawTask /\ call[t].pc = "flush"
            /\ thawTask[call[t].file] # "queued" /\ ~On(Keventd, call[t].file)
  BY DEF ThawLock, Flush, stateVars, At
<1>4. /\ \A f \in Files : f # call[t].file => thawTask'[f] = thawTask[f]
      /\ \A f \in Files : thawTask'[f] = thawTask[f] \/ (thawTask'[f] = "idle" /\ thawTask[f] = "timer")
      /\ call[t].pc = "flush" => thawTask' = thawTask
  BY <1>0, <1>2, <1>3 DEF Cancelled
<1>5. \A u \in Tasks :
        /\ \A f \in Files : (On(u, f)' <=> On(u, f)) /\ (Scheduling(u, f)' <=> Scheduling(u, f))
        /\ At(u, "add")' <=> At(u, "add")
        /\ Frees(u)' <=> Frees(u)
        /\ call'[u].file = call[u].file
        /\ At(u, "idle")' <=> At(u, "idle")
  BY <1>1 DEF On, Scheduling, Freezing, Frees, At
<1>6. Callers'
  <2>1. KeventdThaws'
    BY <1>0, <1>1 DEF Callers, KeventdThaws, At
  <2>2. StatesInUse' /\ ReleaseIsLast'
    BY <1>0, <1>3, <1>5, TypesOfCalls DEF Callers, StatesInUse, ReleaseIsLast, Frees, At
  <2> QED
    BY <2>1, <2>2 DEF Callers
<1>7. WorkOnce' /\ StateOutlivesWork'
  BY <1>0, <1>3, <1>4, <1>5 DEF Work, WorkOnce, StateOutlivesWork
<1>8. ReleaseWaits'
  <2> SUFFICES ASSUME NEW u \in Threads, Frees(u)', NEW f \in Files, f = call'[u].file
               PROVE  /\ At(u, "flush")' => thawTask'[f] # "timer"
                      /\ ~At(u, "flush")' /\ freezes'[f] <= 1 => thawTask'[f] = "idle" /\ ~On(Keventd, f)'
    <3>1. \A u \in Threads : Frees(u)' => call'[u].file \in Files
      BY <1>0, <1>5 DEF Frees, At
    <3> QED
      BY <3>1 DEF ReleaseWaits, On
  <2>0. u \in Tasks
    BY <1>0
  <2>1. Frees(u) /\ call[u].file = f
    BY <1>5, <2>0
  <2>2. thawTask[f] # "timer" => thawTask'[f] = thawTask[f]
    BY <1>4
  <2>3. thawTask[f] \in {"idle", "timer", "queued"}
    BY <1>0 DEF TypeOK
  <2>4. On(Keventd, f)' <=> On(Keventd, f)
    BY <1>0, <1>5
  <2>5. CASE u = t /\ At(t, "flush")
    <3>1. thawTask' = thawTask /\ ~On(Keventd, f) /\ thawTask[f] # "queued" /\ ~At(u, "flush")'
      BY <1>1, <1>3, <1>4, <2>1, <2>5 DEF At
    <3>2. thawTask[f] # "timer"
      BY <1>0, <2>1, <2>5 DEF Work, ReleaseWaits
    <3> QED
      BY <2>3, <2>4, <3>1, <3>2
  <2>6. CASE ~(u = t /\ At(t, "flush"))
    <3>1. At(u, "flush")' => At(u, "flush")
      BY <1>1, <2>0, <2>6 DEF At
    <3>2. At(u, "flush") => At(u, "flush")'
      BY <1>1, <2>0, <2>6 DEF At
    <3>3. /\ At(u, "flush") => thawTask[f] # "timer"
          /\ ~At(u, "flush") /\ freezes[f] <= 1 => thawTask[f] = "idle" /\ ~On(Keventd, f)
      BY <1>0, <2>1 DEF Work, ReleaseWaits
    <3> QED
      BY <1>3, <2>2, <2>4, <3>1, <3>2, <3>3
  <2> QED
    BY <2>5, <2>6
<1>9. ThawIsPending'
  <2> SUFFICES ASSUME NEW f \in Files, devices'[f] # <<>>, thawTask'[f] = "idle"
               PROVE  \E u \in Tasks : On(u, f)' /\ ~At(u, "add")'
    BY DEF ThawIsPending
  <2>1. CASE f = call[t].file
    BY <1>1, <2>1 DEF On, At
  <2>2. CASE f # call[t].file
    BY <1>0, <1>3, <1>4, <1>5, <2>2 DEF Work, ThawIsPending
  <2> QED
    BY <2>1, <2>2
<1> QED
  BY <1>6, <1>7, <1>8, <1>9 DEF Work

LEMMA ThawNextStep ==
  ASSUME WorkInv, NEW t \in Tasks, ThawNext(t)
  PROVE  Callers' /\ Work'
<1>0. TypeOK /\ Callers /\ Work /\ DOMAIN devices = Files
  BY TypesOfCalls
<1>1. /\ UNCHANGED <<state, freezes, thawTask, call>> /\ At(t, "thaw")
      /\ \A f \in Files : f # call[t].file => devices'[f] = devices[f]
      /\ call[t].file \in Files /\ devices[call[t].file] # <<>>
  BY <1>0, TypesOfCalls DEF ThawNext, stateVars, At
<1>2. Callers'
  BY <1>0, <1>1 DEF Callers, KeventdThaws, StatesInUse, ReleaseIsLast, Frees, On, At
<1>3. WorkOnce' /\ ReleaseWaits' /\ StateOutlivesWork'
  BY <1>0, <1>1 DEF Work, WorkOnce, StateOutlivesWork, ReleaseWaits, Scheduling, Freezing, Frees, On, At
<1>4. ThawIsPending'
  BY <1>0, <1>1 DEF Work, ThawIsPending, On, At
<1> QED
  BY <1>2, <1>3, <1>4 DEF Work

\* VmSyncThawDevices returns, and the release frees the state.
LEMMA ThawReturns ==
  ASSUME WorkInv, NEW t \in Tasks, ThawUnlock(t)
  PROVE  Callers' /\ Work'
<1>0. /\ TypeOK /\ Callers /\ Work /\ Threads \subseteq Tasks /\ Keventd \in Tasks /\ Keventd \notin Threads
      /\ DOMAIN state = Files /\ Tasks = Threads \cup {Keventd}
      /\ \A u \in Tasks : ~At(u, "idle") => call[u].file \in Files
  BY TypesOfCalls
<1>1. /\ call'[t].pc = "idle" /\ \A u \in Tasks \ {t} : call'[u] = call[u]
  <2>1. call'[t] = Idle /\ \A u \in Tasks \ {t} : call'[u] = call[u]
    BY <1>0, ThawFields
  <2> QED
    BY <2>1 DEF Idle
<1>2. /\ call[t].pc = "thaw" /\ call[t].file \in Files /\ devices[call[t].file] = <<>>
      /\ UNCHANGED <<freezes, devices, thawTask>>
      /\ state' = IF call[t].release THEN [state EXCEPT ![call[t].file] = "freed"] ELSE state
  BY <1>0 DEF ThawUnlock, At
<1>3. call[t].release => t \in Threads /\ Frees(t)
  BY <1>0, <1>2 DEF Callers, KeventdThaws, Frees, At
<1>4. /\ \A f \in Files : f # call[t].file => state'[f] = state[f]
      /\ state'[call[t].file] = (IF call[t].release THEN "freed" ELSE state[call[t].file])
  BY <1>0, <1>2
<1>5. \A u \in Tasks, f \in Files :
        /\ On(u, f)' <=> On(u, f) /\ u # t
        /\ Scheduling(u, f)' <=> Scheduling(u, f)
        /\ Frees(u)' <=> Frees(u) /\ u # t
        /\ u # t => call'[u].file = call[u].file /\ (At(u, "idle")' <=> At(u, "idle"))
                    /\ (At(u, "add")' <=> At(u, "add")) /\ (At(u, "flush")' <=> At(u, "flush"))
  BY <1>1, <1>2 DEF On, Scheduling, Freezing, Frees, At
<1>6. Callers'
  <2>1. KeventdThaws' /\ ReleaseIsLast'
    BY <1>0, <1>1, <1>2 DEF Callers, KeventdThaws, ReleaseIsLast, Frees, On, At
  <2>2. ASSUME NEW u \in Threads, ~At(u, "idle")'
        PROVE  state'[call'[u].file] = "open"
    <3>1. u # t /\ ~At(u, "idle") /\ call'[u].file = call[u].file /\ On(u, call[u].file)
      BY <1>0, <1>1, <2>2 DEF At, On
    <3>2. state[call[u].file] = "open" /\ call[u].file \in Files
      BY <1>0, <3>1 DEF Callers, StatesInUse
    <3>3. call[t].release => call[u].file # call[t].file
      BY <1>0, <1>3, <3>1 DEF Callers, ReleaseIsLast
    <3> QED
      BY <1>4, <3>1, <3>2, <3>3
  <2>3. StatesInUse'
    BY <1>0, <1>2, <1>4, <2>2 DEF Callers, StatesInUse
  <2> QED
    BY <2>1, <2>3 DEF Callers
<1>7. WorkOnce'
  BY <1>0, <1>2, <1>5 DEF Work, WorkOnce
<1>8. StateOutlivesWork'
  <2>1. call[t].release /\ freezes[call[t].file] <= 1 =>
          thawTask[call[t].file] = "idle" /\ ~On(Keventd, call[t].file)
    BY <1>0, <1>2, <1>3 DEF Work, ReleaseWaits, At
  <2> QED
    BY <1>0, <1>2, <1>4, <1>5, <2>1 DEF Work, StateOutlivesWork
<1>9. ReleaseWaits'
  BY <1>0, <1>2, <1>5, TypesOfCalls DEF Work, ReleaseWaits, Frees, At
<1>10. ThawIsPending'
  <2> SUFFICES ASSUME NEW f \in Files, devices'[f] # <<>>, thawTask'[f] = "idle"
               PROVE  \E u \in Tasks : On(u, f)' /\ ~At(u, "add")'
    BY DEF ThawIsPending
  <2>1. PICK u \in Tasks : On(u, f) /\ ~At(u, "add")
    BY <1>0, <1>2 DEF Work, ThawIsPending
  <2>2. u # t
    BY <1>2, <2>1 DEF On
  <2> QED
    BY <1>5, <2>1, <2>2
<1> QED
  BY <1>6, <1>7, <1>8, <1>9, <1>10 DEF Work

\* An ioctl begins.
LEMMA FreezeBegins ==
  ASSUME WorkInv, NEW t \in Threads, NEW f \in Files, NEW paths \in PathLists, FreezeDevices(t, f, paths)
  PROVE  Callers' /\ Work'
<1>0. /\ TypeOK /\ Callers /\ Work /\ Threads \subseteq Tasks /\ Keventd \in Tasks /\ Keventd \notin Threads
      /\ DOMAIN freezes = Files /\ Tasks = Threads \cup {Keventd}
      /\ \A u \in Tasks : ~At(u, "idle") => call[u].file \in Files
      /\ \A g \in Files : freezes[g] \in Nat
  BY TypesOfCalls
<1>1. /\ call'[t].pc = "add" /\ call'[t].file = f
      /\ \A u \in Tasks \ {t} : call'[u] = call[u]
  BY <1>0, BeginFields
<1>2. /\ call[t].pc = "idle" /\ state[f] = "open" /\ ~Releasing(f)
      /\ freezes' = [freezes EXCEPT ![f] = freezes[f] + 1]
      /\ UNCHANGED <<state, devices, thawTask>>
  BY DEF FreezeDevices, MayCall, At
<1>3. \A u \in Threads : Frees(u) => call[u].file # f
  <2>1. \A u \in Threads : Frees(u) => call[u] \in ThawCall
    BY <1>0, CallTypes DEF Frees
  <2>2. \A c \in ThawCall : "release" \in DOMAIN c
    BY DEF ThawCall
  <2> QED
    BY <1>2, <2>1, <2>2 DEF Releasing, Frees, On, At
<1>4. \A g \in Files : /\ g # f => freezes'[g] = freezes[g]
                       /\ freezes'[g] # 0 \/ freezes'[g] = freezes[g]
                       /\ freezes'[g] = 1 /\ g = f => freezes[g] = 0
                       /\ freezes'[g] <= 1 => freezes[g] <= 1
  BY <1>0, <1>2
<1>5. Callers'
  BY <1>0, <1>1, <1>2, <1>3 DEF Callers, KeventdThaws, StatesInUse, ReleaseIsLast, Frees, On, At
<1>6. WorkOnce'
  <2>1. \A u \in Tasks, g \in Files : Scheduling(u, g)' <=> Scheduling(u, g) \/ (u = t /\ g = f)
    BY <1>1, <1>2 DEF Scheduling, Freezing, On, At
  <2>2. \A g \in Files : On(Keventd, g)' <=> On(Keventd, g)
    BY <1>0, <1>1 DEF On, At
  <2>3. freezes'[f] # 0
    BY <1>0, <1>2
  <2> QED
    BY <1>0, <1>2, <1>4, <2>1, <2>2, <2>3 DEF Work, WorkOnce
<1>7. StateOutlivesWork'
  <2>1. \A g \in Files : On(Keventd, g)' <=> On(Keventd, g)
    BY <1>0, <1>1 DEF On, At
  <2> QED
    BY <1>0, <1>2, <1>4, <2>1 DEF Work, StateOutlivesWork
<1>8. ReleaseWaits'
  <2> SUFFICES ASSUME NEW u \in Threads, Frees(u)', NEW g \in Files, g = call'[u].file
               PROVE  /\ At(u, "flush")' => thawTask'[g] # "timer"
                      /\ ~At(u, "flush")' /\ freezes'[g] <= 1 => thawTask'[g] = "idle" /\ ~On(Keventd, g)'
    <3>1. \A u \in Threads : Frees(u)' => call'[u].file \in Files
      BY <1>0, <1>1 DEF Frees, At
    <3> QED
      BY <3>1 DEF ReleaseWaits, On
  <2>1. Frees(u) /\ call[u].file = g /\ (At(u, "flush")' <=> At(u, "flush"))
    BY <1>0, <1>1 DEF Frees, At
  <2>2. (On(Keventd, g)' <=> On(Keventd, g)) /\ g # f
    BY <1>0, <1>1, <1>3, <2>1 DEF On, At
  <2> QED
    BY <1>0, <1>2, <1>4, <2>1, <2>2 DEF Work, ReleaseWaits
<1>9. ThawIsPending'
  <2> SUFFICES ASSUME NEW g \in Files, devices'[g] # <<>>, thawTask'[g] = "idle"
               PROVE  \E u \in Tasks : On(u, g)' /\ ~At(u, "add")'
    BY DEF ThawIsPending
  <2>1. PICK u \in Tasks : On(u, g) /\ ~At(u, "add")
    BY <1>0, <1>2 DEF Work, ThawIsPending
  <2> QED
    BY <1>1, <1>2, <2>1 DEF On, At
<1> QED
  BY <1>5, <1>6, <1>7, <1>8, <1>9 DEF Work

LEMMA ThawBegins ==
  ASSUME WorkInv, NEW t \in Threads, NEW f \in Files, ThawIoctl(t, f)
  PROVE  Callers' /\ Work'
<1>0. /\ TypeOK /\ Callers /\ Work /\ Threads \subseteq Tasks /\ Keventd \in Tasks /\ Keventd \notin Threads
      /\ Tasks = Threads \cup {Keventd}
      /\ \A u \in Tasks : ~At(u, "idle") => call[u].file \in Files
  BY TypesOfCalls
<1>1. /\ call'[t].pc = "lock" /\ call'[t].file = f /\ call'[t].release = FALSE
      /\ \A u \in Tasks \ {t} : call'[u] = call[u]
  <2>1. call' = [call EXCEPT ![t] = ThawDevices(f, "lock", FALSE)]
    BY DEF ThawIoctl
  <2> QED
    BY <1>0, <2>1, BeginFields
<1>2. /\ call[t].pc = "idle" /\ state[f] = "open" /\ ~Releasing(f)
      /\ UNCHANGED <<state, freezes, devices, thawTask>>
  BY DEF ThawIoctl, MayCall, At, stateVars
<1>3. \A u \in Threads : Frees(u) => call[u].file # f
  <2>1. \A u \in Threads : Frees(u) => call[u] \in ThawCall
    BY <1>0, CallTypes DEF Frees
  <2>2. \A c \in ThawCall : "release" \in DOMAIN c
    BY DEF ThawCall
  <2> QED
    BY <1>2, <2>1, <2>2 DEF Releasing, Frees, On, At
<1>4. Callers'
  BY <1>0, <1>1, <1>2, <1>3 DEF Callers, KeventdThaws, StatesInUse, ReleaseIsLast, Frees, On, At
<1>5. WorkOnce' /\ StateOutlivesWork'
  BY <1>0, <1>1, <1>2 DEF Work, WorkOnce, StateOutlivesWork, Scheduling, Freezing, On, At
<1>6. ReleaseWaits' /\ ThawIsPending'
  BY <1>0, <1>1, <1>2 DEF Work, ReleaseWaits, ThawIsPending, Frees, On, At
<1> QED
  BY <1>4, <1>5, <1>6 DEF Work

\* The last close: it cancels the timer, or will wait for the work item.
LEMMA ReleaseBegins ==
  ASSUME WorkInv, NEW t \in Threads, NEW f \in Files, Release(t, f)
  PROVE  Callers' /\ Work'
<1>0. /\ TypeOK /\ Callers /\ Work /\ Threads \subseteq Tasks /\ Keventd \in Tasks /\ Keventd \notin Threads
      /\ Tasks = Threads \cup {Keventd} /\ DOMAIN thawTask = Files
      /\ \A u \in Tasks : ~At(u, "idle") => call[u].file \in Files
      /\ \A g \in Files : freezes[g] \in Nat
  BY TypesOfCalls
<1>1. /\ call'[t].pc = AfterCancel(f) /\ call'[t].file = f /\ call'[t].release = TRUE
      /\ \A u \in Tasks \ {t} : call'[u] = call[u]
  <2>1. call' = [call EXCEPT ![t] = ThawDevices(f, AfterCancel(f), TRUE)] /\ AfterCancel(f) \in {"flush", "lock"}
    BY DEF Release, AfterCancel
  <2> QED
    BY <1>0, <2>1, BeginFields, ZenonT(40)
<1>2. /\ call[t].pc = "idle" /\ state[f] = "open" /\ \A u \in Threads : ~On(u, f)
      /\ UNCHANGED <<state, freezes, devices>>
      /\ thawTask' = [thawTask EXCEPT ![f] = Cancelled(f)]
  BY DEF Release, MayCall, At, stateVars, InUse
<1>3. /\ \A g \in Files : g # f => thawTask'[g] = thawTask[g]
      /\ \/ thawTask'[f] = "idle" /\ thawTask[f] = "timer" /\ call'[t].pc = "lock"
         \/ thawTask'[f] = thawTask[f] /\ thawTask[f] # "timer" /\ call'[t].pc = "flush"
  BY <1>0, <1>1, <1>2 DEF Cancelled, AfterCancel
<1>4. Callers'
  BY <1>0, <1>1, <1>2, <1>3 DEF Callers, KeventdThaws, StatesInUse, ReleaseIsLast, Frees, On, At
<1>5. /\ \A u \in Tasks, g \in Files : Scheduling(u, g)' <=> Scheduling(u, g)
      /\ \A g \in Files : On(Keventd, g)' <=> On(Keventd, g)
  BY <1>0, <1>1, <1>2, <1>3 DEF Scheduling, Freezing, On, At
<1>6. WorkOnce' /\ StateOutlivesWork'
  BY <1>0, <1>2, <1>3, <1>5 DEF Work, WorkOnce, StateOutlivesWork
<1>7. ReleaseWaits'
  <2>1. freezes[f] <= 1 /\ thawTask[f] = "timer" => ~On(Keventd, f)
    BY <1>0 DEF Work, WorkOnce
  <2> SUFFICES ASSUME NEW u \in Threads, Frees(u)', NEW g \in Files, g = call'[u].file
               PROVE  /\ At(u, "flush")' => thawTask'[g] # "timer"
                      /\ ~At(u, "flush")' /\ freezes'[g] <= 1 => thawTask'[g] = "idle" /\ ~On(Keventd, g)'
    <3>1. \A u \in Threads : Frees(u)' => call'[u].file \in Files
      BY <1>0, <1>1 DEF Frees, At
    <3> QED
      BY <3>1 DEF ReleaseWaits, On
  <2>2. CASE u = t
    BY <1>1, <1>2, <1>3, <1>5, <2>1, <2>2 DEF At
  <2>3. CASE u # t
    <3>1. Frees(u) /\ call[u].file = g /\ On(u, g) /\ (At(u, "flush")' <=> At(u, "flush"))
      BY <1>0, <1>1, <2>3 DEF Frees, On, At
    <3>2. g # f
      BY <1>2, <3>1
    <3> QED
      BY <1>0, <1>2, <1>3, <1>5, <3>1, <3>2 DEF Work, ReleaseWaits
  <2> QED
    BY <2>2, <2>3
<1>8. ThawIsPending'
  <2> SUFFICES ASSUME NEW g \in Files, devices'[g] # <<>>, thawTask'[g] = "idle"
               PROVE  \E u \in Tasks : On(u, g)' /\ ~At(u, "add")'
    BY DEF ThawIsPending
  <2>1. CASE g = f
    BY <1>0, <1>1, <1>3, <2>1 DEF On, At
  <2>2. CASE g # f
    BY <1>0, <1>1, <1>2, <1>3, <2>2 DEF Work, ThawIsPending, On, At
  <2> QED
    BY <2>1, <2>2
<1> QED
  BY <1>4, <1>6, <1>7, <1>8 DEF Work

\* The work item runs.
LEMMA WorkBegins ==
  ASSUME WorkInv, NEW f \in Files, ThawDevicesCallback(f)
  PROVE  Callers' /\ Work'
<1>0. /\ TypeOK /\ Callers /\ Work /\ Threads \subseteq Tasks /\ Keventd \in Tasks /\ Keventd \notin Threads
      /\ Tasks = Threads \cup {Keventd} /\ DOMAIN thawTask = Files
      /\ \A u \in Tasks : ~At(u, "idle") => call[u].file \in Files
      /\ \A g \in Files : freezes[g] \in Nat
  BY TypesOfCalls
<1>1. /\ call'[Keventd].pc = "lock" /\ call'[Keventd].file = f /\ call'[Keventd].release = FALSE
      /\ \A u \in Tasks \ {Keventd} : call'[u] = call[u]
  <2>1. call' = [call EXCEPT ![Keventd] = ThawDevices(f, "lock", FALSE)]
    BY DEF ThawDevicesCallback
  <2> QED
    BY <1>0, <2>1, BeginFields
<1>2. /\ call[Keventd].pc = "idle" /\ thawTask[f] = "queued"
      /\ UNCHANGED <<state, freezes, devices>>
      /\ thawTask' = [thawTask EXCEPT ![f] = "idle"]
  BY DEF ThawDevicesCallback, At, stateVars
<1>3. thawTask'[f] = "idle" /\ \A g \in Files : g # f => thawTask'[g] = thawTask[g]
  BY <1>0, <1>2
<1>4. Callers'
  BY <1>0, <1>1, <1>2 DEF Callers, KeventdThaws, StatesInUse, ReleaseIsLast, Frees, On, At
<1>5. /\ \A u \in Tasks, g \in Files : Scheduling(u, g)' <=> Scheduling(u, g)
      /\ \A g \in Files : (On(Keventd, g)' <=> g = f) /\ ~On(Keventd, g)
  BY <1>0, <1>1, <1>2 DEF Scheduling, Freezing, On, At
<1>6. WorkOnce' /\ StateOutlivesWork'
  BY <1>0, <1>2, <1>3, <1>5 DEF Work, WorkOnce, StateOutlivesWork
<1>7. ReleaseWaits'
  <2> SUFFICES ASSUME NEW u \in Threads, Frees(u)', NEW g \in Files, g = call'[u].file
               PROVE  /\ At(u, "flush")' => thawTask'[g] # "timer"
                      /\ ~At(u, "flush")' /\ freezes'[g] <= 1 => thawTask'[g] = "idle" /\ ~On(Keventd, g)'
    <3>1. \A u \in Threads : Frees(u)' => call'[u].file \in Files
      BY <1>0, <1>1 DEF Frees, At
    <3> QED
      BY <3>1 DEF ReleaseWaits, On
  <2>1. Frees(u) /\ call[u].file = g /\ (At(u, "flush")' <=> At(u, "flush"))
    BY <1>0, <1>1 DEF Frees, At
  <2>2. g = f /\ freezes[g] <= 1 => At(u, "flush")
    BY <1>0, <1>2, <2>1 DEF Work, ReleaseWaits
  <2> QED
    BY <1>0, <1>2, <1>3, <1>5, <2>1, <2>2 DEF Work, ReleaseWaits
<1>8. ThawIsPending'
  <2> SUFFICES ASSUME NEW g \in Files, devices'[g] # <<>>, thawTask'[g] = "idle"
               PROVE  \E u \in Tasks : On(u, g)' /\ ~At(u, "add")'
    BY DEF ThawIsPending
  <2>1. CASE g = f
    BY <1>0, <1>1, <2>1 DEF On, At
  <2>2. CASE g # f
    BY <1>0, <1>1, <1>2, <1>3, <2>2 DEF Work, ThawIsPending, On, At
  <2> QED
    BY <2>1, <2>2
<1> QED
  BY <1>4, <1>6, <1>7, <1>8 DEF Work

-----------------------------------------------------------------------------
(***************************************************************************)
(* Counting freezes.                                                       *)
(***************************************************************************)
LEMMA FreezesAreFinite ==
  ASSUME TypeOK, NEW ds
  PROVE  /\ \A f \in Files : IsFiniteSet(Freezes(f, ds)) /\ Cardinality(Freezes(f, ds)) \in Nat
         /\ IsFiniteSet(FreezesOf(ds)) /\ Cardinality(FreezesOf(ds)) \in Nat
<1>1. ASSUME NEW f \in Files
      PROVE  IsFiniteSet(Freezes(f, ds))
  <2>1. devices[f] \in Seq(Entry)
    BY DEF TypeOK
  <2>2. DOMAIN devices[f] = 1..Len(devices[f]) /\ Len(devices[f]) \in Nat
    BY <2>1
  <2>3. IsFiniteSet(1..Len(devices[f]))
    BY <2>2, FS_Interval
  <2> QED
    BY <2>2, <2>3, FS_Subset DEF Freezes
<1>2. IsFiniteSet(FreezesOf(ds))
  <2> DEFINE Part(f) == {f} \X Freezes(f, ds)
             parts == {Part(f) : f \in Files}
  <2>1. [f \in Files |-> Part(f)] \in Surjection(Files, parts)
    <3> HIDE DEF Part
    <3> QED
      BY DEF Surjection
  <2>2. IsFiniteSet(parts)
    BY <2>1, FS_Surjection
  <2>3. \A f \in Files : IsFiniteSet(Part(f))
    BY <1>1, FS_Singleton, FS_Product
  <2>4. \A P \in parts : IsFiniteSet(P)
    <3> HIDE DEF Part
    <3> QED
      BY <2>3
  <2>5. IsFiniteSet(UNION parts)
    <3> HIDE DEF parts
    <3> QED
      BY <2>2, <2>4, FS_UNION
  <2> QED
    BY <2>5 DEF FreezesOf
<1> QED
  BY <1>1, <1>2, FS_CardinalityType

LEMMA FreezesOfIs ==
  ASSUME NEW ds
  PROVE  \A p : p \in FreezesOf(ds) <=> \E f \in Files : \E i \in Freezes(f, ds) : p = <<f, i>>
<1>1. \A p, f : p \in {f} \X Freezes(f, ds) <=> \E i \in Freezes(f, ds) : p = <<f, i>>
  OBVIOUS
<1> QED
  BY <1>1 DEF FreezesOf

\* A set of pairs whose part for f is replaced.
IsPart(A, f, P) == {f} \X P \subseteq A /\ \A i : <<f, i>> \in A => i \in P

LEMMA ReplacePart ==
  ASSUME NEW A, IsFiniteSet(A), NEW f, NEW P, IsPart(A, f, P), IsFiniteSet(P), NEW Q, IsFiniteSet(Q)
  PROVE  Cardinality((A \ ({f} \X P)) \cup ({f} \X Q)) = Cardinality(A) - Cardinality(P) + Cardinality(Q)
<1> DEFINE FP == {f} \X P
           FQ == {f} \X Q
<1>1. IsFiniteSet({f}) /\ Cardinality({f}) = 1
  BY FS_Singleton
<1>2. Cardinality(FP) = 1 * Cardinality(P) /\ IsFiniteSet(FP)
  BY <1>1, FS_Product
<1>3. Cardinality(FQ) = 1 * Cardinality(Q) /\ IsFiniteSet(FQ)
  BY <1>1, FS_Product
<1>4. Cardinality(P) \in Nat /\ Cardinality(Q) \in Nat /\ Cardinality(A) \in Nat
  BY FS_CardinalityType
<1>5. A \cap FP = FP /\ (A \ FP) \cap FQ = {}
  <2>1. A \cap FP = FP
    BY DEF IsPart
  <2>2. \A p \in FQ : \E i : p = <<f, i>>
    OBVIOUS
  <2>3. \A i : i \in P => <<f, i>> \in FP
    OBVIOUS
  <2> QED
    BY <2>1, <2>2, <2>3 DEF IsPart
<1> HIDE DEF FP, FQ
<1>6. IsFiniteSet(A \ FP) /\ Cardinality(A \ FP) = Cardinality(A) - Cardinality(FP)
  BY <1>5, FS_Difference
<1>7. Cardinality((A \ FP) \cup FQ) = Cardinality(A \ FP) + Cardinality(FQ) - Cardinality({})
  BY <1>3, <1>5, <1>6, FS_Union
<1>8. Cardinality({}) = 0
  BY FS_EmptySet
<1>9. Cardinality((A \ FP) \cup FQ) = Cardinality(A) - Cardinality(P) + Cardinality(Q)
  BY <1>2, <1>3, <1>4, <1>6, <1>7, <1>8
<1> QED
  BY <1>9 DEF FP, FQ

\* When the list of one descriptor changes, the sum changes with it.
LEMMA FreezesMove ==
  ASSUME TypeOK, NEW ds, NEW f \in Files, NEW Q, IsFiniteSet(Q), Freezes(f, ds)' = Q,
         \A g \in Files \ {f} : Freezes(g, ds)' = Freezes(g, ds)
  PROVE  Cardinality(FreezesOf(ds)') = Cardinality(FreezesOf(ds)) - Cardinality(Freezes(f, ds)) + Cardinality(Q)
<1> DEFINE A == FreezesOf(ds)
           P == Freezes(f, ds)
<1>1. FreezesOf(ds)' = (A \ ({f} \X P)) \cup ({f} \X Q)
  <2>1. \A p : p \in FreezesOf(ds)' <=> \E g \in Files : \E i \in Freezes(g, ds)' : p = <<g, i>>
    <3>1. \A p, g : p \in {g} \X Freezes(g, ds)' <=> \E i \in Freezes(g, ds)' : p = <<g, i>>
      OBVIOUS
    <3> QED
      BY <3>1 DEF FreezesOf
  <2>2. \A p : p \in A <=> \E g \in Files : \E i \in Freezes(g, ds) : p = <<g, i>>
    BY FreezesOfIs
  <2>3. \A p : p \in {f} \X P <=> \E i \in P : p = <<f, i>>
    OBVIOUS
  <2>4. \A p : p \in {f} \X Q <=> \E i \in Q : p = <<f, i>>
    OBVIOUS
  <2> HIDE DEF A
  <2>5. ASSUME NEW p
        PROVE  p \in FreezesOf(ds)' <=> p \in (A \ ({f} \X P)) \cup ({f} \X Q)
    <3>1. p \in FreezesOf(ds)' => p \in (A \ ({f} \X P)) \cup ({f} \X Q)
      BY <2>1, <2>2, <2>3, <2>4
    <3>2. p \in A \ ({f} \X P) => p \in FreezesOf(ds)'
      BY <2>1, <2>2, <2>3
    <3>3. p \in {f} \X Q => p \in FreezesOf(ds)'
      BY <2>1, <2>4
    <3> QED
      BY <3>1, <3>2, <3>3
  <2> QED
    BY <2>5
<1>2. IsPart(A, f, P)
  <2>1. \A p : p \in {f} \X P <=> \E i \in P : p = <<f, i>>
    OBVIOUS
  <2>2. \A g, h, i, j : <<g, i>> = <<h, j>> => g = h /\ i = j
    OBVIOUS
  <2>3. \A p : p \in A <=> \E g \in Files : \E i \in Freezes(g, ds) : p = <<g, i>>
    BY FreezesOfIs
  <2>4. {f} \X P \subseteq A
    <3> HIDE DEF A
    <3> QED
      BY <2>1, <2>3
  <2>5. \A i : <<f, i>> \in A => i \in P
    <3> HIDE DEF A
    <3> QED
      BY <2>2, <2>3
  <2> QED
    BY <2>4, <2>5 DEF IsPart
<1>3. IsFiniteSet(A) /\ IsFiniteSet(P)
  BY FreezesAreFinite
<1> HIDE DEF A, P
<1>4. Cardinality((A \ ({f} \X P)) \cup ({f} \X Q)) = Cardinality(A) - Cardinality(P) + Cardinality(Q)
  BY <1>2, <1>3, ReplacePart
<1> QED
  BY <1>1, <1>4 DEF A, P

LEMMA FreezesStay ==
  ASSUME NEW ds, \A g \in Files : Freezes(g, ds)' = Freezes(g, ds)
  PROVE  FreezesOf(ds)' = FreezesOf(ds)
BY DEF FreezesOf

Counts(f, e, ds) == state[f] # "freed" /\ e.bdev \in ds /\ e.sb

\* An entry is appended to a list.
LEMMA AppendCounts ==
  ASSUME TypeOK, NEW f \in Files, NEW e \in Entry, NEW ds,
         state' = state, devices'[f] = Append(devices[f], e)
  PROVE  /\ IsFiniteSet(Freezes(f, ds)')
         /\ Cardinality(Freezes(f, ds)') =
              Cardinality(Freezes(f, ds)) + (IF Counts(f, e, ds) THEN 1 ELSE 0)
         /\ ~Counts(f, e, ds) => Freezes(f, ds)' = Freezes(f, ds)
<1> DEFINE s == devices[f]
           n == Len(s)
<1>1. s \in Seq(Entry) /\ n \in Nat /\ DOMAIN s = 1..n
  BY DEF TypeOK
<1>2. /\ Len(Append(s, e)) = n + 1 /\ DOMAIN Append(s, e) = 1..(n + 1)
      /\ Append(s, e)[n + 1] = e /\ \A i \in 1..n : Append(s, e)[i] = s[i]
  BY <1>1
<1>3. Freezes(f, ds)' = {i \in 1..(n + 1) : Counts(f, Append(s, e)[i], ds)}
  BY <1>2 DEF Freezes, Counts
<1>4. Freezes(f, ds) = {i \in 1..n : Counts(f, s[i], ds)}
  BY <1>1 DEF Freezes, Counts
<1> HIDE DEF s, n
<1>5. Freezes(f, ds)' = IF Counts(f, e, ds) THEN Freezes(f, ds) \cup {n + 1} ELSE Freezes(f, ds)
  <2>1. \A i \in 1..(n + 1) : i \in 1..n \/ i = n + 1
    BY <1>1
  <2>2. \A i \in 1..n : i \in 1..(n + 1) /\ i # n + 1
    BY <1>1
  <2>3. n + 1 \in 1..(n + 1)
    BY <1>1
  <2> HIDE DEF Counts
  <2> QED
    BY <1>2, <1>3, <1>4, <2>1, <2>2, <2>3
<1>6. n + 1 \notin Freezes(f, ds)
  BY <1>1, <1>4
<1>7. IsFiniteSet(Freezes(f, ds)) /\ Cardinality(Freezes(f, ds)) \in Nat
  BY FreezesAreFinite
<1>8. /\ IsFiniteSet(Freezes(f, ds) \cup {n + 1})
      /\ Cardinality(Freezes(f, ds) \cup {n + 1}) = Cardinality(Freezes(f, ds)) + 1
  BY <1>6, <1>7, FS_AddElement
<1> QED
  BY <1>5, <1>7, <1>8

\* The first entry of a list is removed.
LEMMA TailCounts ==
  ASSUME TypeOK, NEW f \in Files, NEW ds, devices[f] # <<>>,
         state' = state, devices'[f] = Tail(devices[f])
  PROVE  /\ IsFiniteSet(Freezes(f, ds)')
         /\ Cardinality(Freezes(f, ds)') =
              Cardinality(Freezes(f, ds)) - (IF Counts(f, Head(devices[f]), ds) THEN 1 ELSE 0)
         /\ Freezes(f, ds) = {} => Freezes(f, ds)' = {}
         /\ Counts(f, Head(devices[f]), ds) => Cardinality(Freezes(f, ds)) # 0
<1> DEFINE s == devices[f]
           n == Len(s)
           P == Freezes(f, ds)
           Q == Freezes(f, ds)'
<1>1. s \in Seq(Entry) /\ n \in Nat /\ n # 0 /\ DOMAIN s = 1..n /\ Head(s) = s[1]
  BY DEF TypeOK
<1>2. /\ Len(Tail(s)) = n - 1 /\ DOMAIN Tail(s) = 1..(n - 1)
      /\ \A i \in 1..(n - 1) : Tail(s)[i] = s[i + 1]
  BY <1>1
<1>3. Q = {i \in 1..(n - 1) : Counts(f, Tail(s)[i], ds)}
  BY <1>2 DEF Freezes, Counts
<1>4. P = {i \in 1..n : Counts(f, s[i], ds)}
  BY <1>1 DEF Freezes, Counts
<1>5. IsFiniteSet(P) /\ Cardinality(P) \in Nat
  BY FreezesAreFinite
<1> HIDE DEF s, n, P, Q
<1>6. \A i \in Q : i \in Nat /\ i + 1 \in P \ {1}
  <2>1. \A i \in 1..(n - 1) : i \in Nat /\ i + 1 \in 1..n /\ i + 1 # 1
    BY <1>1
  <2> HIDE DEF Counts
  <2> QED
    BY <1>2, <1>3, <1>4, <2>1
<1>7. \A j \in P \ {1} : j \in Nat /\ j - 1 \in Q
  <2>1. \A j \in (1..n) \ {1} : j \in Nat /\ j - 1 \in 1..(n - 1) /\ (j - 1) + 1 = j
    BY <1>1
  <2> HIDE DEF Counts
  <2> QED
    BY <1>2, <1>3, <1>4, <2>1
<1>8. IsFiniteSet(P \ {1})
        /\ Cardinality(P \ {1}) = Cardinality(P) - (IF 1 \in P THEN 1 ELSE 0)
  <2>1. 1 \notin P => P \ {1} = P
    OBVIOUS
  <2> QED
    BY <1>5, <2>1, FS_RemoveElement
<1>9. ExistsBijection(P \ {1}, Q)
  <2> DEFINE b == [j \in P \ {1} |-> j - 1]
  <2>1. b \in [P \ {1} -> Q]
    BY <1>7
  <2>2. \A j, k \in P \ {1} : b[j] = b[k] => j = k
    <3>1. \A j, k \in Nat : j - 1 = k - 1 => j = k
      OBVIOUS
    <3> QED
      BY <1>7, <3>1
  <2>3. \A i \in Q : b[i + 1] = i /\ i + 1 \in P \ {1}
    <3>1. \A i \in Nat : (i + 1) - 1 = i
      OBVIOUS
    <3> QED
      BY <1>6, <3>1
  <2>4. b \in Bijection(P \ {1}, Q)
    <3> HIDE DEF b
    <3> QED
      BY <2>1, <2>2, <2>3 DEF Bijection, Injection, Surjection, IsInjective
  <2> QED
    BY <2>4 DEF ExistsBijection
<1>10. IsFiniteSet(Q) /\ Cardinality(Q) = Cardinality(P \ {1})
  BY <1>8, <1>9, FS_Bijection
<1>11. 1 \in P <=> Counts(f, Head(s), ds)
  <2>1. 1 \in 1..n
    BY <1>1
  <2> HIDE DEF Counts
  <2> QED
    BY <1>1, <1>4, <2>1
<1>12. P = {} => Q = {}
  BY <1>6
<1>13. 1 \in P => Cardinality(P) # 0
  BY <1>5, FS_EmptySet
<1> QED
  BY <1>8, <1>10, <1>11, <1>12, <1>13 DEF P, Q, s

LEMMA SameFreezes ==
  ASSUME NEW g, devices'[g] = devices[g],
         (state'[g] = "freed" <=> state[g] = "freed") \/ devices[g] = <<>>
  PROVE  \A ds : Freezes(g, ds)' = Freezes(g, ds)
<1>1. CASE devices[g] = <<>>
  <2>1. DOMAIN devices[g] = {}
    BY <1>1
  <2> QED
    BY <2>1 DEF Freezes
<1>2. CASE state'[g] = "freed" <=> state[g] = "freed"
  BY <1>2 DEF Freezes
<1> QED
  BY <1>1, <1>2

\* Steps that neither freeze nor thaw.
CountsStay ==
  /\ UNCHANGED <<bdFreeze, gFreezeCount, others>>
  /\ \A g \in Files : \A ds : Freezes(g, ds)' = Freezes(g, ds)

LEMMA CountsStayStep ==
  ASSUME FreezesAreOwned, OneFreezer, CountsStay
  PROVE  FreezesAreOwned' /\ OneFreezer'
<1>1. \A ds : FreezesOf(ds)' = FreezesOf(ds)
  BY FreezesStay DEF CountsStay
<1> QED
  BY <1>1 DEF FreezesAreOwned, OneFreezer, CountsStay

LEMMA CountsStaySteps ==
  ASSUME TypeOK
  PROVE  /\ \A t \in Tasks :
              \/ AddPath(t) \/ DropPaths(t) \/ FreezeUnlock(t) \/ Schedule(t) \/ ThawLock(t)
              \/ ThawUnlock(t) \/ Flush(t)
              => CountsStay
         /\ \A t \in Threads, f \in Files :
              (\E paths \in PathLists : FreezeDevices(t, f, paths)) \/ ThawIoctl(t, f) \/ Release(t, f)
              => CountsStay
         /\ \A f \in Files :
              \/ Open(f) \/ TimerExpires(f) \/ ThawDevicesCallback(f) \/ ReleaseUnprivileged(f)
              \/ DropCapability(f)
              => CountsStay
<1>0. DOMAIN state = Files
  BY DEF TypeOK
<1>1. ASSUME UNCHANGED <<bdFreeze, gFreezeCount, others, devices>>, 
             \A g \in Files : (state'[g] = "freed" <=> state[g] = "freed") \/ devices[g] = <<>>
      PROVE  CountsStay
  BY <1>1, SameFreezes DEF CountsStay
<1>2. ASSUME NEW t \in Tasks, \/ AddPath(t) \/ DropPaths(t) \/ FreezeUnlock(t) \/ Schedule(t)
                              \/ ThawLock(t) \/ Flush(t)
      PROVE  CountsStay
  <2>1. UNCHANGED <<bdFreeze, gFreezeCount, others, devices, state>>
    BY <1>2 DEF AddPath, DropPaths, FreezeUnlock, Schedule, ThawLock, Flush, kernelVars, stateVars
  <2> QED
    BY <1>1, <2>1
<1>3. ASSUME NEW t \in Tasks, ThawUnlock(t)
      PROVE  CountsStay
  <2>1. /\ UNCHANGED <<bdFreeze, gFreezeCount, others, devices>> /\ devices[call[t].file] = <<>>
        /\ \A g \in Files : g # call[t].file => state'[g] = state[g]
    BY <1>0, <1>3 DEF ThawUnlock, kernelVars
  <2> QED
    BY <1>1, <2>1
<1>4. ASSUME NEW t \in Threads, NEW f \in Files,
             (\E paths \in PathLists : FreezeDevices(t, f, paths)) \/ ThawIoctl(t, f) \/ Release(t, f)
      PROVE  CountsStay
  <2>1. UNCHANGED <<bdFreeze, gFreezeCount, others, devices, state>>
    BY <1>4 DEF FreezeDevices, ThawIoctl, Release, kernelVars, stateVars
  <2> QED
    BY <1>1, <2>1
<1>5. ASSUME NEW f \in Files,
             Open(f) \/ TimerExpires(f) \/ ThawDevicesCallback(f) \/ ReleaseUnprivileged(f) \/ DropCapability(f)
      PROVE  CountsStay
  <2>1. /\ UNCHANGED <<bdFreeze, gFreezeCount, others, devices>>
        /\ \A g \in Files : state'[g] = "freed" <=> state[g] = "freed"
    BY <1>0, <1>5 DEF Open, TimerExpires, ThawDevicesCallback, ReleaseUnprivileged, DropCapability,
                      kernelVars, stateVars
  <2> QED
    BY <1>1, <2>1
<1> QED
  BY <1>2, <1>3, <1>4, <1>5

LEMMA OtherCounts ==
  ASSUME TypeOK, FreezesAreOwned, OneFreezer, NEW d \in Shared, OtherFreezes(d) \/ OtherThaws(d)
  PROVE  FreezesAreOwned' /\ OneFreezer' /\ bdFreeze' \in [Devices -> Nat]
<1>0. /\ DOMAIN bdFreeze = Devices /\ d \in Devices /\ \A e \in Devices : bdFreeze[e] \in Nat
      /\ \A ds : Cardinality(FreezesOf(ds)) \in Nat
  BY FreezesAreFinite DEF TypeOK
<1>1. UNCHANGED <<state, devices, gFreezeCount>>
  BY DEF OtherFreezes, OtherThaws, stateVars
<1>2. /\ \A g \in Files : \A ds : Freezes(g, ds)' = Freezes(g, ds)
      /\ \A ds : FreezesOf(ds)' = FreezesOf(ds)
  BY <1>1, SameFreezes, FreezesStay
<1>3. ASSUME NEW e \in Devices
      PROVE  /\ bdFreeze'[e] = Cardinality(FreezesOf({e})) + (IF e \in others' THEN 1 ELSE 0)
             /\ bdFreeze'[e] \in Nat
  <2>1. bdFreeze[e] = Cardinality(FreezesOf({e})) + (IF e \in others THEN 1 ELSE 0)
    BY DEF FreezesAreOwned
  <2>2. CASE OtherFreezes(d)
    <3>1. /\ bdFreeze'[e] = (IF e = d THEN bdFreeze[e] + 1 ELSE bdFreeze[e])
          /\ e \in others' <=> e \in others \/ e = d
          /\ d \notin others
      BY <1>0, <2>2 DEF OtherFreezes
    <3> QED
      BY <1>0, <2>1, <3>1
  <2>3. CASE OtherThaws(d)
    <3>1. /\ bdFreeze'[e] = (IF e = d THEN bdFreeze[e] - 1 ELSE bdFreeze[e])
          /\ e \in others' <=> e \in others /\ e # d
          /\ d \in others
      BY <1>0, <2>3 DEF OtherThaws
    <3> QED
      BY <1>0, <2>1, <3>1
  <2> QED
    BY <2>2, <2>3
<1>4. FreezesAreOwned' /\ OneFreezer'
  BY <1>1, <1>2, <1>3 DEF FreezesAreOwned, OneFreezer
<1>5. DOMAIN bdFreeze' = Devices /\ bdFreeze' = [e \in Devices |-> bdFreeze'[e]]
  BY <1>0 DEF OtherFreezes, OtherThaws, TypeOK
<1> QED
  BY <1>3, <1>4, <1>5

\* freeze_bdev and the entry that remembers it.
LEMMA FreezeCounts ==
  ASSUME SyncInv, NEW t \in Tasks, FreezeNext(t)
  PROVE  FreezesAreOwned' /\ OneFreezer' /\ bdFreeze' \in [Devices -> Nat]
<1>0. /\ TypeOK /\ FreezesAreOwned /\ OneFreezer /\ PathsAreFree /\ StatesInUse /\ KeventdThaws
      /\ bdFreeze \in [Devices -> Nat] /\ gFreezeCount \in Nat /\ DOMAIN devices = Files
      /\ \A ds : Cardinality(FreezesOf(ds)) \in Nat
      /\ \A ds : \A g \in Files : Cardinality(Freezes(g, ds)) \in Nat
  BY FreezesAreFinite DEF SyncInv, WorkInv, TypeOK
<1>a. Freezing(t) /\ call[t] \in FreezeCall /\ Head(call[t].pathList) \in Devices /\ call[t].pathList # <<>>
  BY <1>0, FreezeFields DEF FreezeNext, Freezing
<1>b. /\ call[t].file \in Files /\ state[call[t].file] = "open"
      /\ call[t].pathList \in Seq(Devices)
  BY <1>0, <1>a DEF FreezeCall, StatesInUse, KeventdThaws, Freezing, At, Tasks
<1>1. PICK d \in Devices : d = Head(call[t].pathList)
  BY <1>a
<1>2. PICK f \in Files : f = call[t].file /\ state[f] = "open"
  BY <1>b
<1>3. PICK sb \in BOOLEAN :
        /\ bdFreeze' = IF sb THEN [bdFreeze EXCEPT ![d] = bdFreeze[d] + 1] ELSE bdFreeze
        /\ gFreezeCount' = IF sb THEN gFreezeCount + 1 ELSE gFreezeCount
        /\ devices' = [devices EXCEPT ![f] = Append(devices[f], [bdev |-> d, sb |-> sb])]
  BY <1>1, <1>2 DEF FreezeNext
<1>4. UNCHANGED <<state, others>>
  BY DEF FreezeNext, stateVars
<1>5. \A g \in Files : g # f => Freezes(g, {d}) = {}
  <2>1. 1 \in DOMAIN call[t].pathList /\ call[t].pathList[1] = d
    BY <1>1, <1>a, <1>b
  <2> QED
    BY <1>0, <1>2, <1>a, <2>1 DEF PathsAreFree
<1> DEFINE e == [bdev |-> d, sb |-> sb]
<1>6. e \in Entry /\ e.bdev = d /\ e.sb = sb
  BY <1>1, <1>3 DEF Entry
<1>7. /\ devices'[f] = Append(devices[f], e)
      /\ \A g \in Files \ {f} : devices'[g] = devices[g]
  BY <1>0, <1>2, <1>3
<1> HIDE DEF e
<1>8. \A g \in Files \ {f} : \A ds : Freezes(g, ds)' = Freezes(g, ds)
  BY <1>4, <1>7, SameFreezes
<1>9. ASSUME NEW ds
      PROVE  /\ Cardinality(FreezesOf(ds)') = Cardinality(FreezesOf(ds)) + (IF sb /\ d \in ds THEN 1 ELSE 0)
             /\ ~(sb /\ d \in ds) => Freezes(f, ds)' = Freezes(f, ds)
  <2>1. /\ IsFiniteSet(Freezes(f, ds)')
        /\ Cardinality(Freezes(f, ds)') = Cardinality(Freezes(f, ds)) + (IF Counts(f, e, ds) THEN 1 ELSE 0)
        /\ ~Counts(f, e, ds) => Freezes(f, ds)' = Freezes(f, ds)
    BY <1>0, <1>2, <1>4, <1>6, <1>7, AppendCounts
  <2>2. Counts(f, e, ds) <=> sb /\ d \in ds
    BY <1>2, <1>6 DEF Counts
  <2>3. Cardinality(FreezesOf(ds)')
          = Cardinality(FreezesOf(ds)) - Cardinality(Freezes(f, ds)) + Cardinality(Freezes(f, ds)')
    BY <1>0, <1>2, <1>8, <2>1, FreezesMove
  <2>4. Cardinality(FreezesOf(ds)) \in Nat /\ Cardinality(Freezes(f, ds)) \in Nat
    BY <1>0, <1>2
  <2> QED
    BY <2>1, <2>2, <2>3, <2>4
<1>10. FreezesAreOwned'
  <2>1. ASSUME NEW x \in Devices
        PROVE  bdFreeze'[x] = Cardinality(FreezesOf({x})') + (IF x \in others' THEN 1 ELSE 0)
    <3>1. bdFreeze[x] = Cardinality(FreezesOf({x})) + (IF x \in others THEN 1 ELSE 0)
      BY <1>0 DEF FreezesAreOwned
    <3>2. bdFreeze'[x] = bdFreeze[x] + (IF sb /\ x = d THEN 1 ELSE 0)
      BY <1>0, <1>1, <1>3
    <3>3. Cardinality(FreezesOf({x})') = Cardinality(FreezesOf({x})) + (IF sb /\ x = d THEN 1 ELSE 0)
      BY <1>9
    <3>4. Cardinality(FreezesOf({x})) \in Nat
      BY <1>0
    <3> QED
      BY <1>4, <3>1, <3>2, <3>3, <3>4
  <2>2. gFreezeCount' = Cardinality(FreezesOf(Devices)')
    <3>1. gFreezeCount = Cardinality(FreezesOf(Devices))
      BY <1>0 DEF FreezesAreOwned
    <3>2. Cardinality(FreezesOf(Devices)') = Cardinality(FreezesOf(Devices)) + (IF sb THEN 1 ELSE 0)
      BY <1>1, <1>9
    <3> QED
      BY <1>0, <1>3, <3>1, <3>2
  <2> QED
    BY <2>1, <2>2 DEF FreezesAreOwned
<1>11. OneFreezer'
  <2> SUFFICES ASSUME NEW x \in Devices, NEW g \in Files, NEW h \in Files, g # h
               PROVE  Freezes(g, {x})' = {} \/ Freezes(h, {x})' = {}
    BY DEF OneFreezer
  <2>1. CASE x = d
    BY <1>5, <1>8, <2>1
  <2>2. CASE x # d
    <3>1. \A k \in Files : Freezes(k, {x})' = Freezes(k, {x})
      BY <1>8, <1>9, <2>2
    <3> QED
      BY <1>0, <3>1 DEF OneFreezer
  <2> QED
    BY <2>1, <2>2
<1>12. bdFreeze' \in [Devices -> Nat]
  <2>1. bdFreeze[d] + 1 \in Nat
    BY <1>0
  <2> QED
    BY <1>0, <1>3, <2>1
<1> QED
  BY <1>10, <1>11, <1>12

\* thaw_bdev for the first entry of a list.  The kernel's count covers it, so that the test
\* before the call only skips entries that have frozen nothing.
LEMMA ThawCounts ==
  ASSUME SyncInv, NEW t \in Tasks, ThawNext(t)
  PROVE  /\ FreezesAreOwned' /\ OneFreezer' /\ bdFreeze' \in [Devices -> Nat] /\ gFreezeCount' \in Nat
         /\ \A g \in Files : \A ds : Freezes(g, ds) = {} => Freezes(g, ds)' = {}
<1>0. /\ TypeOK /\ FreezesAreOwned /\ OneFreezer /\ StatesInUse
      /\ bdFreeze \in [Devices -> Nat] /\ gFreezeCount \in Nat /\ devices \in [Files -> Seq(Entry)]
      /\ \A ds : Cardinality(FreezesOf(ds)) \in Nat
      /\ \A ds : IsFiniteSet(FreezesOf(ds))
      /\ \A ds : \A g \in Files : Cardinality(Freezes(g, ds)) \in Nat
  BY FreezesAreFinite DEF SyncInv, WorkInv, TypeOK
<1>a. call[t].file \in Files
  BY <1>0, CallTypes DEF ThawNext, At
<1>1. PICK f \in Files : f = call[t].file
  BY <1>a
<1>2. devices[f] # <<>> /\ devices[f] \in Seq(Entry) /\ Head(devices[f]) \in Entry
  BY <1>0, <1>1 DEF ThawNext
<1>3. PICK e \in Entry : e = Head(devices[f])
  BY <1>2
<1>4. PICK d \in Devices : d = e.bdev
  BY DEF Entry
<1>5. PICK sb \in BOOLEAN : sb = StillFrozen(e)
  BY DEF StillFrozen, Entry
<1>6. /\ bdFreeze' = IF sb THEN [bdFreeze EXCEPT ![d] = bdFreeze[d] - 1] ELSE bdFreeze
      /\ gFreezeCount' = IF sb THEN gFreezeCount - 1 ELSE gFreezeCount
      /\ devices' = [devices EXCEPT ![f] = Tail(devices[f])]
      /\ UNCHANGED <<state, others>>
  BY <1>1, <1>3, <1>4, <1>5 DEF ThawNext, stateVars
<1>7. /\ devices'[f] = Tail(devices[f])
      /\ \A g \in Files \ {f} : devices'[g] = devices[g]
  BY <1>0, <1>6
<1>8. \A g \in Files \ {f} : \A ds : Freezes(g, ds)' = Freezes(g, ds)
  BY <1>6, <1>7, SameFreezes
<1>9. ASSUME NEW ds
      PROVE  /\ Cardinality(FreezesOf(ds)')
                  = Cardinality(FreezesOf(ds)) - (IF Counts(f, e, ds) THEN 1 ELSE 0)
             /\ Freezes(f, ds) = {} => Freezes(f, ds)' = {}
             /\ Counts(f, e, ds) => Cardinality(FreezesOf(ds)) > 0
  <2>1. /\ IsFiniteSet(Freezes(f, ds)')
        /\ Cardinality(Freezes(f, ds)') = Cardinality(Freezes(f, ds)) - (IF Counts(f, e, ds) THEN 1 ELSE 0)
        /\ Freezes(f, ds) = {} => Freezes(f, ds)' = {}
        /\ Counts(f, e, ds) => Cardinality(Freezes(f, ds)) # 0
    BY <1>0, <1>2, <1>3, <1>6, <1>7, TailCounts
  <2>2. Cardinality(FreezesOf(ds)')
          = Cardinality(FreezesOf(ds)) - Cardinality(Freezes(f, ds)) + Cardinality(Freezes(f, ds)')
    BY <1>0, <1>8, <2>1, FreezesMove
  <2>3. Cardinality(FreezesOf(ds)) \in Nat /\ Cardinality(Freezes(f, ds)) \in Nat
    BY <1>0
  <2>4. ASSUME Counts(f, e, ds)
        PROVE  Cardinality(FreezesOf(ds)) > 0
    <3>1. PICK i : i \in Freezes(f, ds)
      BY <2>1, <2>4, FS_EmptySet
    <3>2. <<f, i>> \in FreezesOf(ds)
      BY <3>1, FreezesOfIs
    <3>3. Cardinality(FreezesOf(ds)) # 0
      BY <1>0, <3>2, FS_EmptySet
    <3> QED
      BY <2>3, <3>3
  <2>5. Cardinality(FreezesOf(ds)') = Cardinality(FreezesOf(ds)) - (IF Counts(f, e, ds) THEN 1 ELSE 0)
    BY <2>1, <2>2, <2>3
  <2> QED
    BY <2>1, <2>4, <2>5
<1>10. \A x : Counts(f, e, {x}) <=> sb /\ x = d
  <2>1. state[f] # "freed"
    BY <1>0, <1>2 DEF StatesInUse
  <2>2. e.sb \in BOOLEAN
    BY DEF Entry
  <2>3. ASSUME e.sb
        PROVE  bdFreeze[d] > 0
    <3>1. Counts(f, e, {d})
      BY <1>4, <2>1, <2>3 DEF Counts
    <3>2. Cardinality(FreezesOf({d})) > 0
      BY <1>9, <3>1
    <3>3. bdFreeze[d] = Cardinality(FreezesOf({d})) + (IF d \in others THEN 1 ELSE 0)
      BY <1>0 DEF FreezesAreOwned
    <3>4. Cardinality(FreezesOf({d})) \in Nat
      BY <1>0
    <3> QED
      BY <3>2, <3>3, <3>4
  <2>4. sb <=> e.sb
    BY <1>4, <1>5, <2>3 DEF StillFrozen
  <2> QED
    BY <1>4, <2>1, <2>4 DEF Counts
<1>11. Counts(f, e, Devices) <=> sb
  BY <1>4, <1>10 DEF Counts
<1>12. ASSUME NEW x \in Devices
       PROVE  /\ bdFreeze'[x] = Cardinality(FreezesOf({x})') + (IF x \in others' THEN 1 ELSE 0)
              /\ bdFreeze'[x] \in Nat
  <2>1. bdFreeze[x] = Cardinality(FreezesOf({x})) + (IF x \in others THEN 1 ELSE 0)
    BY <1>0 DEF FreezesAreOwned
  <2>2. bdFreeze'[x] = bdFreeze[x] - (IF sb /\ x = d THEN 1 ELSE 0)
    BY <1>0, <1>6
  <2>3. /\ Cardinality(FreezesOf({x})') = Cardinality(FreezesOf({x})) - (IF sb /\ x = d THEN 1 ELSE 0)
        /\ sb /\ x = d => Cardinality(FreezesOf({x})) > 0
    BY <1>9, <1>10
  <2>4. Cardinality(FreezesOf({x})) \in Nat
    BY <1>0
  <2> QED
    BY <1>6, <2>1, <2>2, <2>3, <2>4
<1>13. gFreezeCount' = Cardinality(FreezesOf(Devices)') /\ gFreezeCount' \in Nat
  <2>1. gFreezeCount = Cardinality(FreezesOf(Devices))
    BY <1>0 DEF FreezesAreOwned
  <2>2. /\ Cardinality(FreezesOf(Devices)') = Cardinality(FreezesOf(Devices)) - (IF sb THEN 1 ELSE 0)
        /\ sb => Cardinality(FreezesOf(Devices)) > 0
    BY <1>9, <1>11
  <2> QED
    BY <1>0, <1>6, <2>1, <2>2
<1>14. FreezesAreOwned'
  BY <1>12, <1>13 DEF FreezesAreOwned
<1>15. \A g \in Files : \A ds : Freezes(g, ds) = {} => Freezes(g, ds)' = {}
  BY <1>8, <1>9
<1>16. OneFreezer'
  BY <1>0, <1>15 DEF OneFreezer
<1>17. bdFreeze' \in [Devices -> Nat]
  <2>1. DOMAIN bdFreeze' = Devices /\ bdFreeze' = [x \in Devices |-> bdFreeze'[x]]
    BY <1>0, <1>6
  <2> QED
    BY <1>12, <2>1
<1> QED
  BY <1>13, <1>14, <1>15, <1>16, <1>17

-----------------------------------------------------------------------------
(***************************************************************************)
(* gFreezeLock and the devices that VmSyncAddPath has accepted.            *)
(***************************************************************************)
Claims(t, d) ==
  Freezing(t) /\ \E i \in DOMAIN call[t].pathList : call[t].pathList[i] = d

LEMMA ClaimsAreFree ==
  /\ PathsAreFree <=>
       \A t \in Tasks : \A d, g : Claims(t, d) /\ g \in Files /\ g # call[t].file => Freezes(g, {d}) = {}
  /\ PathsAreFree' <=>
       \A t \in Tasks : \A d, g :
         Claims(t, d)' /\ g \in Files /\ g # call'[t].file => Freezes(g, {d})' = {}
<1>1. PathsAreFree <=>
        \A t \in Tasks : \A d, g : Claims(t, d) /\ g \in Files /\ g # call[t].file => Freezes(g, {d}) = {}
  BY DEF PathsAreFree, Claims
<1>2. PathsAreFree' <=>
        \A t \in Tasks : \A d, g :
          Claims(t, d)' /\ g \in Files /\ g # call'[t].file => Freezes(g, {d})' = {}
  BY DEF PathsAreFree, Claims, Freezes
<1> QED
  BY <1>1, <1>2

\* A step that takes no new device and freezes none.
LEMMA LocksStay ==
  ASSUME FreezersExclude, PathsAreFree,
         \A t \in Tasks : Freezing(t)' => Freezing(t) /\ call'[t].file = call[t].file,
         \A t \in Tasks : \A d : Claims(t, d)' =>
           Claims(t, d) \/ (Freezing(t) /\ \A g \in Files : Freezes(g, {d}) = {}),
         \A g \in Files : \A d : (\E t \in Tasks : Claims(t, d)' /\ g # call[t].file) /\ Freezes(g, {d}) = {}
                                   => Freezes(g, {d})' = {}
  PROVE  FreezersExclude' /\ PathsAreFree'
<1>1. FreezersExclude'
  BY DEF FreezersExclude
<1>2. ASSUME NEW t \in Tasks, NEW d, NEW g \in Files, Claims(t, d)', g # call'[t].file
      PROVE  Freezes(g, {d})' = {}
  <2>1. Freezing(t)' 
    BY <1>2 DEF Claims
  <2>2. call'[t].file = call[t].file
    BY <2>1
  <2>3. Freezes(g, {d}) = {}
    BY <1>2, <2>2, ClaimsAreFree
  <2> QED
    BY <1>2, <2>2, <2>3
<1>3. PathsAreFree'
  BY <1>2, ClaimsAreFree
<1> QED
  BY <1>1, <1>3

LEMMA LocksOfQuietSteps ==
  ASSUME SyncInv, NEW t \in Tasks, \A u \in Tasks \ {t} : call'[u] = call[u],
         call'[t] = call[t] \/ ~Freezing(t)',
         \A g \in Files : \A ds : Freezes(g, ds) = {} => Freezes(g, ds)' = {}
  PROVE  FreezersExclude' /\ PathsAreFree'
<1>1. \A u \in Tasks : Freezing(u)' => call'[u] = call[u]
  OBVIOUS
<1>2. \A u \in Tasks : Freezing(u)' => Freezing(u) /\ call'[u].file = call[u].file
  BY <1>1 DEF Freezing, At
<1>3. \A u \in Tasks : \A d : Claims(u, d)' => Claims(u, d)
  BY <1>1, <1>2 DEF Claims
<1> QED
  BY <1>2, <1>3, LocksStay DEF SyncInv

\* VmSyncAddPath accepts a device only if nobody has frozen it.
LEMMA LocksOfAddPath ==
  ASSUME SyncInv, NEW t \in Tasks, AddPath(t)
  PROVE  FreezersExclude' /\ PathsAreFree'
<1>0. TypeOK /\ FreezersExclude /\ PathsAreFree /\ FreezesAreOwned
  BY DEF SyncInv, WorkInv
<1>1. /\ call[t] \in FreezeCall /\ call'[t] \in FreezeCall /\ call'[t].pc = "add" /\ Freezing(t)
      /\ call'[t].file = call[t].file
      /\ \/ call'[t].pathList = call[t].pathList
         \/ \E d \in Devices :
              bdFreeze[d] = 0 /\ call'[t].pathList = Append(call[t].pathList, d)
      /\ \A u \in Tasks \ {t} : call'[u] = call[u]
  BY <1>0, FreezeFields DEF AddPath, Freezing
<1>2. ASSUME NEW d \in Devices, bdFreeze[d] = 0
      PROVE  \A g \in Files : Freezes(g, {d}) = {}
  <2>1. bdFreeze[d] = Cardinality(FreezesOf({d})) + (IF d \in others THEN 1 ELSE 0)
    BY <1>0 DEF FreezesAreOwned
  <2>2. Cardinality(FreezesOf({d})) \in Nat /\ IsFiniteSet(FreezesOf({d}))
    BY <1>0, FreezesAreFinite
  <2>3. Cardinality(FreezesOf({d})) = 0
    BY <1>2, <2>1, <2>2
  <2>4. FreezesOf({d}) = {}
    BY <2>2, <2>3, FS_EmptySet
  <2> QED
    BY <2>4, FreezesOfIs, ZenonT(40)
<1>3. \A u \in Tasks : Freezing(u)' => Freezing(u) /\ call'[u].file = call[u].file
  BY <1>1 DEF Freezing, At
<1>4. ASSUME NEW d, Claims(t, d)'
      PROVE  Claims(t, d) \/ \A g \in Files : Freezes(g, {d}) = {}
  <2>1. PICK i \in DOMAIN call'[t].pathList : call'[t].pathList[i] = d
    BY <1>4 DEF Claims
  <2>2. CASE call'[t].pathList = call[t].pathList
    BY <1>1, <2>1, <2>2 DEF Claims
  <2>3. ASSUME NEW x \in Devices, bdFreeze[x] = 0, call'[t].pathList = Append(call[t].pathList, x)
        PROVE  Claims(t, d) \/ \A g \in Files : Freezes(g, {d}) = {}
    <3>1. call[t].pathList \in Seq(Devices)
      BY <1>1 DEF FreezeCall
    <3>2. (i \in DOMAIN call[t].pathList /\ call[t].pathList[i] = d) \/ d = x
      BY <2>1, <2>3, <3>1
    <3> QED
      BY <1>1, <1>2, <2>3, <3>2 DEF Claims
  <2> QED
    BY <1>1, <2>2, <2>3
<1>5. \A u \in Tasks : \A d : Claims(u, d)' =>
        Claims(u, d) \/ (Freezing(u) /\ \A g \in Files : Freezes(g, {d}) = {})
  <2>1. \A u \in Tasks \ {t} : \A d : Claims(u, d)' => Claims(u, d)
    BY <1>1, <1>3 DEF Claims
  <2> QED
    BY <1>1, <1>4, <2>1
<1>6. \A g \in Files : \A d : Freezes(g, {d})' = Freezes(g, {d})
  BY <1>0, CountsStaySteps DEF CountsStay
<1> QED
  BY <1>0, <1>3, <1>5, <1>6, LocksStay

\* Freezing a device makes it the caller's, which is the only one that has claimed any.
LEMMA LocksOfFreezeNext ==
  ASSUME SyncInv, NEW t \in Tasks, FreezeNext(t)
  PROVE  FreezersExclude' /\ PathsAreFree'
<1>0. TypeOK /\ FreezersExclude /\ PathsAreFree /\ DOMAIN devices = Files
  BY DEF SyncInv, WorkInv, TypeOK
<1>1. /\ call[t] \in FreezeCall /\ call'[t] \in FreezeCall /\ call'[t].pc = "freeze" /\ Freezing(t)
      /\ call'[t].file = call[t].file /\ call'[t].pathList = Tail(call[t].pathList)
      /\ \A u \in Tasks \ {t} : call'[u] = call[u]
      /\ call[t].pathList # <<>> /\ state' = state
      /\ \A g \in Files : g # call[t].file => devices'[g] = devices[g]
  <2>1. /\ call[t] \in FreezeCall /\ call'[t] \in FreezeCall /\ call'[t].pc = "freeze"
        /\ call'[t].file = call[t].file /\ call'[t].pathList = Tail(call[t].pathList)
        /\ \A u \in Tasks \ {t} : call'[u] = call[u]
    BY <1>0, FreezeFields
  <2> QED
    BY <1>0, <2>1 DEF FreezeNext, Freezing, stateVars
<1>3. \A u \in Tasks : Freezing(u)' => Freezing(u) /\ call'[u].file = call[u].file
  BY <1>1 DEF Freezing, At
<1>4. ASSUME NEW d, Claims(t, d)'
      PROVE  Claims(t, d)
  <2>1. PICK i \in DOMAIN call'[t].pathList : call'[t].pathList[i] = d
    BY <1>4 DEF Claims
  <2>2. call[t].pathList \in Seq(Devices)
    BY <1>1 DEF FreezeCall
  <2>3. i + 1 \in DOMAIN call[t].pathList /\ call[t].pathList[i + 1] = d
    BY <1>1, <2>1, <2>2
  <2> QED
    BY <1>1, <2>3 DEF Claims
<1>5. \A u \in Tasks : \A d : Claims(u, d)' => Claims(u, d)
  <2>1. \A u \in Tasks \ {t} : \A d : Claims(u, d)' => Claims(u, d)
    BY <1>1, <1>3 DEF Claims
  <2> QED
    BY <1>4, <2>1
<1>6. \A u \in Tasks : \A d : Claims(u, d)' => u = t
  <2>1. \A u \in Tasks : \A d : Claims(u, d)' => Freezing(u)
    BY <1>3 DEF Claims
  <2> QED
    BY <1>0, <1>1, <2>1 DEF FreezersExclude
<1>7. \A g \in Files : \A d : g # call[t].file => Freezes(g, {d})' = Freezes(g, {d})
  BY <1>1, SameFreezes
<1> QED
  BY <1>0, <1>3, <1>5, <1>6, <1>7, LocksStay

LEMMA LocksOfFreezeDevices ==
  ASSUME SyncInv, NEW t \in Threads, NEW f \in Files, NEW paths \in PathLists, FreezeDevices(t, f, paths)
  PROVE  FreezersExclude' /\ PathsAreFree'
<1>0. TypeOK /\ t \in Tasks
  BY DEF SyncInv, WorkInv, Tasks
<1>1. /\ \A u \in Tasks : ~Freezing(u)
      /\ call' = [call EXCEPT ![t] = [pc |-> "add", file |-> f, todo |-> paths, pathList |-> <<>>,
                                      result |-> "0"]]
  BY DEF FreezeDevices, InFreezeLock, Freezing
<1>2. call'[t].pathList = <<>> /\ \A u \in Tasks \ {t} : call'[u] = call[u]
  BY <1>0, <1>1 DEF TypeOK
<1>3. \A u \in Tasks : Freezing(u)' => u = t
  BY <1>1, <1>2 DEF Freezing, At
<1>4. \A u \in Tasks : \A d : ~Claims(u, d)'
  <2>1. DOMAIN call'[t].pathList = {}
    BY <1>2
  <2> QED
    BY <1>3, <2>1 DEF Claims
<1>5. FreezersExclude'
  BY <1>3 DEF FreezersExclude
<1>6. PathsAreFree'
  BY <1>4, ClaimsAreFree
<1> QED
  BY <1>5, <1>6

-----------------------------------------------------------------------------
(***************************************************************************)
(* Every step.                                                             *)
(***************************************************************************)
Locked == FreezersExclude /\ PathsAreFree
Counted == FreezesAreOwned /\ OneFreezer

LEMMA TaskSteps ==
  ASSUME SyncInv, NEW t \in Tasks, TaskStep(t)
  PROVE  TypeOK' /\ Locked' /\ Counted'
<1>0. /\ WorkInv /\ TypeOK /\ FreezesAreOwned /\ OneFreezer
      /\ \A u \in Tasks : ~At(u, "idle") => call[u].file \in Files
  BY CallTypes DEF SyncInv, WorkInv
<1>1. CASE AddPath(t)
  <2>1. call' \in [Tasks -> {Idle} \cup FreezeCall \cup ThawCall]
    BY <1>0, <1>1, FreezeFields
  <2>2. TypeOK'
    BY <1>0, <1>1, <2>1 DEF TypeOK, AddPath, stateVars, kernelVars
  <2> QED
    BY <1>0, <1>1, <2>2, LocksOfAddPath, CountsStaySteps, CountsStayStep DEF Locked, Counted
<1>2. CASE FreezeNext(t)
  <2>1. /\ call' \in [Tasks -> {Idle} \cup FreezeCall \cup ThawCall] /\ call[t].file \in Files
        /\ Head(call[t].pathList) \in Devices
    BY <1>0, <1>2, FreezeFields DEF FreezeNext, At
  <2>2. PICK sb \in BOOLEAN :
          /\ gFreezeCount' = IF sb THEN gFreezeCount + 1 ELSE gFreezeCount
          /\ devices' = [devices EXCEPT ![call[t].file] = Append(@, [bdev |-> Head(call[t].pathList), sb |-> sb])]
    BY <1>2 DEF FreezeNext
  <2>3. devices' \in [Files -> Seq(Entry)] /\ gFreezeCount' \in Nat
    <3>1. [bdev |-> Head(call[t].pathList), sb |-> sb] \in Entry
      BY <2>1 DEF Entry
    <3>2. devices[call[t].file] \in Seq(Entry) /\ devices \in [Files -> Seq(Entry)] /\ gFreezeCount \in Nat
      BY <1>0, <2>1 DEF TypeOK
    <3>3. Append(devices[call[t].file], [bdev |-> Head(call[t].pathList), sb |-> sb]) \in Seq(Entry)
      BY <3>1, <3>2
    <3> QED
      BY <2>1, <2>2, <3>2, <3>3
  <2>4. FreezesAreOwned' /\ OneFreezer' /\ bdFreeze' \in [Devices -> Nat]
    BY <1>2, FreezeCounts
  <2>5. TypeOK'
    BY <1>0, <1>2, <2>1, <2>3, <2>4 DEF TypeOK, FreezeNext, stateVars
  <2> QED
    BY <1>2, <2>4, <2>5, LocksOfFreezeNext DEF Locked, Counted
<1>3. CASE DropPaths(t) \/ FreezeUnlock(t) \/ Schedule(t)
  <2>1. /\ call' \in [Tasks -> {Idle} \cup FreezeCall \cup ThawCall]
        /\ \A u \in Tasks \ {t} : call'[u] = call[u]
        /\ call[t] \in FreezeCall /\ call[t].file \in Files
        /\ call'[t] = Idle \/ call'[t].pc = "schedule"
    <3>1. call[t] \in FreezeCall
      BY <1>0, <1>3, FreezeFields
    <3>2. call[t].file \in Files
      BY <3>1 DEF FreezeCall
    <3> QED
      BY <1>0, <1>3, <3>1, <3>2, FreezeFields
  <2>2. ~Freezing(t)'
    BY <2>1 DEF Freezing, At, Idle
  <2>3. CountsStay
    BY <1>0, <1>3, CountsStaySteps
  <2>4. Locked'
    BY <2>1, <2>2, <2>3, LocksOfQuietSteps DEF CountsStay, Locked
  <2>5. TypeOK'
    <3>1. CASE DropPaths(t)
      <4>1. call[t].pathList \in Seq(Devices)
        BY <2>1 DEF FreezeCall
      <4>2. ToSet(call[t].pathList) \subseteq Devices
        BY <4>1 DEF ToSet
      <4> QED
        BY <1>0, <2>1, <3>1, <4>2 DEF TypeOK, DropPaths, stateVars, kernelVars
    <3>2. CASE FreezeUnlock(t)
      BY <1>0, <2>1, <3>2 DEF TypeOK, FreezeUnlock, stateVars, kernelVars
    <3>3. CASE Schedule(t)
      <4>1. Armed(call[t].file) \in {"idle", "timer", "queued"}
        BY <1>0, <2>1 DEF TypeOK, Armed
      <4> QED
        BY <1>0, <2>1, <3>3, <4>1 DEF TypeOK, Schedule, stateVars, kernelVars
    <3> QED
      BY <1>3, <3>1, <3>2, <3>3
  <2> QED
    BY <1>0, <2>3, <2>4, <2>5, CountsStayStep DEF Counted
<1>4. CASE ThawLock(t) \/ ThawUnlock(t) \/ Flush(t)
  <2>1. /\ call' \in [Tasks -> {Idle} \cup FreezeCall \cup ThawCall]
        /\ \A u \in Tasks \ {t} : call'[u] = call[u]
        /\ call'[t] = Idle \/ call'[t] \in ThawCall
        /\ call[t].file \in Files
    <3>1. call[t] \in ThawCall
      BY <1>0, <1>4, ThawFields
    <3>2. call[t].file \in Files
      BY <3>1 DEF ThawCall
    <3> QED
      BY <1>0, <1>4, <3>2, ThawFields
  <2>2. ~Freezing(t)'
    <3>1. \A r \in ThawCall : r.pc # "add" /\ r.pc # "freeze"
      BY DEF ThawCall
    <3>2. Idle.pc = "idle"
      BY DEF Idle
    <3> QED
      BY <2>1, <3>1, <3>2 DEF Freezing, At
  <2>3. CountsStay
    BY <1>0, <1>4, CountsStaySteps
  <2>4. Locked'
    BY <2>1, <2>2, <2>3, LocksOfQuietSteps DEF CountsStay, Locked
  <2>5. TypeOK'
    <3>1. CASE ThawLock(t)
      <4>1. Cancelled(call[t].file) \in {"idle", "timer", "queued"}
        BY <1>0, <2>1 DEF TypeOK, Cancelled
      <4> QED
        BY <1>0, <2>1, <3>1, <4>1 DEF TypeOK, ThawLock, stateVars, kernelVars
    <3>2. CASE ThawUnlock(t)
      BY <1>0, <2>1, <3>2 DEF TypeOK, ThawUnlock, kernelVars
    <3>3. CASE Flush(t)
      BY <1>0, <2>1, <3>3 DEF TypeOK, Flush, stateVars, kernelVars
    <3> QED
      BY <1>4, <3>1, <3>2, <3>3
  <2> QED
    BY <1>0, <2>3, <2>4, <2>5, CountsStayStep DEF Counted
<1>5. CASE ThawNext(t)
  <2>1. /\ FreezesAreOwned' /\ OneFreezer' /\ bdFreeze' \in [Devices -> Nat] /\ gFreezeCount' \in Nat
        /\ \A g \in Files : \A ds : Freezes(g, ds) = {} => Freezes(g, ds)' = {}
    BY <1>5, ThawCounts
  <2>2. call' = call /\ call[t].file \in Files /\ devices[call[t].file] # <<>>
    BY <1>0, <1>5 DEF ThawNext, At
  <2>3. devices' \in [Files -> Seq(Entry)]
    <3>1. devices[call[t].file] \in Seq(Entry) /\ devices \in [Files -> Seq(Entry)]
      BY <1>0, <2>2 DEF TypeOK
    <3>2. Tail(devices[call[t].file]) \in Seq(Entry)
      BY <2>2, <3>1
    <3> QED
      BY <1>5, <3>1, <3>2 DEF ThawNext
  <2>4. TypeOK'
    BY <1>0, <1>5, <2>1, <2>2, <2>3 DEF TypeOK, ThawNext, stateVars
  <2>5. Locked'
    BY <2>1, <2>2, LocksOfQuietSteps DEF Locked
  <2> QED
    BY <2>1, <2>4, <2>5 DEF Counted
<1> QED
  BY <1>1, <1>2, <1>3, <1>4, <1>5 DEF TaskStep

LEMMA BeginSteps ==
  ASSUME SyncInv, NEW t \in Threads, NEW f \in Files,
         (\E paths \in PathLists : FreezeDevices(t, f, paths)) \/ ThawIoctl(t, f) \/ Release(t, f)
  PROVE  TypeOK' /\ Locked' /\ Counted'
<1>0. WorkInv /\ TypeOK /\ FreezesAreOwned /\ OneFreezer /\ t \in Tasks /\ freezes[f] \in Nat
  BY DEF SyncInv, WorkInv, Tasks, TypeOK
<1>1. CountsStay
  BY <1>0, CountsStaySteps
<1>2. Counted'
  BY <1>0, <1>1, CountsStayStep DEF Counted
<1>3. ASSUME NEW paths \in PathLists, FreezeDevices(t, f, paths)
      PROVE  TypeOK' /\ Locked'
  <2>1. call' \in [Tasks -> {Idle} \cup FreezeCall \cup ThawCall]
    BY <1>0, <1>3, BeginFields
  <2>2. freezes[f] + 1 \in Nat
    BY <1>0
  <2>3. TypeOK'
    BY <1>0, <1>3, <2>1, <2>2 DEF TypeOK, FreezeDevices, kernelVars
  <2> QED
    BY <1>3, <2>3, LocksOfFreezeDevices DEF Locked
<1>4. ASSUME ThawIoctl(t, f) \/ Release(t, f)
      PROVE  TypeOK' /\ Locked'
  <2>1. PICK l \in {"lock", "flush"}, r \in BOOLEAN : call' = [call EXCEPT ![t] = ThawDevices(f, l, r)]
    BY <1>4 DEF ThawIoctl, Release, AfterCancel
  <2>2. ThawDevices(f, l, r) \in ThawCall /\ ThawDevices(f, l, r).pc = l
    BY DEF ThawDevices, ThawCall
  <2>3. /\ call'[t].pc \in {"lock", "flush"} /\ \A u \in Tasks \ {t} : call'[u] = call[u]
        /\ call' \in [Tasks -> {Idle} \cup FreezeCall \cup ThawCall]
    BY <1>0, <2>1, <2>2, CallMoves
  <2>4. ~Freezing(t)'
    BY <2>3 DEF Freezing, At
  <2>5. Locked'
    BY <1>0, <1>1, <2>3, <2>4, LocksOfQuietSteps DEF CountsStay, Locked
  <2>6. thawTask' \in [Files -> {"idle", "timer", "queued"}]
    BY <1>0, <1>4 DEF TypeOK, ThawIoctl, Release, Cancelled
  <2>7. TypeOK'
    BY <1>0, <1>4, <2>3, <2>6 DEF TypeOK, ThawIoctl, Release, stateVars, kernelVars
  <2> QED
    BY <2>5, <2>7
<1> QED
  BY <1>2, <1>3, <1>4

LEMMA FileSteps ==
  ASSUME SyncInv, NEW f \in Files,
         \/ Open(f) \/ TimerExpires(f) \/ ThawDevicesCallback(f) \/ ReleaseUnprivileged(f)
         \/ DropCapability(f)
  PROVE  TypeOK' /\ Locked' /\ Counted'
<1>0. WorkInv /\ TypeOK /\ FreezesAreOwned /\ OneFreezer /\ Keventd \in Tasks
  BY DEF SyncInv, WorkInv, Tasks
<1>1. CountsStay
  BY <1>0, CountsStaySteps
<1>2. Counted'
  BY <1>0, <1>1, CountsStayStep DEF Counted
<1>3. ASSUME ThawDevicesCallback(f)
      PROVE  TypeOK' /\ Locked'
  <2>1. call' = [call EXCEPT ![Keventd] = ThawDevices(f, "lock", FALSE)]
    BY <1>3 DEF ThawDevicesCallback
  <2>2. ThawDevices(f, "lock", FALSE) \in ThawCall /\ ThawDevices(f, "lock", FALSE).pc = "lock"
    BY DEF ThawDevices, ThawCall
  <2>3. /\ call'[Keventd].pc = "lock" /\ \A u \in Tasks \ {Keventd} : call'[u] = call[u]
        /\ call' \in [Tasks -> {Idle} \cup FreezeCall \cup ThawCall]
    BY <1>0, <2>1, <2>2, CallMoves
  <2>4. ~Freezing(Keventd)'
    BY <2>3 DEF Freezing, At
  <2>5. Locked'
    BY <1>0, <1>1, <2>3, <2>4, LocksOfQuietSteps DEF CountsStay, Locked
  <2>6. TypeOK'
    BY <1>0, <1>3, <2>3 DEF TypeOK, ThawDevicesCallback, stateVars, kernelVars
  <2> QED
    BY <2>5, <2>6
<1>4. ASSUME Open(f) \/ TimerExpires(f) \/ ReleaseUnprivileged(f) \/ DropCapability(f)
      PROVE  TypeOK' /\ Locked'
  <2>1. call' = call
    BY <1>4 DEF Open, TimerExpires, ReleaseUnprivileged, DropCapability
  <2>2. Locked'
    BY <1>0, <1>1, <2>1, LocksOfQuietSteps DEF CountsStay, Locked
  <2>3. TypeOK'
    BY <1>0, <1>4 DEF TypeOK, Open, TimerExpires, ReleaseUnprivileged, DropCapability, stateVars, kernelVars
  <2> QED
    BY <2>2, <2>3
<1> QED
  BY <1>2, <1>3, <1>4

LEMMA DeviceSteps ==
  ASSUME SyncInv, NEW d \in Shared, OtherFreezes(d) \/ OtherThaws(d)
  PROVE  TypeOK' /\ Locked' /\ Counted' /\ Callers' /\ Work'
<1>0. WorkInv /\ TypeOK /\ FreezesAreOwned /\ OneFreezer /\ Keventd \in Tasks
  BY DEF SyncInv, WorkInv, Tasks
<1>1. FreezesAreOwned' /\ OneFreezer' /\ bdFreeze' \in [Devices -> Nat]
  BY <1>0, OtherCounts
<1>2. UNCHANGED <<state, capable, freezes, devices, thawTask, gFreezeCount, pathRefs, call>>
  BY DEF OtherFreezes, OtherThaws, stateVars
<1>3. TypeOK'
  <2>1. others' \subseteq Shared
    BY <1>0 DEF OtherFreezes, OtherThaws, TypeOK
  <2> QED
    BY <1>0, <1>1, <1>2, <2>1 DEF TypeOK
<1>4. \A g \in Files : \A ds : Freezes(g, ds)' = Freezes(g, ds)
  BY <1>2, SameFreezes
<1>5. Locked'
  BY <1>0, <1>2, <1>4, LocksOfQuietSteps DEF Locked
<1>6. Callers' /\ Work'
  BY <1>0, <1>2, OtherSteps
<1> QED
  BY <1>1, <1>3, <1>5, <1>6 DEF Counted

LEMMA SyncInvInit == Init => SyncInv
<1> SUFFICES ASSUME Init
             PROVE  SyncInv
  OBVIOUS
<1>1. /\ \A t \in Tasks : At(t, "idle")
      /\ Keventd \in Tasks /\ Threads \subseteq Tasks
  BY DEF Init, At, Idle, Tasks
<1>2. TypeOK
  <2>1. \A f \in Files : <<>> \in Seq(Entry)
    OBVIOUS
  <2> QED
    BY <2>1 DEF Init, TypeOK, Tasks
<1>3. KeventdThaws /\ StatesInUse /\ ReleaseIsLast
  BY <1>1 DEF Init, KeventdThaws, StatesInUse, ReleaseIsLast, Frees, At
<1>4. WorkOnce /\ ReleaseWaits /\ StateOutlivesWork
  BY <1>1 DEF Init, WorkOnce, ReleaseWaits, StateOutlivesWork, Scheduling, Frees, Freezing, On, At
<1>5. ThawIsPending
  BY DEF Init, ThawIsPending
<1>6. FreezersExclude /\ PathsAreFree
  BY <1>1 DEF FreezersExclude, PathsAreFree, Freezing, At
<1>7. /\ \A f \in Files : \A ds : Freezes(f, ds) = {}
      /\ \A ds : FreezesOf(ds) = {}
  <2>1. \A f \in Files : DOMAIN devices[f] = {}
    BY DEF Init
  <2>2. \A f \in Files : \A ds : Freezes(f, ds) = {}
    BY <2>1 DEF Freezes
  <2> QED
    BY <2>2, FreezesOfIs
<1>8. FreezesAreOwned
  <2>1. Cardinality({}) = 0
    BY FS_EmptySet
  <2>2. \A ds : Cardinality(FreezesOf(ds)) = 0
    BY <1>7, <2>1
  <2>3. others = {} /\ gFreezeCount = 0 /\ \A d \in Devices : bdFreeze[d] = 0
    BY DEF Init
  <2> QED
    BY <2>2, <2>3 DEF FreezesAreOwned
<1>9. OneFreezer
  BY <1>7 DEF OneFreezer
<1> QED
  BY <1>2, <1>3, <1>4, <1>5, <1>6, <1>8, <1>9 DEF SyncInv, WorkInv

LEMMA SyncInvStep == SyncInv /\ [Next]_vars => SyncInv'
<1> SUFFICES ASSUME SyncInv, [Next]_vars
             PROVE  TypeOK' /\ Locked' /\ Counted' /\ Callers' /\ Work'
  BY DEF SyncInv, WorkInv, Locked, Counted, Callers, Work
<1>0. WorkInv
  BY DEF SyncInv
<1>1. ASSUME NEW t \in Tasks, TaskStep(t)
      PROVE  TypeOK' /\ Locked' /\ Counted' /\ Callers' /\ Work'
  BY <1>0, <1>1, TaskSteps, FreezeSteps, FreezeReturns, ThawSteps, ThawNextStep, ThawReturns DEF TaskStep
<1>2. ASSUME NEW t \in Threads, NEW f \in Files,
             (\E paths \in PathLists : FreezeDevices(t, f, paths)) \/ ThawIoctl(t, f) \/ Release(t, f)
      PROVE  TypeOK' /\ Locked' /\ Counted' /\ Callers' /\ Work'
  BY <1>0, <1>2, BeginSteps, FreezeBegins, ThawBegins, ReleaseBegins
<1>3. ASSUME NEW f \in Files,
             \/ Open(f) \/ TimerExpires(f) \/ ThawDevicesCallback(f) \/ ReleaseUnprivileged(f)
             \/ DropCapability(f)
      PROVE  TypeOK' /\ Locked' /\ Counted' /\ Callers' /\ Work'
  BY <1>0, <1>3, FileSteps, QuietSteps, WorkBegins
<1>4. ASSUME NEW d \in Shared, OtherFreezes(d) \/ OtherThaws(d)
      PROVE  TypeOK' /\ Locked' /\ Counted' /\ Callers' /\ Work'
  BY <1>4, DeviceSteps
<1>5. CASE UNCHANGED vars
  <2>1. UNCHANGED <<state, capable, freezes, devices, thawTask, gFreezeCount, pathRefs, bdFreeze, others, call>>
    BY <1>5 DEF vars, stateVars, kernelVars
  <2>2. Callers' /\ Work'
    BY <1>0, <2>1, OtherSteps
  <2>3. TypeOK'
    BY <1>0, <2>1 DEF WorkInv, TypeOK
  <2>4. \A g \in Files : \A ds : Freezes(g, ds)' = Freezes(g, ds)
    BY <2>1, SameFreezes
  <2>5. Counted'
    BY <2>1, <2>4, CountsStayStep DEF CountsStay, Counted, SyncInv
  <2>6. Keventd \in Tasks
    BY DEF Tasks
  <2>7. Locked'
    BY <2>1, <2>4, <2>6, LocksOfQuietSteps DEF Locked
  <2> QED
    BY <2>2, <2>3, <2>5, <2>7
<1> QED
  BY <1>1, <1>2, <1>3, <1>4, <1>5 DEF Next

LEMMA SyncIsCorrect == Spec => []SyncInv
<1> QED
  BY SyncInvInit, SyncInvStep, PTL DEF Spec

\* The lists of the descriptors, the kernel's freeze counts and gFreezeCount agree after any
\* order of ioctls, timers and closes, and no device is on the lists of two descriptors.
THEOREM FreezesAreCorrect == Spec => []FreezeInv
<1>1. SyncInv => FreezeInv
  BY DEF SyncInv, WorkInv, FreezeInv
<1> QED
  BY <1>1, SyncIsCorrect, PTL

\* VmSyncFreezeDevices and VmSyncThawDevices never leave a frozen device without a work item
\* or a thread that will thaw it.
THEOREM ThawStaysPending == Spec => []ThawIsPending
<1>1. SyncInv => ThawIsPending
  BY DEF SyncInv, WorkInv
<1> QED
  BY <1>1, SyncIsCorrect, PTL

\* VmSyncRelease frees the state of a descriptor that was frozen at most once only when its
\* work item is neither pending nor running.
THEOREM StatesOutliveWork == Spec => []StateOutlivesWork
<1>1. SyncInv => StateOutlivesWork
  BY DEF SyncInv, WorkInv
<1> QED
  BY <1>1, SyncIsCorrect, PTL
=============================================================================
