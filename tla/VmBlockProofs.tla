---------------------------- MODULE VmBlockProofs ----------------------------
(***************************************************************************)
(* The block list of vmblock, for any number of descriptors, lookups and   *)
(* blocks: every BlockInfo has as many references as users, a file has one *)
(* block with somebody to lift it, and the count of the FreeBSD root vnode *)
(* follows the list.  The inductive invariant adds what the locks give:    *)
(* one call at a time changes the list, one call at a time has the root    *)
(* vnode, and what such a call has yet to remove is still on the list.     *)
(***************************************************************************)
EXTENDS VmBlock, FiniteSetTheorems, TLAPS

Writes(c) == Doing(c, {"remove", "drop"})
HasRoot(c) == Doing(c, {"remove", "drop", "count"}) /\ control[c].op # "close"

\* blockedFilesLock and the lock of the root vnode exclude.
LocksExclude ==
  /\ \A c, d \in Controllers : Writes(c) /\ Writes(d) => c = d
  /\ os = "freebsd" => \A c, d \in Controllers : HasRoot(c) /\ HasRoot(d) => c = d

\* Which calls are made on a descriptor, and which by the unmounter.
CallsAreOwn ==
  /\ \A f \in Files :
       ~Doing(f, {"idle"}) =>
         /\ Doing(f, {"remove", "drop", "count"})
         /\ control[f].op # "unmount"
         /\ control[f].op = "add" => Doing(f, {"count"})
         /\ control[f].op = "close" => f \in opened
  /\ ~Doing(Unmounter, {"idle"}) =>
       os = "freebsd" /\ mount = "unmounting" /\ control[Unmounter].op = "unmount"

\* What a call has yet to remove is on the list, but for the block that it just took off.
TodoIsListed ==
  \A c \in Controllers :
    /\ Writes(c) => control[c].todo # {} /\ control[c].todo \subseteq control[c].removed
    /\ Doing(c, {"remove"}) => control[c].todo \subseteq blockedFiles
    /\ Doing(c, {"drop"}) => /\ control[c].todo \ {Current(c)} \subseteq blockedFiles
                             /\ Current(c) \notin blockedFiles

\* A close removes all blocks of its descriptor, and an unmount all that there are.
LeftToRemove ==
  /\ \A f \in Files :
       ~Doing(f, {"idle"}) /\ control[f].op = "close" =>
         BlocksOf(f) \subseteq (IF Writes(f) THEN control[f].todo ELSE {})
  /\ Doing(Unmounter, {"remove", "drop", "count", "flush"}) =>
       blockedFiles \subseteq (IF Writes(Unmounter) THEN control[Unmounter].todo ELSE {})
  /\ mount # "mounted" => os = "freebsd"

\* A lookup has a block while it waits, and only then.
LookupsWait == \A t \in Threads : ~At(t, "idle") => (At(t, "wait") <=> lookup[t].block \in Blocks)

BlockInv ==
  /\ TypeOK /\ OneBlockPerFile /\ BlocksHaveOwners
  /\ LocksExclude /\ CallsAreOwn /\ TodoIsListed /\ LeftToRemove /\ LookupsWait
  /\ ReferencesBalance /\ UseCountFollowsBlocks

-----------------------------------------------------------------------------
(***************************************************************************)
(* The steps by what they change.                                          *)
(***************************************************************************)
USE VmBlockAssumption

\* A call begins to remove blocks: an ioctl, a close, or the purge of an unmount.
Begins(c, op, force, victims) ==
  /\ victims \subseteq blockedFiles /\ ~WriteLocked
  /\ op # "close" /\ os = "freebsd" => ~RootLocked
  /\ \/ c \in Files /\ Doing(c, {"idle"}) /\ op = "ioctl"
     \/ c \in Files /\ Doing(c, {"idle"}) /\ op = "close" /\ c \in opened /\ victims = BlocksOf(c)
     \/ c = Unmounter /\ Doing(c, {"check"}) /\ op = "unmount" /\ victims = blockedFiles
  /\ RemoveBlocks(c, op, force, victims)
  /\ UNCHANGED <<fsVars, listVars, lookup>>

\* A lookup that walks on, or ends, and has no block.
Walks(t, call) ==
  /\ ~At(t, "wait")
  /\ call = Idle \/ (call \in LookupCall /\ call.block = Nobody /\ call.pc \in {"root", "dir"})
  /\ Moved(t, call)
  /\ UNCHANGED <<fsVars, listVars, control>>

\* A lookup finds a block.
Finds(t, n) == ~At(t, "wait") /\ n \in Names /\ Found(t, n)

LEMMA TypeOfCalls ==
  ASSUME TypeOK
  PROVE  /\ \A c \in Controllers :
              /\ control[c] = Idle \/ control[c] \in ControlCall
              /\ Doing(c, {"idle"}) <=> control[c] = Idle
         /\ \A t \in Threads :
              /\ lookup[t] = Idle \/ lookup[t] \in LookupCall
              /\ At(t, "idle") <=> lookup[t] = Idle
<1>1. \A c \in Controllers : control[c] = Idle \/ control[c] \in ControlCall
  BY DEF TypeOK
<1>2. \A t \in Threads : lookup[t] = Idle \/ lookup[t] \in LookupCall
  BY DEF TypeOK
<1>3. Idle.pc = "idle"
  BY DEF Idle
<1>4. \A r \in ControlCall : r.pc # "idle"
  BY DEF ControlCall
<1>5. \A r \in LookupCall : r.pc # "idle"
  BY DEF LookupCall
<1> QED
  BY <1>1, <1>2, <1>3, <1>4, <1>5 DEF Doing, At

\* Every step is one of these.
LEMMA Steps ==
  ASSUME TypeOK, CallsAreOwn, LookupsWait, Next
  PROVE  \/ \E f \in Files : Open(f)
         \/ \E f \in Files, n \in Names : AddFileBlock(f, n)
         \/ \E c \in Controllers, op \in {"ioctl", "close", "unmount"}, force \in BOOLEAN,
               victims \in SUBSET Blocks : Begins(c, op, force, victims)
         \/ \E force \in BOOLEAN : Unmount(force)
         \/ \E c \in Controllers : DoRemoveBlock(c) \/ Drop(c) \/ Count(c) \/ Flush(c)
         \/ \E t \in Threads, n \in Names : Finds(t, n)
         \/ \E t \in Threads, call \in LookupCall \cup {Idle} : Walks(t, call)
         \/ \E t \in Threads : DropAndReturn(t)
<1>0. blockedFiles \in SUBSET Blocks /\ Files \subseteq Controllers /\ Unmounter \in Controllers
  BY DEF TypeOK, Controllers
<1>1. ASSUME NEW f \in Files, PurgeFileBlocks(f)
      PROVE  Begins(f, "ioctl", FALSE, blockedFiles)
  BY <1>1 DEF PurgeFileBlocks, MayIoctl, Begins
<1>2. ASSUME NEW f \in Files, Close(f)
      PROVE  Begins(f, "close", FALSE, BlocksOf(f)) /\ BlocksOf(f) \in SUBSET Blocks
  BY <1>0, <1>2 DEF Close, Begins, BlocksOf
<1>3. ASSUME NEW f \in Files, NEW n \in Names, RemoveFileBlock(f, n)
      PROVE  Begins(f, "ioctl", FALSE, GetBlock(n, f)) /\ GetBlock(n, f) \in SUBSET Blocks
  BY <1>0, <1>3 DEF RemoveFileBlock, MayIoctl, Begins, GetBlock
<1>4. ASSUME NEW c \in Controllers, UnmountPurge(c)
      PROVE  /\ Begins(c, "unmount", control[c].force, blockedFiles)
             /\ control[c].force \in BOOLEAN
  <2>1. c = Unmounter
    BY <1>4 DEF CallsAreOwn, UnmountPurge, Doing, Controllers
  <2>2. control[c] \in ControlCall
    BY <1>4, TypeOfCalls DEF UnmountPurge, Doing
  <2> QED
    BY <1>4, <2>1, <2>2 DEF UnmountPurge, Begins, ControlCall
<1>5. ASSUME NEW t \in Threads, LookupStep(t)
      PROVE  \/ \E n \in Names : Finds(t, n)
             \/ \E call \in LookupCall \cup {Idle} : Walks(t, call)
             \/ DropAndReturn(t)
  <2>1. CASE WalkDir(t)
    <3>1. lookup[t] \in LookupCall /\ lookup[t].block = Nobody
      BY <2>1, TypeOfCalls DEF WalkDir, At, LookupsWait, LookupCall
    <3>2. [lookup[t] EXCEPT !.pc = "dir"] \in LookupCall
      BY <3>1 DEF LookupCall
    <3>3. [lookup[t] EXCEPT !.pc = "dir"].block = Nobody /\ [lookup[t] EXCEPT !.pc = "dir"].pc = "dir"
      BY <3>1 DEF LookupCall
    <3>4. ~At(t, "wait")
      BY <2>1 DEF WalkDir, At
    <3> QED
      BY <2>1, <3>2, <3>3, <3>4 DEF WalkDir, Walks
  <2>2. CASE VopLookup(t)
    <3>1. lookup[t].name \in Names
      BY <2>2, TypeOfCalls DEF VopLookup, At, LookupCall, Idle
    <3> QED
      BY <2>2, <3>1 DEF VopLookup, Finds, At
  <2>3. CASE NotBlocked(t) \/ Relock(t)
    BY <2>3 DEF NotBlocked, Relock, Walks, At
  <2>4. CASE WaitReturns(t)
    BY <2>4 DEF WaitReturns
  <2> QED
    BY <1>5, <2>1, <2>2, <2>3, <2>4 DEF LookupStep
<1>6. ASSUME NEW t \in Threads, NEW n \in Names, WalkRoot(t, n)
      PROVE  \E call \in LookupCall : Walks(t, call)
  BY <1>6 DEF WalkRoot, Walks, At, LookupCall
<1>7. ASSUME NEW t \in Threads, NEW n \in Names, LinuxLookup(t, n)
      PROVE  Finds(t, n)
  BY <1>7 DEF LinuxLookup, Finds, At
<1> QED
  BY <1>0, <1>1, <1>2, <1>3, <1>4, <1>5, <1>6, <1>7 DEF Next, ControlStep, Interrupted

-----------------------------------------------------------------------------
(***************************************************************************)
(* References.                                                             *)
(***************************************************************************)
Users(k) == {t \in Threads : ~At(t, "idle") /\ lookup[t].block = k}
Listed(k) == k \in blockedFiles \/ \E c \in Controllers : Doing(c, {"drop"}) /\ Current(c) = k

LEMMA UsersAreFinite ==
  \A k : IsFiniteSet(Users(k)) /\ Cardinality(Users(k)) \in Nat
BY FS_Subset, FS_CardinalityType DEF Users

LEMMA BlockTypes ==
  ASSUME TypeOK, NEW k \in Blocks
  PROVE  /\ block[k] = Free \/ block[k] \in BlockInfo
         /\ block[k].refcount \in Nat
         /\ block[k] = Free <=> block[k].refcount = 0
         /\ DropReference(k).refcount \in Int
         /\ block[k] # Free =>
              /\ DropReference(k) \in {Free} \cup BlockInfo
              /\ DropReference(k).refcount = block[k].refcount - 1
              /\ GrabReference(k) \in BlockInfo
              /\ GrabReference(k).refcount = block[k].refcount + 1
              /\ DropReference(k) # Free =>
                   /\ DropReference(k).filename = block[k].filename
                   /\ DropReference(k).blocker = block[k].blocker
              /\ GrabReference(k).filename = block[k].filename
              /\ GrabReference(k).blocker = block[k].blocker
<1>1. block[k] = Free \/ block[k] \in BlockInfo
  BY DEF TypeOK
<1>2. CASE block[k] = Free
  BY <1>2 DEF Free, DropReference
<1>3. CASE block[k] \in BlockInfo
  <2>1. block[k].refcount \in Nat \ {0}
    BY <1>3 DEF BlockInfo
  <2>2. block[k] # Free
    BY <2>1 DEF Free
  <2>3. CASE block[k].refcount = 1
    BY <1>3, <2>1, <2>2, <2>3 DEF DropReference, GrabReference, BlockInfo, Free
  <2>4. CASE block[k].refcount # 1
    <3>1. block[k].refcount - 1 \in Nat \ {0} /\ block[k].refcount + 1 \in Nat \ {0}
      BY <2>1, <2>4
    <3>2. DropReference(k) = [block[k] EXCEPT !.refcount = block[k].refcount - 1]
      BY <2>4 DEF DropReference
    <3> QED
      BY <1>3, <2>1, <2>2, <3>1, <3>2 DEF GrabReference, BlockInfo
  <2> QED
    BY <2>3, <2>4
<1> QED
  BY <1>1, <1>2, <1>3

\* A block that is listed, or has a user, is not free.
LEMMA UsedBlocks ==
  ASSUME BlockInv, NEW k \in Blocks
  PROVE  /\ Listed(k) => block[k] # Free
         /\ \A t \in Users(k) : block[k] # Free
         /\ Listed(k) => \A t \in Users(k) : block[k].refcount > 1
<1>1. TypeOK /\ block[k].refcount = ListRefs(k) + LookupRefs(k)
  BY DEF BlockInv, ReferencesBalance
<1>2. ListRefs(k) = (IF Listed(k) THEN 1 ELSE 0) /\ LookupRefs(k) = Cardinality(Users(k))
  BY DEF ListRefs, Listed, LookupRefs, Users
<1>3. \A t \in Users(k) : Cardinality(Users(k)) # 0
  BY UsersAreFinite, FS_EmptySet
<1>4. block[k] = Free <=> block[k].refcount = 0
  BY <1>1, BlockTypes
<1>5. Cardinality(Users(k)) \in Nat
  BY UsersAreFinite
<1> QED
  BY <1>1, <1>2, <1>3, <1>4, <1>5

LEMMA LookupsStep ==
  ASSUME TypeOK, LookupsWait, NEW t \in Threads, NEW k \in Blocks
  PROVE  /\ \A call \in LookupCall \cup {Idle} : Walks(t, call) => Users(k)' = Users(k)
         /\ \A n \in Names, l \in Blocks :
              ~At(t, "wait") /\ Moved(t, [pc |-> "wait", name |-> n, block |-> l]) =>
                /\ t \notin Users(l)
                /\ Users(k)' = IF k = l THEN Users(k) \cup {t} ELSE Users(k)
         /\ DropAndReturn(t) =>
              /\ lookup[t].block \in Blocks /\ t \in Users(lookup[t].block)
              /\ Users(k)' = IF k = lookup[t].block THEN Users(k) \ {t} ELSE Users(k)
<1>1. DOMAIN lookup = Threads
  BY DEF TypeOK
<1>2. ~At(t, "wait") => \A l \in Blocks : t \notin Users(l)
  BY DEF Users, LookupsWait
<1>3. ASSUME NEW call, Moved(t, call)
      PROVE  Users(k)' = IF call.pc # "idle" /\ call.block = k THEN Users(k) \cup {t}
                         ELSE Users(k) \ {t}
  BY <1>1, <1>3 DEF Users, Moved, At
<1>4. ASSUME NEW call \in LookupCall \cup {Idle}, Walks(t, call)
      PROVE  Users(k)' = Users(k)
  <2>1. ~(call.pc # "idle" /\ call.block = k)
    BY <1>4 DEF Walks, Idle
  <2>2. t \notin Users(k)
    BY <1>2, <1>4 DEF Walks
  <2> QED
    BY <1>3, <1>4, <2>1, <2>2 DEF Walks
<1>5. ASSUME NEW n \in Names, NEW l \in Blocks, ~At(t, "wait"),
             Moved(t, [pc |-> "wait", name |-> n, block |-> l])
      PROVE  /\ t \notin Users(l)
             /\ Users(k)' = IF k = l THEN Users(k) \cup {t} ELSE Users(k)
  <2>1. t \notin Users(l) /\ t \notin Users(k)
    BY <1>2, <1>5
  <2>2. Users(k)' = IF "wait" # "idle" /\ l = k THEN Users(k) \cup {t} ELSE Users(k) \ {t}
    BY <1>3, <1>5
  <2> QED
    BY <2>1, <2>2
<1>6. ASSUME DropAndReturn(t)
      PROVE  /\ lookup[t].block \in Blocks /\ t \in Users(lookup[t].block)
             /\ Users(k)' = IF k = lookup[t].block THEN Users(k) \ {t} ELSE Users(k)
  <2>1. lookup[t] \in LookupCall /\ lookup[t].block \in Blocks /\ ~At(t, "idle")
    BY <1>6, TypeOfCalls DEF DropAndReturn, At, LookupsWait, Idle
  <2>2. PICK call : Moved(t, call) /\ (call = Idle \/ call = [lookup[t] EXCEPT !.pc = "relock", !.block = Nobody])
    BY <1>6 DEF DropAndReturn
  <2>3. ~(call.pc # "idle" /\ call.block = k)
    <3>1. CASE call = Idle
      BY <3>1 DEF Idle
    <3>2. CASE call = [lookup[t] EXCEPT !.pc = "relock", !.block = Nobody]
      BY <2>1, <3>2 DEF LookupCall
    <3> QED
      BY <2>2, <3>1, <3>2
  <2>4. Users(k)' = Users(k) \ {t}
    BY <1>3, <2>2, <2>3
  <2>5. t \in Users(lookup[t].block) /\ (k # lookup[t].block => t \notin Users(k))
    BY <2>1 DEF Users
  <2> QED
    BY <2>1, <2>4, <2>5
<1> QED
  BY <1>4, <1>5, <1>6

-----------------------------------------------------------------------------
(***************************************************************************)
(* Calls: one at a time moves.                                             *)
(***************************************************************************)
LEMMA SameCurrent ==
  ASSUME NEW c, control'[c].todo = control[c].todo
  PROVE  Current(c)' = Current(c)
BY DEF Current

LEMMA ControlMoves ==
  ASSUME TypeOK, NEW c \in Controllers, NEW v, control' = [control EXCEPT ![c] = v]
  PROVE  /\ control'[c] = v
         /\ \A d \in Controllers \ {c} : control'[d] = control[d] /\ Current(d)' = Current(d)
<1>1. DOMAIN control = Controllers
  BY DEF TypeOK
<1>2. control'[c] = v /\ \A d \in Controllers \ {c} : control'[d] = control[d]
  BY <1>1
<1> QED
  BY <1>2, SameCurrent

\* Where a call that moves comes to.
LEMMA OwnMoves ==
  ASSUME TypeOK, NEW c \in Controllers
  PROVE  /\ \A op, force, victims :
              RemoveBlocks(c, op, force, victims) =>
                /\ control'[c] = [pc |-> IF victims = {} THEN "count" ELSE "remove", op |-> op,
                                  force |-> force, todo |-> victims, removed |-> victims]
                /\ \A d \in Controllers \ {c} : control'[d] = control[d] /\ Current(d)' = Current(d)
         /\ DoRemoveBlock(c) =>
              /\ control'[c] = [control[c] EXCEPT !.pc = "drop"] /\ control[c] \in ControlCall
              /\ control'[c] \in ControlCall /\ Current(c)' = Current(c)
              /\ \A d \in Controllers \ {c} : control'[d] = control[d] /\ Current(d)' = Current(d)
         /\ Drop(c) =>
              /\ control'[c] = [control[c] EXCEPT !.todo = control[c].todo \ {Current(c)},
                                  !.pc = IF control[c].todo = {Current(c)} THEN "count" ELSE "remove"]
              /\ control[c] \in ControlCall /\ control'[c] \in ControlCall
              /\ \A d \in Controllers \ {c} : control'[d] = control[d] /\ Current(d)' = Current(d)
         /\ Count(c) =>
              /\ control'[c] = IF control[c].op = "unmount" THEN [control[c] EXCEPT !.pc = "flush"] ELSE Idle
              /\ control[c] \in ControlCall
              /\ \A d \in Controllers \ {c} : control'[d] = control[d] /\ Current(d)' = Current(d)
         /\ Flush(c) =>
              /\ control'[c] = Idle /\ control[c] \in ControlCall
              /\ \A d \in Controllers \ {c} : control'[d] = control[d] /\ Current(d)' = Current(d)
<1>0. control[c] = Idle \/ control[c] \in ControlCall
  BY TypeOfCalls
<1>1. ASSUME NEW op, NEW force, NEW victims, RemoveBlocks(c, op, force, victims)
      PROVE  /\ control'[c] = [pc |-> IF victims = {} THEN "count" ELSE "remove", op |-> op,
                               force |-> force, todo |-> victims, removed |-> victims]
             /\ \A d \in Controllers \ {c} : control'[d] = control[d] /\ Current(d)' = Current(d)
  BY <1>1, ControlMoves DEF RemoveBlocks, Call
<1>2. ASSUME DoRemoveBlock(c)
      PROVE  /\ control'[c] = [control[c] EXCEPT !.pc = "drop"] /\ control[c] \in ControlCall
             /\ control'[c] \in ControlCall /\ Current(c)' = Current(c)
             /\ \A d \in Controllers \ {c} : control'[d] = control[d] /\ Current(d)' = Current(d)
  <2>1. control[c] \in ControlCall
    BY <1>0, <1>2 DEF DoRemoveBlock, Doing, Idle
  <2>2. control' = [control EXCEPT ![c] = [control[c] EXCEPT !.pc = "drop"]]
    BY <1>2 DEF DoRemoveBlock
  <2>3. [control[c] EXCEPT !.pc = "drop"] \in ControlCall
        /\ [control[c] EXCEPT !.pc = "drop"].todo = control[c].todo
    BY <2>1 DEF ControlCall
  <2>4. control'[c] = [control[c] EXCEPT !.pc = "drop"]
        /\ \A d \in Controllers \ {c} : control'[d] = control[d] /\ Current(d)' = Current(d)
    BY <2>2, ControlMoves
  <2> QED
    BY <2>1, <2>3, <2>4, SameCurrent
<1>3. ASSUME Drop(c)
      PROVE  /\ control'[c] = [control[c] EXCEPT !.todo = control[c].todo \ {Current(c)},
                                 !.pc = IF control[c].todo = {Current(c)} THEN "count" ELSE "remove"]
             /\ control[c] \in ControlCall /\ control'[c] \in ControlCall
             /\ \A d \in Controllers \ {c} : control'[d] = control[d] /\ Current(d)' = Current(d)
  <2>1. control[c] \in ControlCall /\ DOMAIN control = Controllers
    BY <1>0, <1>3 DEF Drop, Doing, Idle, TypeOK
  <2> DEFINE v == [control[c] EXCEPT !.todo = control[c].todo \ {Current(c)},
                       !.pc = IF control[c].todo = {Current(c)} THEN "count" ELSE "remove"]
  <2>2. control' = [control EXCEPT ![c] = v]
    BY <1>3, <2>1 DEF Drop
  <2>3. v \in ControlCall
    BY <2>1 DEF ControlCall
  <2>4. control'[c] = v
        /\ \A d \in Controllers \ {c} : control'[d] = control[d] /\ Current(d)' = Current(d)
    <3> HIDE DEF v
    <3> QED
      BY <2>2, ControlMoves
  <2> QED
    BY <2>1, <2>3, <2>4
<1>4. ASSUME Count(c)
      PROVE  /\ control'[c] = IF control[c].op = "unmount" THEN [control[c] EXCEPT !.pc = "flush"] ELSE Idle
             /\ control[c] \in ControlCall
             /\ \A d \in Controllers \ {c} : control'[d] = control[d] /\ Current(d)' = Current(d)
  <2>1. control[c] \in ControlCall
    BY <1>0, <1>4 DEF Count, Doing, Idle
  <2> QED
    BY <1>4, <2>1, ControlMoves DEF Count
<1>5. ASSUME Flush(c)
      PROVE  /\ control'[c] = Idle /\ control[c] \in ControlCall
             /\ \A d \in Controllers \ {c} : control'[d] = control[d] /\ Current(d)' = Current(d)
  <2>1. control[c] \in ControlCall
    BY <1>0, <1>5 DEF Flush, Doing, Idle
  <2> QED
    BY <1>5, <2>1, ControlMoves DEF Flush
<1> QED
  BY <1>1, <1>2, <1>3, <1>4, <1>5

\* The block that a call removes.
LEMMA CurrentIsListed ==
  ASSUME TypeOK, TodoIsListed, NEW c \in Controllers, Writes(c)
  PROVE  /\ control[c] \in ControlCall
         /\ Current(c) \in control[c].todo /\ Current(c) \in Blocks
         /\ Doing(c, {"remove"}) => Current(c) \in blockedFiles
         /\ Doing(c, {"drop"}) => Current(c) \notin blockedFiles
<1>1. control[c] \in ControlCall
  BY TypeOfCalls DEF Writes, Doing, Idle
<1>2. control[c].todo # {} /\ control[c].todo \subseteq Blocks
  BY <1>1 DEF TodoIsListed, ControlCall
<1>3. Current(c) \in control[c].todo
  BY <1>2 DEF Current
<1> QED
  BY <1>1, <1>2, <1>3 DEF TodoIsListed

LEMMA ListedSteps ==
  ASSUME BlockInv, NEW k \in Blocks
  PROVE  /\ \A c \in Controllers : \A op, force, victims :
              Begins(c, op, force, victims) => (Listed(k)' <=> Listed(k))
         /\ \A f \in Files, n \in Names, l \in Blocks :
              /\ AddFileBlock(f, n)
              /\ blockedFiles' = blockedFiles \cup {l}
              => (Listed(k)' <=> Listed(k) \/ k = l)
         /\ \A force : Unmount(force) => (Listed(k)' <=> Listed(k))
         /\ \A c \in Controllers :
              /\ DoRemoveBlock(c) \/ Count(c) \/ Flush(c) => (Listed(k)' <=> Listed(k))
              /\ Drop(c) => /\ Listed(k)' <=> Listed(k) /\ k # Current(c)
                            /\ Listed(Current(c)) /\ Current(c) \in Blocks
         /\ UNCHANGED <<blockedFiles, control>> => (Listed(k)' <=> Listed(k))
<1> USE DEF Listed
<1>0. TypeOK /\ TodoIsListed /\ LocksExclude /\ CallsAreOwn
  BY DEF BlockInv
<1>1. ASSUME NEW c \in Controllers, NEW op, NEW force, NEW victims, Begins(c, op, force, victims)
      PROVE  Listed(k)' <=> Listed(k)
  <2>1. ~Doing(c, {"drop"}) /\ ~Doing(c, {"drop"})'
    <3>1. RemoveBlocks(c, op, force, victims) /\ Doing(c, {"idle", "check"})
      BY <1>1 DEF Begins, Doing
    <3>2. control'[c] = [pc |-> IF victims = {} THEN "count" ELSE "remove", op |-> op,
                         force |-> force, todo |-> victims, removed |-> victims]
      BY <1>0, <3>1, OwnMoves
    <3> QED
      BY <3>1, <3>2 DEF Doing
  <2>2. \A d \in Controllers \ {c} : control'[d] = control[d] /\ Current(d)' = Current(d)
    BY <1>0, <1>1, OwnMoves DEF Begins
  <2> QED
    BY <1>1, <2>1, <2>2 DEF Begins, listVars, Doing
<1>2. ASSUME NEW f \in Files, NEW n \in Names, NEW l \in Blocks, AddFileBlock(f, n),
             blockedFiles' = blockedFiles \cup {l}
      PROVE  Listed(k)' <=> Listed(k) \/ k = l
  <2>0. f \in Controllers
    BY DEF Controllers
  <2>1. Doing(f, {"idle"}) /\ ~Doing(f, {"drop"})'
    BY <1>0, <1>2, <2>0, ControlMoves DEF AddFileBlock, MayIoctl, Doing, Call
  <2>2. \A d \in Controllers \ {f} : control'[d] = control[d] /\ Current(d)' = Current(d)
    BY <1>0, <1>2, <2>0, ControlMoves DEF AddFileBlock, Call
  <2> QED
    BY <1>2, <2>1, <2>2 DEF Doing
<1>3. ASSUME NEW force, Unmount(force)
      PROVE  Listed(k)' <=> Listed(k)
  <2>0. Unmounter \in Controllers
    BY DEF Controllers
  <2>1. Doing(Unmounter, {"idle"}) /\ ~Doing(Unmounter, {"drop"})'
    BY <1>0, <1>3, <2>0, ControlMoves DEF Unmount, Doing, Call, CallsAreOwn
  <2>2. \A d \in Controllers \ {Unmounter} : control'[d] = control[d] /\ Current(d)' = Current(d)
    BY <1>0, <1>3, <2>0, ControlMoves DEF Unmount, Call
  <2> QED
    BY <1>3, <2>1, <2>2 DEF Doing, Unmount, listVars
<1>4. ASSUME NEW c \in Controllers, Count(c) \/ Flush(c)
      PROVE  Listed(k)' <=> Listed(k)
  <2>1. ~Doing(c, {"drop"}) /\ ~Doing(c, {"drop"})'
    <3>1. control[c] \in ControlCall
      BY <1>0, <1>4, OwnMoves
    <3>2. control'[c] = Idle \/ control'[c] = [control[c] EXCEPT !.pc = "flush"]
      BY <1>0, <1>4, OwnMoves
    <3>3. control'[c].pc # "drop"
      BY <3>1, <3>2 DEF Idle, ControlCall
    <3> QED
      BY <1>4, <3>3 DEF Count, Flush, Doing
  <2>2. \A d \in Controllers \ {c} : control'[d] = control[d] /\ Current(d)' = Current(d)
    BY <1>0, <1>4, OwnMoves
  <2> QED
    BY <1>4, <2>1, <2>2 DEF Count, Flush, listVars, Doing
<1>5. ASSUME NEW c \in Controllers, DoRemoveBlock(c)
      PROVE  Listed(k)' <=> Listed(k)
  <2>1. Doing(c, {"remove"}) /\ Doing(c, {"drop"})' /\ Current(c)' = Current(c)
    <3>1. /\ control'[c] = [control[c] EXCEPT !.pc = "drop"] /\ control[c] \in ControlCall
          /\ Current(c)' = Current(c)
      BY <1>0, <1>5, OwnMoves
    <3>2. control'[c].pc = "drop"
      BY <3>1 DEF ControlCall
    <3> QED
      BY <1>5, <3>1, <3>2 DEF DoRemoveBlock, Doing
  <2>2. \A d \in Controllers \ {c} : control'[d] = control[d] /\ Current(d)' = Current(d)
    BY <1>0, <1>5, OwnMoves
  <2>3. Current(c) \in blockedFiles
    BY <1>0, <2>1, CurrentIsListed DEF Writes, Doing
  <2> QED
    BY <1>5, <2>1, <2>2, <2>3 DEF DoRemoveBlock, Doing
<1>6. ASSUME NEW c \in Controllers, Drop(c)
      PROVE  /\ Listed(k)' <=> Listed(k) /\ k # Current(c)
             /\ Listed(Current(c)) /\ Current(c) \in Blocks
  <2>1. Doing(c, {"drop"}) /\ Writes(c)
    BY <1>6 DEF Drop, Writes, Doing
  <2>2. control[c] \in ControlCall /\ control'[c].pc \in {"count", "remove"}
    <3>1. /\ control'[c] = [control[c] EXCEPT !.todo = control[c].todo \ {Current(c)},
                                !.pc = IF control[c].todo = {Current(c)} THEN "count" ELSE "remove"]
          /\ control[c] \in ControlCall
      BY <1>0, <1>6, OwnMoves
    <3> QED
      BY <3>1 DEF ControlCall
  <2>3. \A d \in Controllers \ {c} : control'[d] = control[d] /\ Current(d)' = Current(d)
    BY <1>0, <1>6, OwnMoves
  <2>4. \A d \in Controllers \ {c} : ~Doing(d, {"drop"})
    BY <1>0, <2>1 DEF LocksExclude, Writes, Doing
  <2>5. Current(c) \notin blockedFiles /\ Current(c) \in Blocks
    BY <1>0, <2>1, CurrentIsListed
  <2> QED
    BY <1>6, <2>1, <2>2, <2>3, <2>4, <2>5 DEF Drop, Doing
<1>7. ASSUME UNCHANGED <<blockedFiles, control>>
      PROVE  Listed(k)' <=> Listed(k)
  BY <1>7, SameCurrent DEF Doing
<1> QED
  BY <1>1, <1>2, <1>3, <1>4, <1>5, <1>6, <1>7

LEMMA UsersChange ==
  ASSUME NEW k, NEW t
  PROVE  /\ t \notin Users(k) => Cardinality(Users(k) \cup {t}) = Cardinality(Users(k)) + 1
         /\ t \in Users(k) => Cardinality(Users(k) \ {t}) = Cardinality(Users(k)) - 1
BY UsersAreFinite, FS_AddElement, FS_RemoveElement

\* The count of one block follows its users.
Balanced(k) == block[k].refcount = (IF Listed(k) THEN 1 ELSE 0) + Cardinality(Users(k))

LEMMA RefsOfBlock ==
  ASSUME ReferencesBalance, NEW k \in Blocks
  PROVE  Balanced(k)
BY DEF ReferencesBalance, ListRefs, LookupRefs, Listed, Users, Balanced

LEMMA SameUsers ==
  ASSUME NEW k, lookup' = lookup
  PROVE  Users(k)' = Users(k)
BY DEF Users, At

LEMMA ReferencesStep ==
  ASSUME BlockInv, Next
  PROVE  ReferencesBalance'
<1>0. TypeOK /\ ReferencesBalance /\ LookupsWait /\ TodoIsListed /\ CallsAreOwn
  BY DEF BlockInv
<1>a. DOMAIN block = Blocks /\ DOMAIN lookup = Threads /\ blockedFiles \subseteq Blocks
  BY <1>0 DEF TypeOK
<1> SUFFICES ASSUME NEW k \in Blocks
             PROVE  Balanced(k)'
  BY DEF ReferencesBalance, ListRefs, LookupRefs, Listed, Users, Balanced
<1>b. Balanced(k)
  BY <1>0, RefsOfBlock
<1> USE DEF Balanced
<1>c. Cardinality(Users(k)) \in Nat
  BY UsersAreFinite
<1>1. ASSUME NEW f \in Files, Open(f)
      PROVE  Balanced(k)'
  <2>1. Users(k)' = Users(k) /\ (Listed(k)' <=> Listed(k)) /\ block' = block
    BY <1>1, SameUsers, ListedSteps DEF Open, listVars
  <2> QED
    BY <1>b, <2>1
<1>2. ASSUME NEW f \in Files, NEW n \in Names, AddFileBlock(f, n)
      PROVE  Balanced(k)'
  <2>1. PICK l \in Blocks :
          /\ block[l] = Free
          /\ block' = [block EXCEPT ![l] = [refcount |-> 1, filename |-> n, blocker |-> f,
                                            completed |-> FALSE]]
          /\ blockedFiles' = blockedFiles \cup {l}
    BY <1>2 DEF AddFileBlock
  <2>2. Users(k)' = Users(k) /\ (Listed(k)' <=> Listed(k) \/ k = l)
    BY <1>2, <2>1, SameUsers, ListedSteps DEF AddFileBlock
  <2>3. CASE k = l
    <3>1. block[k].refcount = 0 /\ block'[k].refcount = 1
      BY <1>a, <2>1, <2>3 DEF Free
    <3> QED
      BY <1>b, <1>c, <2>2, <2>3, <3>1
  <2>4. CASE k # l
    BY <1>a, <1>b, <2>1, <2>2, <2>4
  <2> QED
    BY <2>3, <2>4
<1>3. ASSUME NEW c \in Controllers, NEW op, NEW force, NEW victims, Begins(c, op, force, victims)
      PROVE  Balanced(k)'
  <2>1. Users(k)' = Users(k) /\ block' = block
    BY <1>3, SameUsers DEF Begins, listVars
  <2>2. Listed(k)' <=> Listed(k)
    BY <1>3, ListedSteps
  <2> QED
    BY <1>b, <2>1, <2>2
<1>4. ASSUME NEW force, Unmount(force)
      PROVE  Balanced(k)'
  <2>1. Users(k)' = Users(k) /\ block' = block
    BY <1>4, SameUsers DEF Unmount, listVars
  <2>2. Listed(k)' <=> Listed(k)
    BY <1>4, ListedSteps
  <2> QED
    BY <1>b, <2>1, <2>2
<1>5. ASSUME NEW c \in Controllers, DoRemoveBlock(c) \/ Count(c) \/ Flush(c)
      PROVE  Balanced(k)'
  <2>1. Users(k)' = Users(k)
    BY <1>5, SameUsers DEF DoRemoveBlock, Count, Flush
  <2>2. Listed(k)' <=> Listed(k)
    BY <1>5, ListedSteps
  <2>3. block'[k].refcount = block[k].refcount
    <3>1. CASE DoRemoveBlock(c)
      <4>1. Current(c) \in Blocks /\ Listed(Current(c))
        <5>1. Writes(c) /\ Doing(c, {"remove"})
          BY <3>1 DEF DoRemoveBlock, Writes, Doing
        <5> QED
          BY <1>0, <1>a, <5>1, CurrentIsListed DEF Listed
      <4>2. block[Current(c)] \in BlockInfo
        BY <1>0, <4>1, UsedBlocks, BlockTypes
      <4>3. block' = [block EXCEPT ![Current(c)] = [block[Current(c)] EXCEPT !.completed = TRUE]]
        BY <3>1 DEF DoRemoveBlock, CompleteAll
      <4>4. [block[Current(c)] EXCEPT !.completed = TRUE].refcount = block[Current(c)].refcount
        BY <4>2 DEF BlockInfo
      <4> QED
        BY <1>a, <4>1, <4>3, <4>4
    <3>2. CASE Count(c) \/ Flush(c)
      BY <3>2 DEF Count, Flush, listVars
    <3> QED
      BY <1>5, <3>1, <3>2
  <2> QED
    BY <1>b, <2>1, <2>2, <2>3
<1>6. ASSUME NEW c \in Controllers, Drop(c)
      PROVE  Balanced(k)'
  <2>1. /\ Users(k)' = Users(k)
        /\ block' = [block EXCEPT ![Current(c)] = DropReference(Current(c))]
    BY <1>6, SameUsers DEF Drop
  <2>2. /\ Listed(k)' <=> Listed(k) /\ k # Current(c)
        /\ Listed(Current(c)) /\ Current(c) \in Blocks
    BY <1>6, ListedSteps
  <2>3. CASE k = Current(c)
    <3>1. DropReference(k).refcount = block[k].refcount - 1
      BY <1>0, <2>2, <2>3, UsedBlocks, BlockTypes
    <3>2. block'[k] = DropReference(k)
      BY <1>a, <2>1, <2>3
    <3> QED
      BY <1>b, <1>c, <2>1, <2>2, <2>3, <3>1, <3>2
  <2>4. CASE k # Current(c)
    BY <1>a, <1>b, <2>1, <2>2, <2>4
  <2> QED
    BY <2>3, <2>4
<1>7. ASSUME NEW t \in Threads, NEW n \in Names, Finds(t, n)
      PROVE  Balanced(k)'
  <2>1. PICK l \in Blocks :
          /\ l \in blockedFiles
          /\ block' = [block EXCEPT ![l] = GrabReference(l)]
          /\ Moved(t, [pc |-> "wait", name |-> n, block |-> l])
    BY <1>a, <1>7 DEF Finds, Found, GetBlock
  <2>2. Listed(k)' <=> Listed(k)
    BY <1>7, ListedSteps DEF Finds, Found
  <2>3. t \notin Users(l) /\ Users(k)' = IF k = l THEN Users(k) \cup {t} ELSE Users(k)
    BY <1>0, <1>7, <2>1, LookupsStep DEF Finds
  <2>4. CASE k = l
    <3>1. GrabReference(k).refcount = block[k].refcount + 1
      BY <1>0, <2>1, <2>4, UsedBlocks, BlockTypes DEF Listed
    <3>2. block'[k] = GrabReference(k)
      BY <1>a, <2>1, <2>4
    <3>3. Cardinality(Users(k)') = Cardinality(Users(k)) + 1
      BY <2>3, <2>4, UsersChange
    <3> QED
      BY <1>b, <1>c, <2>2, <3>1, <3>2, <3>3
  <2>5. CASE k # l
    BY <1>a, <1>b, <2>1, <2>2, <2>3, <2>5
  <2> QED
    BY <2>4, <2>5
<1>8. ASSUME NEW t \in Threads, NEW call \in LookupCall \cup {Idle}, Walks(t, call)
      PROVE  Balanced(k)'
  <2>1. Users(k)' = Users(k)
    BY <1>0, <1>8, LookupsStep
  <2>2. (Listed(k)' <=> Listed(k)) /\ block' = block
    BY <1>8, ListedSteps DEF Walks, listVars
  <2> QED
    BY <1>b, <2>1, <2>2
<1>9. ASSUME NEW t \in Threads, DropAndReturn(t)
      PROVE  Balanced(k)'
  <2> DEFINE l == lookup[t].block
  <2>1. /\ l \in Blocks /\ t \in Users(l)
        /\ Users(k)' = IF k = l THEN Users(k) \ {t} ELSE Users(k)
    BY <1>0, <1>9, LookupsStep
  <2>2. /\ Listed(k)' <=> Listed(k)
        /\ block' = [block EXCEPT ![l] = DropReference(l)]
    BY <1>9, ListedSteps DEF DropAndReturn
  <2> HIDE DEF l
  <2>3. CASE k = l
    <3>1. DropReference(k).refcount = block[k].refcount - 1
      BY <1>0, <2>1, <2>3, UsedBlocks, BlockTypes
    <3>2. block'[k] = DropReference(k)
      BY <1>a, <2>2, <2>3
    <3>3. Cardinality(Users(k)') = Cardinality(Users(k)) - 1
      BY <2>1, <2>3, UsersChange
    <3> QED
      BY <1>b, <1>c, <2>2, <3>1, <3>2, <3>3
  <2>4. CASE k # l
    BY <1>a, <1>b, <2>1, <2>2, <2>4
  <2> QED
    BY <2>3, <2>4
<1> QED
  BY <1>0, <1>1, <1>2, <1>3, <1>4, <1>5, <1>6, <1>7, <1>8, <1>9, Steps

-----------------------------------------------------------------------------
(***************************************************************************)
(* The list.                                                               *)
(***************************************************************************)
SameContents(k) == block'[k].filename = block[k].filename /\ block'[k].blocker = block[k].blocker

\* Blocks on the list keep their file and their owner: none is freed or reused there.
LEMMA ListedBlocksKeep ==
  ASSUME BlockInv, Next, NEW k \in blockedFiles
  PROVE  SameContents(k)
<1> USE DEF SameContents
<1>0. TypeOK /\ CallsAreOwn /\ LookupsWait /\ TodoIsListed
  BY DEF BlockInv
<1>a. DOMAIN block = Blocks /\ k \in Blocks
  BY <1>0 DEF TypeOK
<1>b. Listed(k) /\ block[k] # Free /\ block[k] \in BlockInfo
  BY <1>0, <1>a, UsedBlocks, BlockTypes DEF Listed
<1>1. ASSUME NEW f \in Files, NEW n \in Names, AddFileBlock(f, n)
      PROVE  SameContents(k)
  BY <1>a, <1>b, <1>1 DEF AddFileBlock
<1>2. ASSUME NEW c \in Controllers, DoRemoveBlock(c)
      PROVE  SameContents(k)
  <2>1. block' = [block EXCEPT ![Current(c)] = [block[Current(c)] EXCEPT !.completed = TRUE]]
    BY <1>2 DEF DoRemoveBlock, CompleteAll
  <2>2. CASE k = Current(c)
    <3>1. block'[k] = [block[k] EXCEPT !.completed = TRUE]
      BY <1>a, <2>1, <2>2
    <3> QED
      BY <1>b, <3>1 DEF BlockInfo
  <2>3. CASE k # Current(c)
    BY <1>a, <2>1, <2>3
  <2> QED
    BY <2>2, <2>3
<1>3. ASSUME NEW c \in Controllers, Drop(c)
      PROVE  SameContents(k)
  <2>1. Writes(c) /\ Doing(c, {"drop"})
    BY <1>3 DEF Drop, Writes, Doing
  <2>2. k # Current(c)
    BY <1>0, <2>1, CurrentIsListed
  <2> QED
    BY <1>3, <1>a, <2>2 DEF Drop
<1>4. ASSUME NEW t \in Threads, NEW n \in Names, Finds(t, n)
      PROVE  SameContents(k)
  <2>1. PICK l \in blockedFiles : block' = [block EXCEPT ![l] = GrabReference(l)]
    BY <1>4 DEF Finds, Found, GetBlock
  <2>2. GrabReference(k).filename = block[k].filename /\ GrabReference(k).blocker = block[k].blocker
    BY <1>0, <1>a, <1>b, BlockTypes
  <2>3. block'[k] = IF k = l THEN GrabReference(k) ELSE block[k]
    BY <1>a, <2>1
  <2> QED
    BY <2>2, <2>3
<1>5. ASSUME NEW t \in Threads, DropAndReturn(t)
      PROVE  SameContents(k)
  <2> DEFINE l == lookup[t].block
  <2>1. l \in Blocks /\ t \in Users(l)
    BY <1>0, <1>a, <1>5, LookupsStep
  <2>2. block' = [block EXCEPT ![l] = DropReference(l)]
    BY <1>5 DEF DropAndReturn
  <2> HIDE DEF l
  <2>3. CASE k = l
    <3>1. block[k].refcount > 1 /\ block[k].refcount \in Nat
      BY <1>0, <1>a, <1>b, <2>1, <2>3, UsedBlocks, BlockTypes
    <3>2. DropReference(k).refcount # 0
      BY <1>0, <1>b, <1>a, <3>1, BlockTypes
    <3>3. DropReference(k) # Free
      BY <3>2 DEF Free
    <3> QED
      BY <1>0, <1>a, <1>b, <2>2, <2>3, <3>3, BlockTypes
  <2>4. CASE k # l
    BY <1>a, <2>2, <2>4
  <2> QED
    BY <2>3, <2>4
<1>6. ASSUME block' = block
      PROVE  SameContents(k)
  BY <1>6
<1>7. /\ \A f \in Files : Open(f) => block' = block
      /\ \A c, op, force, victims : Begins(c, op, force, victims) => block' = block
      /\ \A force : Unmount(force) => block' = block
      /\ \A c : Count(c) \/ Flush(c) => block' = block
      /\ \A t, call : Walks(t, call) => block' = block
  BY DEF Open, Begins, Unmount, Count, Flush, Walks, listVars
<1> QED
  BY <1>0, <1>1, <1>2, <1>3, <1>4, <1>5, <1>6, <1>7, Steps

\* What each step of a call leaves in its fields.
LEMMA Fields ==
  ASSUME TypeOK, NEW c \in Controllers
  PROVE  /\ \A op, force, victims :
              Begins(c, op, force, victims) =>
                /\ control'[c].pc = (IF victims = {} THEN "count" ELSE "remove")
                /\ control'[c].op = op
                /\ control'[c].todo = victims /\ control'[c].removed = victims
         /\ DoRemoveBlock(c) =>
              /\ control'[c].pc = "drop" /\ control'[c].op = control[c].op
              /\ control'[c].todo = control[c].todo /\ control'[c].removed = control[c].removed
         /\ Drop(c) =>
              /\ control'[c].pc = (IF control[c].todo = {Current(c)} THEN "count" ELSE "remove")
              /\ control'[c].op = control[c].op
              /\ control'[c].todo = control[c].todo \ {Current(c)}
              /\ control'[c].removed = control[c].removed
         /\ Count(c) =>
              IF control[c].op = "unmount" THEN control'[c].pc = "flush" /\ control'[c].op = "unmount"
              ELSE control'[c].pc = "idle"
         /\ Flush(c) => control'[c].pc = "idle"
<1>1. ASSUME NEW op, NEW force, NEW victims, Begins(c, op, force, victims)
      PROVE  /\ control'[c].pc = (IF victims = {} THEN "count" ELSE "remove")
             /\ control'[c].op = op
             /\ control'[c].todo = victims /\ control'[c].removed = victims
  <2>1. control'[c] = [pc |-> IF victims = {} THEN "count" ELSE "remove", op |-> op,
                       force |-> force, todo |-> victims, removed |-> victims]
    BY <1>1, OwnMoves DEF Begins
  <2> QED
    BY <2>1
<1>2. ASSUME DoRemoveBlock(c)
      PROVE  /\ control'[c].pc = "drop" /\ control'[c].op = control[c].op
             /\ control'[c].todo = control[c].todo /\ control'[c].removed = control[c].removed
  <2>1. control'[c] = [control[c] EXCEPT !.pc = "drop"] /\ control[c] \in ControlCall
    BY <1>2, OwnMoves
  <2> QED
    BY <2>1 DEF ControlCall
<1>3. ASSUME Drop(c)
      PROVE  /\ control'[c].pc = (IF control[c].todo = {Current(c)} THEN "count" ELSE "remove")
             /\ control'[c].op = control[c].op
             /\ control'[c].todo = control[c].todo \ {Current(c)}
             /\ control'[c].removed = control[c].removed
  <2>1. /\ control'[c] = [control[c] EXCEPT !.todo = control[c].todo \ {Current(c)},
                              !.pc = IF control[c].todo = {Current(c)} THEN "count" ELSE "remove"]
        /\ control[c] \in ControlCall
    BY <1>3, OwnMoves
  <2> QED
    BY <2>1 DEF ControlCall
<1>4. ASSUME Count(c)
      PROVE  IF control[c].op = "unmount" THEN control'[c].pc = "flush" /\ control'[c].op = "unmount"
             ELSE control'[c].pc = "idle"
  <2>1. /\ control'[c] = IF control[c].op = "unmount" THEN [control[c] EXCEPT !.pc = "flush"] ELSE Idle
        /\ control[c] \in ControlCall
    BY <1>4, OwnMoves
  <2> QED
    BY <2>1 DEF ControlCall, Idle
<1>5. ASSUME Flush(c)
      PROVE  control'[c].pc = "idle"
  <2>1. control'[c] = Idle
    BY <1>5, OwnMoves
  <2> QED
    BY <2>1 DEF Idle
<1> QED
  BY <1>1, <1>2, <1>3, <1>4, <1>5

\* What the calls keep of the list, by step.
CallInv ==
  OneBlockPerFile /\ BlocksHaveOwners /\ LocksExclude /\ CallsAreOwn /\ TodoIsListed /\ LeftToRemove

LEMMA QuietStep ==
  ASSUME BlockInv, Next, UNCHANGED <<os, mount, blockedFiles, control>>, opened \subseteq opened'
  PROVE  CallInv'
<1>0. CallInv /\ \A k \in blockedFiles : SameContents(k)
  BY ListedBlocksKeep DEF BlockInv, CallInv
<1>1. OneBlockPerFile' /\ BlocksHaveOwners'
  BY <1>0 DEF CallInv, OneBlockPerFile, BlocksHaveOwners, SameContents
<1>2. LocksExclude' /\ CallsAreOwn'
  BY <1>0 DEF CallInv, LocksExclude, Writes, HasRoot, Doing, CallsAreOwn
<1>3. \A c : Current(c)' = Current(c)
  BY SameCurrent
<1>4. TodoIsListed'
  BY <1>0, <1>3 DEF CallInv, TodoIsListed, Writes, Doing
<1>5. \A f : BlocksOf(f)' = BlocksOf(f)
  BY <1>0 DEF BlocksOf, SameContents
<1>6. LeftToRemove'
  BY <1>0, <1>5 DEF CallInv, LeftToRemove, Writes, Doing
<1> QED
  BY <1>1, <1>2, <1>4, <1>6 DEF CallInv

LEMMA AddStep ==
  ASSUME BlockInv, Next, NEW f \in Files, NEW n \in Names, AddFileBlock(f, n)
  PROVE  CallInv'
<1>0. TypeOK /\ CallInv /\ \A k \in blockedFiles : SameContents(k)
  BY ListedBlocksKeep DEF BlockInv, CallInv
<1>1. PICK l \in Blocks :
        /\ block[l] = Free
        /\ block' = [block EXCEPT ![l] = [refcount |-> 1, filename |-> n, blocker |-> f,
                                          completed |-> FALSE]]
        /\ blockedFiles' = blockedFiles \cup {l}
  BY DEF AddFileBlock
<1>2. block'[l].filename = n /\ block'[l].blocker = f /\ l \notin blockedFiles
  <2>1. block'[l].filename = n /\ block'[l].blocker = f
    BY <1>0, <1>1 DEF TypeOK
  <2> QED
    BY <1>1, <2>1, UsedBlocks DEF Listed
<1>3. /\ f \in Controllers /\ f # Unmounter /\ f \in opened /\ Doing(f, {"idle"}) /\ ~WriteLocked
      /\ os = "freebsd" => mount = "mounted" /\ ~RootLocked
      /\ \A k \in blockedFiles : block[k].filename # n
      /\ UNCHANGED <<os, mount, opened>>
  BY DEF AddFileBlock, MayIoctl, AddRefused, GetBlock, Controllers, fsVars
<1>4. /\ control'[f].pc = "count" /\ control'[f].op = "add"
      /\ \A d \in Controllers \ {f} : control'[d] = control[d] /\ Current(d)' = Current(d)
  <2>1. /\ control'[f] = [pc |-> "count", op |-> "add", force |-> FALSE, todo |-> {}, removed |-> {}]
        /\ \A d \in Controllers \ {f} : control'[d] = control[d] /\ Current(d)' = Current(d)
    BY <1>0, <1>3, ControlMoves DEF AddFileBlock, Call
  <2> QED
    BY <2>1
<1>5. OneBlockPerFile'
  BY <1>0, <1>1, <1>2, <1>3 DEF CallInv, OneBlockPerFile, SameContents
<1>6. BlocksHaveOwners'
  BY <1>0, <1>1, <1>2, <1>3 DEF CallInv, BlocksHaveOwners, SameContents, LeftToRemove
<1>7. LocksExclude'
  BY <1>0, <1>3, <1>4 DEF CallInv, LocksExclude, Writes, HasRoot, Doing, WriteLocked, RootLocked
<1>8. CallsAreOwn'
  BY <1>0, <1>3, <1>4 DEF CallInv, CallsAreOwn, Doing, Controllers
<1>9. TodoIsListed'
  BY <1>0, <1>1, <1>3, <1>4 DEF CallInv, TodoIsListed, Writes, Doing, WriteLocked
<1>10. LeftToRemove'
  <2>1. \A g \in Files \ {f} : BlocksOf(g)' \subseteq BlocksOf(g)
    BY <1>0, <1>1, <1>2 DEF BlocksOf, SameContents
  <2>2. Doing(Unmounter, {"idle"}) /\ control'[Unmounter] = control[Unmounter]
    BY <1>0, <1>3, <1>4 DEF CallInv, CallsAreOwn, Controllers
  <2> QED
    BY <1>0, <1>3, <1>4, <2>1, <2>2 DEF CallInv, LeftToRemove, Writes, Doing, Controllers
<1> QED
  BY <1>5, <1>6, <1>7, <1>8, <1>9, <1>10 DEF CallInv

LEMMA BeginsStep ==
  ASSUME BlockInv, Next, NEW c \in Controllers, NEW op \in {"ioctl", "close", "unmount"},
         NEW force, NEW victims, Begins(c, op, force, victims)
  PROVE  CallInv'
<1>0. TypeOK /\ CallInv /\ \A k \in blockedFiles : SameContents(k)
  BY ListedBlocksKeep DEF BlockInv, CallInv
<1>1. /\ victims \subseteq blockedFiles /\ ~WriteLocked
      /\ op # "close" /\ os = "freebsd" => ~RootLocked
      /\ \/ c \in Files /\ Doing(c, {"idle"}) /\ op = "ioctl"
         \/ c \in Files /\ Doing(c, {"idle"}) /\ op = "close" /\ c \in opened /\ victims = BlocksOf(c)
         \/ c = Unmounter /\ Doing(c, {"check"}) /\ op = "unmount" /\ victims = blockedFiles
      /\ UNCHANGED <<os, mount, opened, blockedFiles, block>>
  BY DEF Begins, fsVars, listVars
<1>2. /\ control'[c].pc = (IF victims = {} THEN "count" ELSE "remove")
      /\ control'[c].op = op
      /\ control'[c].todo = victims /\ control'[c].removed = victims
  BY <1>0, Fields
<1>3. \A d \in Controllers \ {c} : control'[d] = control[d] /\ Current(d)' = Current(d)
  BY <1>0, OwnMoves DEF Begins
<1>4. OneBlockPerFile' /\ BlocksHaveOwners'
  BY <1>0, <1>1 DEF CallInv, OneBlockPerFile, BlocksHaveOwners
<1>5. LocksExclude'
  BY <1>0, <1>1, <1>2, <1>3 DEF CallInv, LocksExclude, Writes, HasRoot, Doing, WriteLocked, RootLocked
<1>6. CallsAreOwn'
  BY <1>0, <1>1, <1>2, <1>3 DEF CallInv, CallsAreOwn, Doing, Controllers
<1>7. TodoIsListed'
  BY <1>0, <1>1, <1>2, <1>3 DEF CallInv, TodoIsListed, Writes, Doing, WriteLocked
<1>8. LeftToRemove'
  <2>1. \A g : BlocksOf(g)' = BlocksOf(g)
    BY <1>1 DEF BlocksOf
  <2> QED
    BY <1>0, <1>1, <1>2, <1>3, <2>1 DEF CallInv, LeftToRemove, Writes, Doing, Controllers
<1> QED
  BY <1>4, <1>5, <1>6, <1>7, <1>8 DEF CallInv

LEMMA UnmountStep ==
  ASSUME BlockInv, Next, NEW force, Unmount(force)
  PROVE  CallInv'
<1>0. TypeOK /\ CallInv /\ Unmounter \in Controllers
  BY DEF BlockInv, CallInv, Controllers
<1>1. os = "freebsd" /\ mount = "mounted" /\ mount' = "unmounting"
      /\ UNCHANGED <<os, opened, blockedFiles, block>>
  BY DEF Unmount, listVars
<1>2. /\ control'[Unmounter].pc = "check" /\ control'[Unmounter].op = "unmount"
      /\ \A d \in Controllers \ {Unmounter} : control'[d] = control[d] /\ Current(d)' = Current(d)
  <2>1. /\ control'[Unmounter] = [pc |-> "check", op |-> "unmount", force |-> force, todo |-> {},
                                  removed |-> {}]
        /\ \A d \in Controllers \ {Unmounter} : control'[d] = control[d] /\ Current(d)' = Current(d)
    BY <1>0, ControlMoves DEF Unmount, Call
  <2> QED
    BY <2>1
<1>3. Doing(Unmounter, {"idle"})
  BY <1>0, <1>1 DEF CallInv, CallsAreOwn
<1>4. OneBlockPerFile' /\ BlocksHaveOwners'
  BY <1>0, <1>1 DEF CallInv, OneBlockPerFile, BlocksHaveOwners
<1>5. LocksExclude'
  BY <1>0, <1>1, <1>2 DEF CallInv, LocksExclude, Writes, HasRoot, Doing
<1>6. CallsAreOwn'
  BY <1>0, <1>1, <1>2 DEF CallInv, CallsAreOwn, Doing, Controllers
<1>7. TodoIsListed'
  BY <1>0, <1>1, <1>2 DEF CallInv, TodoIsListed, Writes, Doing
<1>8. LeftToRemove'
  <2>1. \A g : BlocksOf(g)' = BlocksOf(g)
    BY <1>1 DEF BlocksOf
  <2> QED
    BY <1>0, <1>1, <1>2, <2>1 DEF CallInv, LeftToRemove, Writes, Doing, Controllers
<1> QED
  BY <1>4, <1>5, <1>6, <1>7, <1>8 DEF CallInv

LEMMA RemoveStep ==
  ASSUME BlockInv, Next, NEW c \in Controllers, DoRemoveBlock(c)
  PROVE  CallInv'
<1>0. TypeOK /\ CallInv /\ \A k \in blockedFiles : SameContents(k)
  BY ListedBlocksKeep DEF BlockInv, CallInv
<1>1. /\ Doing(c, {"remove"}) /\ Writes(c)
      /\ blockedFiles' = blockedFiles \ {Current(c)}
      /\ UNCHANGED <<os, mount, opened>>
  BY DEF DoRemoveBlock, fsVars, Writes, Doing
<1>2. /\ control'[c].pc = "drop" /\ control'[c].op = control[c].op
      /\ control'[c].todo = control[c].todo /\ control'[c].removed = control[c].removed
  BY <1>0, Fields
<1>3. /\ Current(c)' = Current(c)
      /\ \A d \in Controllers \ {c} : control'[d] = control[d] /\ Current(d)' = Current(d)
  BY <1>0, OwnMoves
<1>4. \A d \in Controllers \ {c} : ~Writes(d)
  BY <1>0, <1>1 DEF CallInv, LocksExclude
<1>5. OneBlockPerFile' /\ BlocksHaveOwners'
  BY <1>0, <1>1 DEF CallInv, OneBlockPerFile, BlocksHaveOwners, SameContents
<1>6. LocksExclude'
  BY <1>0, <1>1, <1>2, <1>3 DEF CallInv, LocksExclude, Writes, HasRoot, Doing
<1>7. CallsAreOwn'
  BY <1>0, <1>1, <1>2, <1>3 DEF CallInv, CallsAreOwn, Doing, Controllers
<1>8. TodoIsListed'
  BY <1>0, <1>1, <1>2, <1>3, <1>4 DEF CallInv, TodoIsListed, Writes, Doing
<1>9. LeftToRemove'
  <2>1. \A g : BlocksOf(g)' \subseteq BlocksOf(g)
    BY <1>0, <1>1 DEF BlocksOf, SameContents
  <2> QED
    BY <1>0, <1>1, <1>2, <1>3, <2>1 DEF CallInv, LeftToRemove, Writes, Doing, Controllers
<1> QED
  BY <1>5, <1>6, <1>7, <1>8, <1>9 DEF CallInv

LEMMA DropStep ==
  ASSUME BlockInv, Next, NEW c \in Controllers, Drop(c)
  PROVE  CallInv'
<1>0. TypeOK /\ CallInv /\ TodoIsListed /\ \A k \in blockedFiles : SameContents(k)
  BY ListedBlocksKeep DEF BlockInv, CallInv
<1>1. /\ Doing(c, {"drop"}) /\ Writes(c)
      /\ UNCHANGED <<os, mount, opened, blockedFiles>>
  BY DEF Drop, fsVars, Writes, Doing
<1>2. /\ control'[c].pc = (IF control[c].todo = {Current(c)} THEN "count" ELSE "remove")
      /\ control'[c].op = control[c].op
      /\ control'[c].todo = control[c].todo \ {Current(c)}
      /\ control'[c].removed = control[c].removed
  BY <1>0, Fields
<1>3. \A d \in Controllers \ {c} : control'[d] = control[d] /\ Current(d)' = Current(d)
  BY <1>0, OwnMoves
<1>4. \A d \in Controllers \ {c} : ~Writes(d)
  BY <1>0, <1>1 DEF CallInv, LocksExclude
<1>5. /\ Current(c) \in control[c].todo /\ Current(c) \notin blockedFiles
      /\ control[c].todo \ {Current(c)} \subseteq blockedFiles
      /\ control[c].todo \subseteq control[c].removed
  BY <1>0, <1>1, CurrentIsListed DEF TodoIsListed
<1>6. OneBlockPerFile' /\ BlocksHaveOwners'
  BY <1>0, <1>1 DEF CallInv, OneBlockPerFile, BlocksHaveOwners, SameContents
<1>7. LocksExclude'
  BY <1>0, <1>1, <1>2, <1>3 DEF CallInv, LocksExclude, Writes, HasRoot, Doing
<1>8. CallsAreOwn'
  BY <1>0, <1>1, <1>2, <1>3 DEF CallInv, CallsAreOwn, Doing, Controllers
<1>9. TodoIsListed'
  BY <1>1, <1>2, <1>3, <1>4, <1>5 DEF TodoIsListed, Writes, Doing
<1>10. LeftToRemove'
  <2>1. \A g : BlocksOf(g)' = BlocksOf(g) /\ BlocksOf(g) \subseteq blockedFiles
    BY <1>0, <1>1 DEF BlocksOf, SameContents
  <2> QED
    BY <1>0, <1>1, <1>2, <1>3, <1>5, <2>1 DEF CallInv, LeftToRemove, Writes, Doing, Controllers
<1> QED
  BY <1>6, <1>7, <1>8, <1>9, <1>10 DEF CallInv

LEMMA CountStep ==
  ASSUME BlockInv, Next, NEW c \in Controllers, Count(c)
  PROVE  CallInv'
<1>0. TypeOK /\ CallInv
  BY DEF BlockInv, CallInv
<1>1. /\ Doing(c, {"count"})
      /\ opened' = IF control[c].op = "close" THEN opened \ {c} ELSE opened
      /\ UNCHANGED <<os, mount, blockedFiles, block>>
  BY DEF Count, listVars
<1>2. IF control[c].op = "unmount" THEN control'[c].pc = "flush" /\ control'[c].op = "unmount"
      ELSE control'[c].pc = "idle"
  BY <1>0, Fields
<1>3. \A d \in Controllers \ {c} : control'[d] = control[d] /\ Current(d)' = Current(d)
  BY <1>0, OwnMoves
<1>4. control[c].op = "close" => c \in Files /\ BlocksOf(c) = {}
  BY <1>0, <1>1 DEF CallInv, CallsAreOwn, LeftToRemove, Doing, Writes, Controllers
<1>5. OneBlockPerFile' /\ BlocksHaveOwners'
  BY <1>0, <1>1, <1>4 DEF CallInv, OneBlockPerFile, BlocksHaveOwners, BlocksOf
<1>6. LocksExclude'
  BY <1>0, <1>1, <1>2, <1>3 DEF CallInv, LocksExclude, Writes, HasRoot, Doing
<1>7. CallsAreOwn'
  BY <1>0, <1>1, <1>2, <1>3 DEF CallInv, CallsAreOwn, Doing, Controllers
<1>8. TodoIsListed'
  BY <1>0, <1>1, <1>2, <1>3 DEF CallInv, TodoIsListed, Writes, Doing
<1>9. LeftToRemove'
  <2>1. \A g : BlocksOf(g)' = BlocksOf(g)
    BY <1>1 DEF BlocksOf
  <2> QED
    BY <1>0, <1>1, <1>2, <1>3, <2>1 DEF CallInv, LeftToRemove, CallsAreOwn, Writes, Doing, Controllers
<1> QED
  BY <1>5, <1>6, <1>7, <1>8, <1>9 DEF CallInv

LEMMA FlushStep ==
  ASSUME BlockInv, Next, NEW c \in Controllers, Flush(c)
  PROVE  CallInv'
<1>0. TypeOK /\ CallInv
  BY DEF BlockInv, CallInv
<1>1. /\ Doing(c, {"flush"})
      /\ mount' \in {"unmounted", "mounted"}
      /\ UNCHANGED <<os, opened, blockedFiles, block>>
  BY DEF Flush, listVars
<1>2. control'[c].pc = "idle"
  BY <1>0, Fields
<1>3. \A d \in Controllers \ {c} : control'[d] = control[d] /\ Current(d)' = Current(d)
  BY <1>0, OwnMoves
<1>4. c = Unmounter /\ os = "freebsd" /\ blockedFiles = {}
  <2>1. c = Unmounter /\ os = "freebsd"
    BY <1>0, <1>1 DEF CallInv, CallsAreOwn, Doing, Controllers
  <2> QED
    BY <1>0, <1>1, <2>1 DEF CallInv, LeftToRemove, Doing, Writes
<1>5. OneBlockPerFile' /\ BlocksHaveOwners'
  BY <1>0, <1>1, <1>4 DEF CallInv, OneBlockPerFile, BlocksHaveOwners
<1>6. LocksExclude'
  BY <1>0, <1>1, <1>2, <1>3 DEF CallInv, LocksExclude, Writes, HasRoot, Doing
<1>7. CallsAreOwn'
  BY <1>0, <1>1, <1>2, <1>3, <1>4 DEF CallInv, CallsAreOwn, Doing, Controllers
<1>8. TodoIsListed'
  BY <1>0, <1>1, <1>2, <1>3 DEF CallInv, TodoIsListed, Writes, Doing
<1>9. LeftToRemove'
  BY <1>1, <1>2, <1>3, <1>4 DEF LeftToRemove, BlocksOf, Doing, Controllers
<1> QED
  BY <1>5, <1>6, <1>7, <1>8, <1>9 DEF CallInv

LEMMA CallsStep ==
  ASSUME BlockInv, Next
  PROVE  CallInv'
<1>0. TypeOK /\ CallsAreOwn /\ LookupsWait
  BY DEF BlockInv
<1>1. /\ \A f \in Files :
           Open(f) => UNCHANGED <<os, mount, blockedFiles, control>> /\ opened \subseteq opened'
      /\ \A t, n : Finds(t, n) => UNCHANGED <<os, mount, blockedFiles, control, opened>>
      /\ \A t, call : Walks(t, call) => UNCHANGED <<os, mount, blockedFiles, control, opened>>
      /\ \A t : DropAndReturn(t) => UNCHANGED <<os, mount, blockedFiles, control, opened>>
  BY DEF Open, Finds, Found, Walks, DropAndReturn, listVars, fsVars
<1> QED
  BY <1>0, <1>1, Steps, QuietStep, AddStep, BeginsStep, UnmountStep, RemoveStep, DropStep, CountStep,
     FlushStep

-----------------------------------------------------------------------------
(***************************************************************************)
(* The count of the root vnode.                                            *)
(***************************************************************************)
LEMMA UncountedIs ==
  ASSUME NEW c
  PROVE  /\ Doing(c, {"count"}) => Uncounted(c) = control[c].removed
         /\ Doing(c, {"remove"}) => Uncounted(c) = control[c].removed \ control[c].todo
         /\ Doing(c, {"drop"}) =>
              Uncounted(c) = (control[c].removed \ control[c].todo) \cup {Current(c)}
         /\ ~Doing(c, {"count", "remove", "drop"}) => Uncounted(c) = {}
BY DEF Uncounted, Doing

LEMMA UncountedIsOf ==
  \A p : p \in AllUncounted <=> \E c \in Controllers : \E k \in Uncounted(c) : p = <<c, k>>
<1>1. \A p, c : p \in {c} \X Uncounted(c) <=> \E k \in Uncounted(c) : p = <<c, k>>
  OBVIOUS
<1> QED
  BY <1>1 DEF AllUncounted

LEMMA UncountedIsFinite ==
  ASSUME BlockInv
  PROVE  /\ IsFiniteSet(AllUncounted) /\ Cardinality(AllUncounted) \in Nat
         /\ IsFiniteSet(Adding) /\ Cardinality(Adding) \in Nat
         /\ IsFiniteSet(opened) /\ Cardinality(opened) \in Nat
         /\ IsFiniteSet(blockedFiles) /\ Cardinality(blockedFiles) \in Nat
         /\ \A c \in Controllers : Uncounted(c) \subseteq Blocks
<1>0. TypeOK /\ TodoIsListed
  BY DEF BlockInv
<1>1. \A c \in Controllers : Uncounted(c) \subseteq Blocks
  <2> SUFFICES ASSUME NEW c \in Controllers
               PROVE  Uncounted(c) \subseteq Blocks
    OBVIOUS
  <2>1. CASE control[c] = Idle
    BY <2>1, UncountedIs DEF Idle, Doing
  <2>2. CASE control[c] \in ControlCall
    <3>1. control[c].removed \subseteq Blocks
      BY <2>2 DEF ControlCall
    <3>2. Doing(c, {"drop"}) => Current(c) \in Blocks
      BY <1>0, CurrentIsListed DEF Writes, Doing
    <3> QED
      BY <3>1, <3>2, UncountedIs DEF Doing
  <2> QED
    BY <1>0, <2>1, <2>2, TypeOfCalls
<1>2. IsFiniteSet(Controllers)
  BY FS_AddElement DEF Controllers
<1>3. IsFiniteSet(Controllers \X Blocks)
  BY <1>2, FS_Product
<1>4. AllUncounted \subseteq Controllers \X Blocks
  BY <1>1, UncountedIsOf
<1>5. opened \subseteq Files /\ blockedFiles \subseteq Blocks /\ Adding \subseteq Controllers
  BY <1>0 DEF TypeOK, Adding
<1> QED
  BY <1>1, <1>2, <1>3, <1>4, <1>5, FS_Subset, FS_CardinalityType

\* One call at a time moves.
LEMMA UncountedMoves ==
  ASSUME NEW c \in Controllers, \A d \in Controllers \ {c} : Uncounted(d)' = Uncounted(d)
  PROVE  AllUncounted' = (AllUncounted \ ({c} \X Uncounted(c))) \cup ({c} \X Uncounted(c)')
<1>1. \A p : p \in AllUncounted' <=> \E d \in Controllers : \E k \in Uncounted(d)' : p = <<d, k>>
  <2>1. \A p, d : p \in {d} \X Uncounted(d)' <=> \E k \in Uncounted(d)' : p = <<d, k>>
    OBVIOUS
  <2> QED
    BY <2>1 DEF AllUncounted
<1>2. \A p : p \in {c} \X Uncounted(c) <=> \E k \in Uncounted(c) : p = <<c, k>>
  OBVIOUS
<1>3. \A p : p \in {c} \X Uncounted(c)' <=> \E k \in Uncounted(c)' : p = <<c, k>>
  OBVIOUS
<1>4. ASSUME NEW p
      PROVE  p \in AllUncounted' <=>
               p \in (AllUncounted \ ({c} \X Uncounted(c))) \cup ({c} \X Uncounted(c)')
  <2>1. p \in AllUncounted' => p \in (AllUncounted \ ({c} \X Uncounted(c))) \cup ({c} \X Uncounted(c)')
    BY <1>1, <1>2, <1>3, UncountedIsOf
  <2>2. p \in AllUncounted \ ({c} \X Uncounted(c)) => p \in AllUncounted'
    BY <1>1, <1>2, UncountedIsOf
  <2>3. p \in {c} \X Uncounted(c)' => p \in AllUncounted'
    BY <1>1, <1>3
  <2> QED
    BY <2>1, <2>2, <2>3
<1> QED
  BY <1>4

LEMMA SameUncounted ==
  ASSUME NEW c, control'[c] = control[c], Current(c)' = Current(c)
  PROVE  Uncounted(c)' = Uncounted(c)
BY DEF Uncounted, Doing

\* The blocks that a call has taken off the list are as many as their pairs with the call.
LEMMA PairsWithCall ==
  ASSUME NEW c, NEW S, IsFiniteSet(S)
  PROVE  IsFiniteSet({c} \X S) /\ Cardinality({c} \X S) = Cardinality(S)
<1>1. IsFiniteSet({c}) /\ Cardinality({c}) = 1
  BY FS_Singleton
<1>2. Cardinality({c} \X S) = 1 * Cardinality(S) /\ IsFiniteSet({c} \X S)
  BY <1>1, FS_Product
<1>3. Cardinality(S) \in Nat
  BY FS_CardinalityType
<1> QED
  BY <1>2, <1>3

\* Nothing that the count depends on changes.
SameCount == UNCHANGED <<opened, blockedFiles, usecount>> /\ AllUncounted' = AllUncounted /\ Adding' = Adding

LEMMA SameCountStep ==
  ASSUME UseCountFollowsBlocks, SameCount, os' = os
  PROVE  UseCountFollowsBlocks'
BY DEF UseCountFollowsBlocks, SameCount

\* A call that moves and has nothing to count, before and after.
LEMMA NothingToCount ==
  ASSUME NEW c \in Controllers, Uncounted(c)' = Uncounted(c),
         \A d \in Controllers \ {c} : control'[d] = control[d] /\ Current(d)' = Current(d),
         c \notin Adding, c \notin Adding'
  PROVE  AllUncounted' = AllUncounted /\ Adding' = Adding
<1>1. \A d \in Controllers \ {c} : Uncounted(d)' = Uncounted(d)
  BY SameUncounted
<1>2. AllUncounted' = (AllUncounted \ ({c} \X Uncounted(c))) \cup ({c} \X Uncounted(c))
  BY <1>1, UncountedMoves
<1>3. \A p \in {c} \X Uncounted(c) : p \in AllUncounted
  BY UncountedIsOf
<1>4. AllUncounted' = AllUncounted
  BY <1>2, <1>3
<1>5. Adding' = Adding
  BY DEF Adding, Doing
<1> QED
  BY <1>4, <1>5

LEMMA UseCountStep ==
  ASSUME BlockInv, Next
  PROVE  UseCountFollowsBlocks'
<1>0. TypeOK /\ CallsAreOwn /\ LookupsWait /\ TodoIsListed /\ UseCountFollowsBlocks
  BY DEF BlockInv
<1>a. /\ IsFiniteSet(AllUncounted) /\ Cardinality(AllUncounted) \in Nat
      /\ IsFiniteSet(Adding) /\ Cardinality(Adding) \in Nat
      /\ IsFiniteSet(opened) /\ Cardinality(opened) \in Nat
      /\ IsFiniteSet(blockedFiles) /\ Cardinality(blockedFiles) \in Nat
  BY UncountedIsFinite
<1>b. blockedFiles \subseteq Blocks /\ opened \subseteq Files /\ Files \subseteq Controllers
      /\ Unmounter \in Controllers
  BY <1>0 DEF TypeOK, Controllers
<1>c. ASSUME control' = control
      PROVE  AllUncounted' = AllUncounted /\ Adding' = Adding
  <2>1. \A c \in Controllers : Uncounted(c)' = Uncounted(c)
    BY <1>c, SameCurrent, SameUncounted
  <2> QED
    BY <1>c, <2>1 DEF AllUncounted, Adding, Doing
<1>1. ASSUME NEW f \in Files, Open(f)
      PROVE  UseCountFollowsBlocks'
  <2>1. Cardinality(opened') = Cardinality(opened) + 1
    BY <1>1, <1>a, FS_AddElement DEF Open
  <2>2. AllUncounted' = AllUncounted /\ Adding' = Adding /\ os' = os /\ blockedFiles' = blockedFiles
        /\ (os = "freebsd" => usecount' = usecount + 1)
    BY <1>1, <1>c DEF Open, listVars
  <2> QED
    BY <1>0, <1>a, <2>1, <2>2 DEF UseCountFollowsBlocks
<1>2. ASSUME NEW f \in Files, NEW n \in Names, AddFileBlock(f, n)
      PROVE  UseCountFollowsBlocks'
  <2>1. PICK l \in Blocks : block[l] = Free /\ blockedFiles' = blockedFiles \cup {l}
    BY <1>2 DEF AddFileBlock
  <2>2. l \notin blockedFiles
    BY <2>1, UsedBlocks DEF Listed
  <2>3. Cardinality(blockedFiles') = Cardinality(blockedFiles) + 1
    BY <1>a, <2>1, <2>2, FS_AddElement
  <2>4. /\ control'[f].pc = "count" /\ control'[f].op = "add" /\ control'[f].removed = {}
        /\ \A d \in Controllers \ {f} : control'[d] = control[d] /\ Current(d)' = Current(d)
    <3>1. /\ control'[f] = [pc |-> "count", op |-> "add", force |-> FALSE, todo |-> {}, removed |-> {}]
          /\ \A d \in Controllers \ {f} : control'[d] = control[d] /\ Current(d)' = Current(d)
      BY <1>0, <1>2, <1>b, ControlMoves DEF AddFileBlock, Call
    <3> QED
      BY <3>1
  <2>5. Doing(f, {"idle"}) /\ UNCHANGED <<os, opened, usecount>>
    BY <1>2 DEF AddFileBlock, MayIoctl, fsVars
  <2>6. Adding' = Adding \cup {f} /\ f \notin Adding
    BY <1>b, <2>4, <2>5 DEF Adding, Doing
  <2>7. Uncounted(f) = {} /\ Uncounted(f)' = {}
    BY <2>4, <2>5, UncountedIs DEF Uncounted, Doing
  <2>8. AllUncounted' = AllUncounted
    <3>1. AllUncounted' = (AllUncounted \ ({f} \X {})) \cup ({f} \X {})
      BY <1>b, <2>4, <2>7, SameUncounted, UncountedMoves
    <3> QED
      BY <3>1
  <2>9. Cardinality(Adding') = Cardinality(Adding) + 1
    BY <1>a, <2>6, FS_AddElement
  <2> QED
    BY <1>0, <1>a, <2>3, <2>5, <2>8, <2>9 DEF UseCountFollowsBlocks
<1>3. ASSUME NEW c \in Controllers, NEW op \in {"ioctl", "close", "unmount"}, NEW force, NEW victims,
             Begins(c, op, force, victims)
      PROVE  UseCountFollowsBlocks'
  <2>1. /\ control'[c].pc = (IF victims = {} THEN "count" ELSE "remove")
        /\ control'[c].op = op
        /\ control'[c].todo = victims /\ control'[c].removed = victims
    BY <1>0, <1>3, Fields
  <2>2. \A d \in Controllers \ {c} : control'[d] = control[d] /\ Current(d)' = Current(d)
    BY <1>0, <1>3, OwnMoves DEF Begins
  <2>3. Doing(c, {"idle", "check"}) /\ UNCHANGED <<os, opened, blockedFiles, usecount>>
    BY <1>3 DEF Begins, Doing, fsVars, listVars
  <2>4. c \notin Adding /\ c \notin Adding'
    BY <2>1, <2>3 DEF Adding, Doing
  <2>5. Uncounted(c) = {} /\ Uncounted(c)' = {}
    BY <2>1, <2>3, UncountedIs DEF Uncounted, Doing
  <2> QED
    BY <1>0, <2>2, <2>3, <2>4, <2>5, NothingToCount, SameCountStep DEF SameCount
<1>4. ASSUME NEW force, Unmount(force)
      PROVE  UseCountFollowsBlocks'
  <2>1. /\ control'[Unmounter].pc = "check"
        /\ \A d \in Controllers \ {Unmounter} : control'[d] = control[d] /\ Current(d)' = Current(d)
    <3>1. /\ control'[Unmounter] = [pc |-> "check", op |-> "unmount", force |-> force, todo |-> {},
                                    removed |-> {}]
          /\ \A d \in Controllers \ {Unmounter} : control'[d] = control[d] /\ Current(d)' = Current(d)
      BY <1>0, <1>4, <1>b, ControlMoves DEF Unmount, Call
    <3> QED
      BY <3>1
  <2>2. Doing(Unmounter, {"idle"}) /\ UNCHANGED <<os, opened, blockedFiles, usecount>>
    BY <1>0, <1>4 DEF Unmount, CallsAreOwn, listVars
  <2>3. Unmounter \notin Adding /\ Unmounter \notin Adding'
    BY <2>1, <2>2 DEF Adding, Doing
  <2>4. Uncounted(Unmounter) = {} /\ Uncounted(Unmounter)' = {}
    BY <2>1, <2>2, UncountedIs DEF Uncounted, Doing
  <2> QED
    BY <1>0, <1>b, <2>1, <2>2, <2>3, <2>4, NothingToCount, SameCountStep DEF SameCount
<1>5. ASSUME NEW c \in Controllers, DoRemoveBlock(c)
      PROVE  UseCountFollowsBlocks'
  <2>1. /\ control'[c].pc = "drop" /\ control'[c].op = control[c].op
        /\ control'[c].todo = control[c].todo /\ control'[c].removed = control[c].removed
    BY <1>0, <1>5, Fields
  <2>2. /\ \A d \in Controllers \ {c} : control'[d] = control[d] /\ Current(d)' = Current(d)
        /\ Current(c)' = Current(c)
    BY <1>0, <1>5, OwnMoves
  <2>3. /\ Doing(c, {"remove"}) /\ Writes(c) /\ UNCHANGED <<os, opened, usecount>>
        /\ blockedFiles' = blockedFiles \ {Current(c)}
    BY <1>5 DEF DoRemoveBlock, Doing, Writes, fsVars
  <2>4. Current(c) \in blockedFiles /\ Current(c) \in control[c].todo
    BY <1>0, <2>3, CurrentIsListed
  <2>5. Cardinality(blockedFiles') = Cardinality(blockedFiles) - 1
    BY <1>a, <2>3, <2>4, FS_RemoveElement
  <2>6. Adding' = Adding
    BY <2>1, <2>2, <2>3 DEF Adding, Doing
  <2>7. /\ Uncounted(c) = control[c].removed \ control[c].todo
        /\ Uncounted(c)' = (control[c].removed \ control[c].todo) \cup {Current(c)}
    BY <2>1, <2>2, <2>3 DEF Uncounted, Doing
  <2>8. AllUncounted' = AllUncounted \cup {<<c, Current(c)>>} /\ <<c, Current(c)>> \notin AllUncounted
    <3>1. AllUncounted' = (AllUncounted \ ({c} \X Uncounted(c))) \cup ({c} \X Uncounted(c)')
      BY <2>2, SameUncounted, UncountedMoves
    <3>2. \A p \in {c} \X Uncounted(c) : p \in AllUncounted
      BY UncountedIsOf
    <3>3. {c} \X Uncounted(c)' = ({c} \X Uncounted(c)) \cup {<<c, Current(c)>>}
      BY <2>7
    <3>4. Current(c) \notin Uncounted(c)
      BY <2>4, <2>7
    <3> QED
      BY <3>1, <3>2, <3>3, <3>4, UncountedIsOf
  <2>9. Cardinality(AllUncounted') = Cardinality(AllUncounted) + 1
    BY <1>a, <2>8, FS_AddElement
  <2> QED
    BY <1>0, <1>a, <2>3, <2>5, <2>6, <2>9 DEF UseCountFollowsBlocks
<1>6. ASSUME NEW c \in Controllers, Drop(c)
      PROVE  UseCountFollowsBlocks'
  <2>1. /\ control'[c].pc = (IF control[c].todo = {Current(c)} THEN "count" ELSE "remove")
        /\ control'[c].op = control[c].op
        /\ control'[c].todo = control[c].todo \ {Current(c)}
        /\ control'[c].removed = control[c].removed
    BY <1>0, <1>6, Fields
  <2>2. \A d \in Controllers \ {c} : control'[d] = control[d] /\ Current(d)' = Current(d)
    BY <1>0, <1>6, OwnMoves
  <2>3. Doing(c, {"drop"}) /\ Writes(c) /\ UNCHANGED <<os, opened, blockedFiles, usecount>>
    BY <1>6 DEF Drop, Doing, Writes, fsVars
  <2>4. Current(c) \in control[c].todo /\ control[c].todo \subseteq control[c].removed
    BY <1>0, <2>3, CurrentIsListed DEF TodoIsListed
  <2>5. Uncounted(c) = (control[c].removed \ control[c].todo) \cup {Current(c)}
    BY <2>3, UncountedIs
  <2>6. Uncounted(c)' = IF control[c].todo = {Current(c)} THEN control[c].removed
                        ELSE control[c].removed \ (control[c].todo \ {Current(c)})
    BY <2>1 DEF Uncounted, Doing
  <2>7. Uncounted(c)' = Uncounted(c)
    BY <2>4, <2>5, <2>6
  <2>8. c \notin Adding /\ c \notin Adding'
    BY <1>0, <2>1, <2>3 DEF Adding, Doing, CallsAreOwn, Controllers
  <2> QED
    BY <1>0, <2>2, <2>3, <2>7, <2>8, NothingToCount, SameCountStep DEF SameCount
<1>7. ASSUME NEW c \in Controllers, Count(c)
      PROVE  UseCountFollowsBlocks'
  <2>1. /\ Doing(c, {"count"}) /\ os' = os /\ blockedFiles' = blockedFiles
        /\ usecount' = Counted(c)
        /\ opened' = IF control[c].op = "close" THEN opened \ {c} ELSE opened
    BY <1>7 DEF Count, listVars
  <2>2. Doing(c, {"idle", "flush"})'
    BY <1>0, <1>7, Fields DEF Doing
  <2>3. /\ \A d \in Controllers \ {c} : control'[d] = control[d] /\ Current(d)' = Current(d)
        /\ control[c] \in ControlCall
    BY <1>0, <1>7, OwnMoves
  <2>4. Cardinality(opened') = Cardinality(opened) - Closed(c)
    <3>1. control[c].op = "close" => c \in opened
      BY <1>0, <2>1 DEF CallsAreOwn, Doing, Controllers
    <3>2. c \in opened => Cardinality(opened \ {c}) = Cardinality(opened) - 1
      BY <1>a, FS_RemoveElement
    <3>3. Cardinality(opened) - 0 = Cardinality(opened)
      BY <1>a
    <3> QED
      BY <2>1, <3>1, <3>2, <3>3 DEF Closed
  <2>5. Cardinality(Adding') = Cardinality(Adding) - Added(c)
    <3>1. Adding' = IF control[c].op = "add" THEN Adding \ {c} ELSE Adding
      BY <2>1, <2>2, <2>3 DEF Adding, Doing
    <3>2. control[c].op = "add" => c \in Adding
      BY <2>1 DEF Adding
    <3>3. c \in Adding => Cardinality(Adding \ {c}) = Cardinality(Adding) - 1
      BY <1>a, FS_RemoveElement
    <3>4. Cardinality(Adding) - 0 = Cardinality(Adding)
      BY <1>a
    <3> QED
      BY <3>1, <3>2, <3>3, <3>4 DEF Added
  <2>6. Cardinality(AllUncounted') = Cardinality(AllUncounted) - Cardinality(control[c].removed)
        /\ Cardinality(control[c].removed) \in Nat
    <3>1. Uncounted(c) = control[c].removed /\ Uncounted(c)' = {}
      BY <2>1, <2>2 DEF Uncounted, Doing
    <3>2. AllUncounted' = AllUncounted \ ({c} \X control[c].removed)
      <4>1. AllUncounted' = (AllUncounted \ ({c} \X control[c].removed)) \cup ({c} \X {})
        BY <2>3, <3>1, SameUncounted, UncountedMoves
      <4> QED
        BY <4>1
    <3>3. {c} \X control[c].removed \subseteq AllUncounted
      BY <3>1, UncountedIsOf
    <3>4. IsFiniteSet(control[c].removed)
      BY <2>3, FS_Subset DEF ControlCall
    <3>5. /\ Cardinality({c} \X control[c].removed) = Cardinality(control[c].removed)
          /\ Cardinality(control[c].removed) \in Nat
      BY <3>4, PairsWithCall, FS_CardinalityType
    <3>6. AllUncounted \cap ({c} \X control[c].removed) = {c} \X control[c].removed
      BY <3>3
    <3>7. Cardinality(AllUncounted \ ({c} \X control[c].removed))
            = Cardinality(AllUncounted) - Cardinality(AllUncounted \cap ({c} \X control[c].removed))
      BY <1>a, FS_Difference
    <3> QED
      BY <3>2, <3>5, <3>6, <3>7
  <2>7. Added(c) \in Nat /\ Closed(c) \in Nat
    BY DEF Added, Closed
  <2>8. os = "freebsd" =>
          usecount' = usecount + Added(c) - Cardinality(control[c].removed) - Closed(c)
    BY <2>1 DEF Counted
  <2> HIDE DEF Added, Closed
  <2> QED
    BY <1>0, <1>a, <2>1, <2>4, <2>5, <2>6, <2>7, <2>8 DEF UseCountFollowsBlocks
<1>8. ASSUME NEW c \in Controllers, Flush(c)
      PROVE  UseCountFollowsBlocks'
  <2>1. Doing(c, {"flush"}) /\ UNCHANGED <<os, opened, blockedFiles, usecount>>
    BY <1>8 DEF Flush, listVars
  <2>2. Doing(c, {"idle"})'
    BY <1>0, <1>8, Fields DEF Doing
  <2>3. \A d \in Controllers \ {c} : control'[d] = control[d] /\ Current(d)' = Current(d)
    BY <1>0, <1>8, OwnMoves
  <2>4. c \notin Adding /\ c \notin Adding'
    BY <2>1, <2>2 DEF Adding, Doing
  <2>5. Uncounted(c) = {} /\ Uncounted(c)' = {}
    BY <2>1, <2>2 DEF Uncounted, Doing
  <2> QED
    BY <1>0, <2>1, <2>3, <2>4, <2>5, NothingToCount, SameCountStep DEF SameCount
<1>9. ASSUME UNCHANGED <<control, os, opened, blockedFiles, usecount>>
      PROVE  UseCountFollowsBlocks'
  BY <1>0, <1>9, <1>c, SameCountStep DEF SameCount
<1>10. /\ \A t, n : Finds(t, n) => UNCHANGED <<control, os, opened, blockedFiles, usecount>>
       /\ \A t, call : Walks(t, call) => UNCHANGED <<control, os, opened, blockedFiles, usecount>>
       /\ \A t : DropAndReturn(t) => UNCHANGED <<control, os, opened, blockedFiles, usecount>>
  BY DEF Finds, Found, Walks, DropAndReturn, listVars, fsVars
<1> QED
  BY <1>0, <1>1, <1>2, <1>3, <1>4, <1>5, <1>6, <1>7, <1>8, <1>9, <1>10, Steps

\* Only one descriptor can be between the list and the count of an addition: it has the root.
LEMMA OneAdds ==
  ASSUME BlockInv, os = "freebsd"
  PROVE  Cardinality(Adding) \in {0, 1}
<1>1. \A c, d \in Adding : c = d
  BY DEF BlockInv, LocksExclude, HasRoot, Adding, Doing
<1>2. CASE Adding = {}
  BY <1>2, FS_EmptySet
<1>3. CASE Adding # {}
  <2>1. PICK c : c \in Adding
    BY <1>3
  <2>2. Adding = {c}
    BY <1>1, <2>1
  <2> QED
    BY <2>2, FS_Singleton
<1> QED
  BY <1>2, <1>3

LEMMA UseCountStaysNat ==
  ASSUME BlockInv, Next
  PROVE  usecount' \in Nat
<1>0. TypeOK /\ CallsAreOwn /\ LookupsWait /\ usecount \in Nat
  BY DEF BlockInv, TypeOK
<1>1. ASSUME NEW c \in Controllers, Count(c), os = "freebsd"
      PROVE  usecount' \in Nat
  <2>1. /\ Doing(c, {"count"}) /\ os' = os /\ blockedFiles' = blockedFiles /\ opened' \subseteq opened
    BY <1>1 DEF Count, listVars
  <2>2. Doing(c, {"idle", "flush"})'
    BY <1>0, <1>1, Fields DEF Doing
  <2>3. \A d \in Controllers \ {c} : control'[d] = control[d] /\ Current(d)' = Current(d)
    BY <1>0, <1>1, OwnMoves
  <2>4. Adding' \subseteq Adding
    BY <2>2, <2>3 DEF Adding, Doing
  <2>5. AllUncounted' \subseteq AllUncounted
    <3>1. Uncounted(c)' = {}
      BY <2>2 DEF Uncounted, Doing
    <3>2. AllUncounted' = (AllUncounted \ ({c} \X Uncounted(c))) \cup ({c} \X {})
      BY <2>3, <3>1, SameUncounted, UncountedMoves
    <3> QED
      BY <3>2
  <2>6. /\ Cardinality(opened') \in Nat /\ Cardinality(blockedFiles') \in Nat
        /\ Cardinality(AllUncounted') \in Nat /\ Cardinality(Adding') \in Nat
        /\ Cardinality(Adding') <= Cardinality(Adding)
    BY <2>1, <2>4, <2>5, UncountedIsFinite, FS_Subset, FS_CardinalityType
  <2>7. Cardinality(Adding) \in {0, 1}
    BY <1>1, OneAdds
  <2>8. usecount' = 1 + Cardinality(opened') + Cardinality(blockedFiles')
                    + Cardinality(AllUncounted') - Cardinality(Adding')
    BY <1>1, <2>1, UseCountStep DEF UseCountFollowsBlocks
  <2> QED
    BY <2>6, <2>7, <2>8
<1>2. ASSUME NEW c \in Controllers, Count(c), os # "freebsd"
      PROVE  usecount' \in Nat
  BY <1>0, <1>2 DEF Count, Counted, TypeOK
<1>3. ASSUME NEW f \in Files, Open(f)
      PROVE  usecount' \in Nat
  BY <1>0, <1>3 DEF Open
<1>4. /\ \A f, n : AddFileBlock(f, n) => usecount' = usecount
      /\ \A c, op, force, victims : Begins(c, op, force, victims) => usecount' = usecount
      /\ \A force : Unmount(force) => usecount' = usecount
      /\ \A c : DoRemoveBlock(c) \/ Drop(c) \/ Flush(c) => usecount' = usecount
      /\ \A t, n : Finds(t, n) => usecount' = usecount
      /\ \A t, call : Walks(t, call) => usecount' = usecount
      /\ \A t : DropAndReturn(t) => usecount' = usecount
  BY DEF AddFileBlock, Begins, Unmount, DoRemoveBlock, Drop, Flush, Finds, Found, Walks, DropAndReturn,
         fsVars
<1> QED
  BY <1>0, <1>1, <1>2, <1>3, <1>4, Steps

\* Which calls and which blocks a step leaves.
LEMMA ControlType ==
  ASSUME BlockInv, Next
  PROVE  control' \in [Controllers -> {Idle} \cup ControlCall]
<1>0. TypeOK /\ CallsAreOwn /\ LookupsWait /\ control \in [Controllers -> {Idle} \cup ControlCall]
  BY DEF BlockInv, TypeOK
<1>1. ASSUME NEW c \in Controllers, NEW v \in {Idle} \cup ControlCall,
             control' = [control EXCEPT ![c] = v]
      PROVE  control' \in [Controllers -> {Idle} \cup ControlCall]
  BY <1>0, <1>1
<1>2. ASSUME NEW f \in Files, NEW n \in Names, AddFileBlock(f, n)
      PROVE  control' \in [Controllers -> {Idle} \cup ControlCall]
  <2>1. [pc |-> "count", op |-> "add", force |-> FALSE, todo |-> {}, removed |-> {}] \in ControlCall
    BY DEF ControlCall
  <2> QED
    BY <1>1, <1>2, <2>1 DEF AddFileBlock, Call, Controllers
<1>3. ASSUME NEW c \in Controllers, NEW op \in {"ioctl", "close", "unmount"}, NEW force \in BOOLEAN,
             NEW victims \in SUBSET Blocks, Begins(c, op, force, victims)
      PROVE  control' \in [Controllers -> {Idle} \cup ControlCall]
  <2>1. [pc |-> IF victims = {} THEN "count" ELSE "remove", op |-> op, force |-> force,
         todo |-> victims, removed |-> victims] \in ControlCall
    BY DEF ControlCall
  <2> QED
    BY <1>1, <1>3, <2>1 DEF Begins, RemoveBlocks, Call
<1>4. ASSUME NEW force \in BOOLEAN, Unmount(force)
      PROVE  control' \in [Controllers -> {Idle} \cup ControlCall]
  <2>1. [pc |-> "check", op |-> "unmount", force |-> force, todo |-> {}, removed |-> {}] \in ControlCall
    BY DEF ControlCall
  <2> QED
    BY <1>1, <1>4, <2>1 DEF Unmount, Call, Controllers
<1>5. ASSUME NEW c \in Controllers, DoRemoveBlock(c) \/ Drop(c) \/ Count(c) \/ Flush(c)
      PROVE  control' \in [Controllers -> {Idle} \cup ControlCall]
  <2>1. /\ control'[c] \in {Idle} \cup ControlCall
        /\ \A d \in Controllers \ {c} : control'[d] = control[d]
    <3>1. DoRemoveBlock(c) \/ Drop(c) => control'[c] \in ControlCall
      BY <1>0, OwnMoves
    <3>2. Flush(c) => control'[c] = Idle
      BY <1>0, OwnMoves
    <3>3. ASSUME Count(c)
          PROVE  control'[c] \in {Idle} \cup ControlCall
      <4>1. /\ control'[c] = IF control[c].op = "unmount" THEN [control[c] EXCEPT !.pc = "flush"] ELSE Idle
            /\ control[c] \in ControlCall
        BY <1>0, <3>3, OwnMoves
      <4>2. [control[c] EXCEPT !.pc = "flush"] \in ControlCall
        BY <4>1 DEF ControlCall
      <4> QED
        BY <4>1, <4>2
    <3>4. \A d \in Controllers \ {c} : control'[d] = control[d]
      BY <1>0, <1>5, OwnMoves
    <3> QED
      BY <1>5, <3>1, <3>2, <3>3, <3>4
  <2>2. \E v : control' = [control EXCEPT ![c] = v]
    <3>1. DoRemoveBlock(c) \/ Count(c) \/ Flush(c) => \E v : control' = [control EXCEPT ![c] = v]
      BY DEF DoRemoveBlock, Count, Flush
    <3>2. Drop(c) => \E v : control' = [control EXCEPT ![c] = v]
      BY <1>0 DEF Drop
    <3> QED
      BY <1>5, <3>1, <3>2
  <2> QED
    BY <1>0, <2>1, <2>2
<1>6. /\ \A f : Open(f) => control' = control
      /\ \A t, n : Finds(t, n) => control' = control
      /\ \A t, call : Walks(t, call) => control' = control
      /\ \A t : DropAndReturn(t) => control' = control
  BY DEF Open, Finds, Found, Walks, DropAndReturn
<1> QED
  BY <1>0, <1>2, <1>3, <1>4, <1>5, <1>6, Steps

LEMMA BlockType ==
  ASSUME BlockInv, Next
  PROVE  block' \in [Blocks -> {Free} \cup BlockInfo]
<1>0. /\ TypeOK /\ CallsAreOwn /\ LookupsWait /\ TodoIsListed /\ blockedFiles \subseteq Blocks
      /\ block \in [Blocks -> {Free} \cup BlockInfo]
  BY DEF BlockInv, TypeOK
<1>1. ASSUME NEW k \in Blocks, NEW v \in {Free} \cup BlockInfo, block' = [block EXCEPT ![k] = v]
      PROVE  block' \in [Blocks -> {Free} \cup BlockInfo]
  BY <1>0, <1>1
<1>2. ASSUME NEW f \in Files, NEW n \in Names, AddFileBlock(f, n)
      PROVE  block' \in [Blocks -> {Free} \cup BlockInfo]
  <2>1. [refcount |-> 1, filename |-> n, blocker |-> f, completed |-> FALSE] \in BlockInfo
    BY DEF BlockInfo
  <2> QED
    BY <1>1, <1>2, <2>1 DEF AddFileBlock
<1>3. ASSUME NEW c \in Controllers, DoRemoveBlock(c)
      PROVE  block' \in [Blocks -> {Free} \cup BlockInfo]
  <2>1. Writes(c) /\ Doing(c, {"remove"})
    BY <1>3 DEF DoRemoveBlock, Writes, Doing
  <2>2. Current(c) \in Blocks /\ Listed(Current(c))
    BY <1>0, <2>1, CurrentIsListed DEF Listed
  <2>3. block[Current(c)] \in BlockInfo
    BY <1>0, <2>2, UsedBlocks, BlockTypes
  <2>4. [block[Current(c)] EXCEPT !.completed = TRUE] \in BlockInfo
    BY <2>3 DEF BlockInfo
  <2>5. block' = [block EXCEPT ![Current(c)] = [block[Current(c)] EXCEPT !.completed = TRUE]]
    BY <1>3 DEF DoRemoveBlock, CompleteAll
  <2> QED
    BY <1>1, <2>2, <2>4, <2>5
<1>4. ASSUME NEW c \in Controllers, Drop(c)
      PROVE  block' \in [Blocks -> {Free} \cup BlockInfo]
  <2>1. Listed(Current(c)) /\ Current(c) \in Blocks
    BY <1>4, <1>0, CurrentIsListed DEF Drop, Writes, Doing, Listed
  <2>2. DropReference(Current(c)) \in {Free} \cup BlockInfo
    BY <1>0, <2>1, UsedBlocks, BlockTypes
  <2> QED
    BY <1>1, <1>4, <2>1, <2>2 DEF Drop
<1>5. ASSUME NEW t \in Threads, NEW n \in Names, Finds(t, n)
      PROVE  block' \in [Blocks -> {Free} \cup BlockInfo]
  <2>1. PICK k \in Blocks : k \in blockedFiles /\ block' = [block EXCEPT ![k] = GrabReference(k)]
    BY <1>0, <1>5 DEF Finds, Found, GetBlock
  <2>2. GrabReference(k) \in BlockInfo
    BY <1>0, <2>1, UsedBlocks, BlockTypes DEF Listed
  <2> QED
    BY <1>1, <2>1, <2>2
<1>6. ASSUME NEW t \in Threads, DropAndReturn(t)
      PROVE  block' \in [Blocks -> {Free} \cup BlockInfo]
  <2>1. lookup[t].block \in Blocks /\ t \in Users(lookup[t].block)
    <3>1. lookup[t].block \in Blocks
      BY <1>0, <1>6, TypeOfCalls DEF DropAndReturn, LookupsWait, At
    <3> QED
      BY <1>0, <1>6, <3>1, LookupsStep
  <2>2. DropReference(lookup[t].block) \in {Free} \cup BlockInfo
    BY <1>0, <2>1, UsedBlocks, BlockTypes
  <2> QED
    BY <1>1, <1>6, <2>1, <2>2 DEF DropAndReturn
<1>7. /\ \A f : Open(f) => block' = block
      /\ \A c, op, force, victims : Begins(c, op, force, victims) => block' = block
      /\ \A force : Unmount(force) => block' = block
      /\ \A c : Count(c) \/ Flush(c) => block' = block
      /\ \A t, call : Walks(t, call) => block' = block
  BY DEF Open, Begins, Unmount, Count, Flush, Walks, listVars
<1> QED
  BY <1>0, <1>2, <1>3, <1>4, <1>5, <1>6, <1>7, Steps

LEMMA LookupType ==
  ASSUME BlockInv, Next
  PROVE  lookup' \in [Threads -> {Idle} \cup LookupCall] /\ LookupsWait'
<1>0. /\ TypeOK /\ CallsAreOwn /\ LookupsWait /\ lookup \in [Threads -> {Idle} \cup LookupCall]
      /\ blockedFiles \subseteq Blocks
  BY DEF BlockInv, TypeOK
<1>1. ASSUME NEW t \in Threads, NEW call \in {Idle} \cup LookupCall, Moved(t, call),
             call.pc # "idle" => (call.pc = "wait" <=> call.block \in Blocks)
      PROVE  lookup' \in [Threads -> {Idle} \cup LookupCall] /\ LookupsWait'
  BY <1>0, <1>1 DEF Moved, LookupsWait, At
<1>2. ASSUME NEW t \in Threads, NEW n \in Names, Finds(t, n)
      PROVE  lookup' \in [Threads -> {Idle} \cup LookupCall] /\ LookupsWait'
  <2>1. PICK k \in Blocks : Moved(t, [pc |-> "wait", name |-> n, block |-> k])
    BY <1>0, <1>2 DEF Finds, Found, GetBlock
  <2>2. [pc |-> "wait", name |-> n, block |-> k] \in LookupCall
    BY DEF LookupCall
  <2> QED
    BY <1>1, <2>1, <2>2
<1>3. ASSUME NEW t \in Threads, NEW call \in LookupCall \cup {Idle}, Walks(t, call)
      PROVE  lookup' \in [Threads -> {Idle} \cup LookupCall] /\ LookupsWait'
  BY <1>1, <1>3 DEF Walks, Idle
<1>4. ASSUME NEW t \in Threads, DropAndReturn(t)
      PROVE  lookup' \in [Threads -> {Idle} \cup LookupCall] /\ LookupsWait'
  <2>1. lookup[t] \in LookupCall
    BY <1>0, <1>4, TypeOfCalls DEF DropAndReturn, At, Idle
  <2>2. PICK call : Moved(t, call) /\ (call = Idle \/ call = [lookup[t] EXCEPT !.pc = "relock", !.block = Nobody])
    BY <1>4 DEF DropAndReturn
  <2>3. CASE call = Idle
    BY <1>1, <2>2, <2>3 DEF Idle
  <2>4. CASE call = [lookup[t] EXCEPT !.pc = "relock", !.block = Nobody]
    <3>1. call \in LookupCall /\ call.pc = "relock" /\ call.block = Nobody
      BY <2>1, <2>4 DEF LookupCall
    <3> QED
      BY <1>1, <2>2, <3>1
  <2> QED
    BY <2>2, <2>3, <2>4
<1>5. ASSUME lookup' = lookup
      PROVE  lookup' \in [Threads -> {Idle} \cup LookupCall] /\ LookupsWait'
  BY <1>0, <1>5 DEF LookupsWait, At
<1>6. /\ \A f, n : AddFileBlock(f, n) => lookup' = lookup
      /\ \A f : Open(f) => lookup' = lookup
      /\ \A c, op, force, victims : Begins(c, op, force, victims) => lookup' = lookup
      /\ \A force : Unmount(force) => lookup' = lookup
      /\ \A c : DoRemoveBlock(c) \/ Drop(c) \/ Count(c) \/ Flush(c) => lookup' = lookup
  BY DEF AddFileBlock, Open, Begins, Unmount, DoRemoveBlock, Drop, Count, Flush
<1> QED
  BY <1>0, <1>2, <1>3, <1>4, <1>5, <1>6, Steps

LEMMA MountType ==
  ASSUME BlockInv, Next
  PROVE  /\ os' = os /\ mount' \in {"mounted", "unmounting", "unmounted"}
         /\ opened' \subseteq Files /\ blockedFiles' \subseteq Blocks
<1>0. TypeOK /\ CallsAreOwn /\ LookupsWait
  BY DEF BlockInv
<1>1. mount \in {"mounted", "unmounting", "unmounted"} /\ opened \subseteq Files /\ blockedFiles \subseteq Blocks
  BY <1>0 DEF TypeOK
<1>2. \A f \in Files : Open(f) =>
        UNCHANGED <<os, mount, blockedFiles>> /\ opened' \subseteq Files
  BY <1>1 DEF Open, listVars
<1>3. \A f \in Files, n \in Names : AddFileBlock(f, n) =>
        UNCHANGED <<os, mount, opened>> /\ blockedFiles' \subseteq Blocks
  BY <1>1 DEF AddFileBlock, fsVars
<1>4. /\ \A c, op, force, victims :
           Begins(c, op, force, victims) => UNCHANGED <<os, mount, opened, blockedFiles>>
      /\ \A force : Unmount(force) => mount' = "unmounting" /\ UNCHANGED <<os, opened, blockedFiles>>
      /\ \A c : DoRemoveBlock(c) => UNCHANGED <<os, mount, opened>> /\ blockedFiles' \subseteq Blocks
      /\ \A c : Drop(c) => UNCHANGED <<os, mount, opened, blockedFiles>>
      /\ \A c : Count(c) => UNCHANGED <<os, mount, blockedFiles>> /\ opened' \subseteq opened
      /\ \A c : Flush(c) => mount' \in {"mounted", "unmounted"} /\ UNCHANGED <<os, opened, blockedFiles>>
  BY <1>1 DEF Begins, Unmount, DoRemoveBlock, Drop, Count, Flush, fsVars, listVars
<1>5. /\ \A t, n : Finds(t, n) => UNCHANGED <<os, mount, opened, blockedFiles>>
      /\ \A t, call : Walks(t, call) => UNCHANGED <<os, mount, opened, blockedFiles>>
      /\ \A t : DropAndReturn(t) => UNCHANGED <<os, mount, opened, blockedFiles>>
  BY DEF Finds, Found, Walks, DropAndReturn, fsVars, listVars
<1> QED
  BY <1>0, <1>1, <1>2, <1>3, <1>4, <1>5, Steps

-----------------------------------------------------------------------------
LEMMA BlockInit == Init => BlockInv
<1> SUFFICES ASSUME Init PROVE BlockInv
  OBVIOUS
<1>1. TypeOK
  BY DEF Init, TypeOK
<1>2. \A c \in Controllers : control[c] = Idle /\ Doing(c, {"idle"}) /\ control[c].pc = "idle"
  BY DEF Init, Doing, Idle
<1>3. OneBlockPerFile /\ BlocksHaveOwners
  BY DEF Init, OneBlockPerFile, BlocksHaveOwners
<1>4. LocksExclude /\ CallsAreOwn /\ TodoIsListed
  BY <1>2 DEF LocksExclude, CallsAreOwn, TodoIsListed, Writes, HasRoot, Doing, Controllers
<1>5. LeftToRemove
  BY <1>2 DEF Init, LeftToRemove, BlocksOf, Doing, Controllers
<1>6. \A t \in Threads : At(t, "idle")
  BY DEF Init, At, Idle
<1>7. LookupsWait
  BY <1>6 DEF LookupsWait
<1>8. ReferencesBalance
  <2> SUFFICES ASSUME NEW k \in Blocks
               PROVE  block[k].refcount = ListRefs(k) + LookupRefs(k)
    BY DEF ReferencesBalance
  <2>1. block[k].refcount = 0
    BY DEF Init, Free
  <2>2. ListRefs(k) = 0
    BY <1>2 DEF Init, ListRefs, Doing
  <2>3. {t \in Threads : ~At(t, "idle") /\ lookup[t].block = k} = {}
    BY <1>6
  <2>4. LookupRefs(k) = 0
    BY <2>3, FS_EmptySet DEF LookupRefs
  <2> QED
    BY <2>1, <2>2, <2>4
<1>9. UseCountFollowsBlocks
  <2>1. \A c \in Controllers : Uncounted(c) = {}
    BY <1>2, UncountedIs DEF Doing
  <2>2. AllUncounted = {}
    BY <2>1, UncountedIsOf
  <2>3. Adding = {}
    BY <1>2 DEF Adding, Doing
  <2>4. Cardinality({}) = 0
    BY FS_EmptySet
  <2>5. opened = {} /\ blockedFiles = {} /\ usecount = 1
    BY DEF Init
  <2> QED
    BY <2>2, <2>3, <2>4, <2>5 DEF UseCountFollowsBlocks
<1> QED
  BY <1>1, <1>3, <1>4, <1>5, <1>7, <1>8, <1>9 DEF BlockInv

LEMMA BlockNext == BlockInv /\ [Next]_vars => BlockInv'
<1>1. ASSUME BlockInv, Next
      PROVE  BlockInv'
  <2>1. CallInv' /\ ReferencesBalance' /\ UseCountFollowsBlocks' /\ LookupsWait'
    BY <1>1, CallsStep, ReferencesStep, UseCountStep, LookupType
  <2>2. TypeOK'
    <3>1. os \in {"linux", "freebsd"}
      BY <1>1 DEF BlockInv, TypeOK
    <3> QED
      BY <1>1, <3>1, MountType, UseCountStaysNat, ControlType, BlockType, LookupType DEF TypeOK
  <2> QED
    BY <2>1, <2>2 DEF BlockInv, CallInv
<1>2. ASSUME BlockInv, UNCHANGED vars
      PROVE  BlockInv'
  <2>1. /\ UNCHANGED <<os, mount, opened, usecount, blockedFiles, block, control, lookup>>
    BY <1>2 DEF vars, fsVars, listVars
  <2>2. \A c : Current(c)' = Current(c) /\ Uncounted(c)' = Uncounted(c)
    BY <2>1, SameCurrent, SameUncounted
  <2>3. TypeOK' /\ OneBlockPerFile' /\ BlocksHaveOwners' /\ LocksExclude' /\ CallsAreOwn'
    BY <1>2, <2>1 DEF BlockInv, TypeOK, OneBlockPerFile, BlocksHaveOwners, LocksExclude, CallsAreOwn,
                      Writes, HasRoot, Doing
  <2>4. TodoIsListed' /\ LeftToRemove' /\ LookupsWait'
    BY <1>2, <2>1, <2>2 DEF BlockInv, TodoIsListed, LeftToRemove, LookupsWait, BlocksOf, Writes, Doing, At
  <2>5. ReferencesBalance'
    BY <1>2, <2>1, <2>2 DEF BlockInv, ReferencesBalance, ListRefs, LookupRefs, Doing, At
  <2>6. AllUncounted' = AllUncounted /\ Adding' = Adding
    BY <2>1, <2>2 DEF AllUncounted, Adding, Doing
  <2>7. UseCountFollowsBlocks'
    BY <1>2, <2>1, <2>6, SameCountStep DEF BlockInv, SameCount
  <2> QED
    BY <2>3, <2>4, <2>5, <2>7 DEF BlockInv
<1> QED
  BY <1>1, <1>2

\* The list, its references and the count of the root vnode, together.
THEOREM BlocksAreCorrect == Spec => []BlockInv
BY BlockInit, BlockNext, PTL DEF Spec

\* However ioctls, closes, an unmount and lookups interleave, a file has at most one block, and
\* each block has an open descriptor or an unmount that will lift it (BlockAddFileBlock's
\* EEXIST, BlockRemoveAllBlocks on close and unmount, the assertion of BlockCleanup).
THEOREM BlockListIsCorrect == Spec => []BlockListInv
<1>1. BlockInv => BlockListInv
  BY DEF BlockInv, BlockListInv
<1> QED
  BY <1>1, BlocksAreCorrect, PTL

\* The atomic reference count of every BlockInfo is the number of its users: BlockDropReference
\* frees it when the last one is done, never before, and always then.
THEOREM ReferencesAreBalanced == Spec => []ReferencesBalance
<1>1. BlockInv => ReferencesBalance
  BY DEF BlockInv
<1> QED
  BY <1>1, BlocksAreCorrect, PTL

\* VMBlockVopIoctl, VMBlockFileClose and VMBlockVFSUnmount leave the root vnode of FreeBSD with
\* one use for the mount, one for each descriptor and one for each block.
THEOREM UseCountIsCorrect == Spec => []UseCountFollowsBlocks
<1>1. BlockInv => UseCountFollowsBlocks
  BY DEF BlockInv
<1> QED
  BY <1>1, BlocksAreCorrect, PTL
=============================================================================
