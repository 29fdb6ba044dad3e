------------------------------ MODULE FileLock ------------------------------
(***************************************************************************)
(* The portable file lock, lib/file/fileLockPrimitive.c: Lamport's bakery  *)
(* over the entries of a lock directory.  A locker picks a number n and    *)
(* creates the entry directory "Dn" (it is choosing), the entry file "En", *)
(* reads the Lamport numbers of all member files "M...", writes its own,   *)
(* one higher, to "En", renames that to "Mn" and removes "Dn".  Then it    *)
(* scans until nobody is choosing, and waits for every member before it.   *)
(* Unlock removes the member file.                                         *)
(*                                                                         *)
(* Each operation of the file system is one step; reading a directory is   *)
(* one, too ("atomicity of the directory namespace").  A process is known  *)
(* by its execution ID, so it never comes back after a crash.              *)
(***************************************************************************)
EXTENDS Integers, Sequences, FiniteSets, SequencesExt

CONSTANTS Procs,        \* lockers
          Machine,      \* machineID of each locker
          Names,        \* numbers that FileSimpleRandom returns
          Unprivileged, \* lockers that cannot create the lock directory
          Types,        \* lock types that they ask for
          Waits,        \* times that the lockers are ready to wait
          MaxAge,       \* scans after which FILELOCK_PROGRESS_DEARTH is over
          MaxRequests,  \* bound: lock requests per locker
          MaxCrashes,   \* bound: crashes
          MaxFaults,    \* bound: failing reads of the lock directory
          Stalls,       \* a live locker may take longer than FILELOCK_PROGRESS_DEARTH to enter
          Collisions    \* a number may be picked again at an unlucky time, see Pickable

None == "none"

ASSUME FileLockAssumption ==
  /\ Names \subseteq Nat /\ Names # {} /\ IsFiniteSet(Names)
  /\ None \notin Procs
  /\ Unprivileged \subseteq Procs
  /\ Types \subseteq {"S", "X"}
  /\ Waits \subseteq {"try", "timed", "forever"}
  /\ MaxAge \in Nat \ {0} /\ MaxRequests \in [Procs -> Nat] /\ MaxCrashes \in Nat /\ MaxFaults \in Nat
  /\ Stalls \in BOOLEAN /\ Collisions \in BOOLEAN

VARIABLES pc,       \* where FileLockIntrinsicPortable is
          name,     \* the number in memberName, entryFilePath and entryDirectory
          number,   \* myValues->lamportNumber
          type,     \* myValues->lockType
          wait,     \* myValues->msecMaxWaitTime: "try", "timed" or "forever"
          left,     \* fileList: member files that the scan has yet to look at
          cur,      \* the member file that is looked at
          list,     \* myValues->lockList, the head first
          dir,      \* the lock directory exists
          D,        \* entry directories, each with the locker that made it, or none
          E,        \* entry files
          M,        \* member files
          requests, crashes, faults   \* what the bounds count

files == <<dir, D, E, M>>
mine == <<name, number, type, wait>>
scan == <<left, cur, list>>
counts == <<requests, crashes, faults>>
vars == <<pc, mine, scan, files, counts>>

NoMember == [owner |-> None, number |-> 0, type |-> "S"]
Members == {n \in Names : M[n] # NoMember}
Entering == {n \in Names : D[n] # None}

Aged == [name : Names, marked : BOOLEAN, age : 0..MaxAge]

TypeOK ==
  /\ pc \in [Procs -> {"idle", "dir", "entry", "check", "file", "numbers", "number", "remove",
                       "rmD", "list", "age", "possess", "stale", "wait", "held", "implicit",
                       "rmdir", "dead"}]
  /\ name \in [Procs -> Names] /\ number \in [Procs -> Nat]
  /\ type \in [Procs -> {"S", "X"}] /\ wait \in [Procs -> Waits \cup {"try"}]
  /\ left \in [Procs -> SUBSET Names] /\ cur \in [Procs -> Names]
  /\ list \in [Procs -> Seq(Aged)]
  /\ dir \in BOOLEAN
  /\ D \in [Names -> Procs \cup {None}]
  /\ E \subseteq Names
  /\ M \in [Names -> [owner : Procs, number : Nat \ {0}, type : {"S", "X"}] \cup {NoMember}]
  /\ dir \/ (Members = {} /\ Entering = {} /\ E = {})
  /\ requests \in [Procs -> Nat] /\ crashes \in 0..MaxCrashes /\ faults \in 0..MaxFaults

SomeName == CHOOSE n \in Names : TRUE

Init ==
  /\ pc = [p \in Procs |-> "idle"]
  /\ name = [p \in Procs |-> SomeName] /\ number = [p \in Procs |-> 0]
  /\ type = [p \in Procs |-> "S"] /\ wait = [p \in Procs |-> "try"]
  /\ left = [p \in Procs |-> {}] /\ cur = [p \in Procs |-> SomeName]
  /\ list = [p \in Procs |-> <<>>]
  /\ dir = FALSE
  /\ D = [n \in Names |-> None] /\ E = {} /\ M = [n \in Names |-> NoMember]
  /\ requests = [p \in Procs |-> 0] /\ crashes = 0 /\ faults = 0

Goto(p, l) == pc' = [pc EXCEPT ![p] = l]

\* The call returns, or the process ends: its variables are no more.
Return(p, l) ==
  /\ Goto(p, l)
  /\ name' = [name EXCEPT ![p] = SomeName] /\ number' = [number EXCEPT ![p] = 0]
  /\ type' = [type EXCEPT ![p] = "S"] /\ wait' = [wait EXCEPT ![p] = "try"]
  /\ left' = [left EXCEPT ![p] = {}] /\ cur' = [cur EXCEPT ![p] = SomeName]
  /\ list' = [list EXCEPT ![p] = <<>>]

Dead(p) == pc[p] = "dead"

(***************************************************************************)
(* FileLockCreateEntryDirectory.                                           *)
(***************************************************************************)
Request(p) ==
  /\ pc[p] = "idle" /\ requests[p] < MaxRequests[p]
  /\ \E t \in Types, w \in Waits :
       type' = [type EXCEPT ![p] = t] /\ wait' = [wait EXCEPT ![p] = w]
  /\ requests' = [requests EXCEPT ![p] = @ + 1]
  /\ Goto(p, "dir")
  /\ UNCHANGED <<name, number, scan, files, crashes, faults>>

LockDirectory(p) ==
  /\ pc[p] = "dir" /\ (dir \/ p \notin Unprivileged)
  /\ dir' = TRUE
  /\ Goto(p, "entry")
  /\ UNCHANGED <<mine, scan, D, E, M, counts>>

\* EACCES: an implicit read lock, without a member file.
LockDirectoryDenied(p) ==
  /\ pc[p] = "dir" /\ ~dir /\ p \in Unprivileged
  /\ Return(p, IF type[p] = "S" THEN "implicit" ELSE "idle")
  /\ UNCHANGED <<files, counts>>

\* FileSimpleRandom.  Without collisions, no number is picked that a scan of another locker
\* still remembers.
Pickable == IF Collisions THEN Names
            ELSE {n \in Names : \A p \in Procs :
                    n \notin left[p] /\ \A i \in DOMAIN list[p] : list[p][i].name # n}

EntryDirectory(p) ==
  /\ pc[p] = "entry" /\ dir
  /\ \E n \in Pickable \ Entering :
       /\ name' = [name EXCEPT ![p] = n]
       /\ D' = [D EXCEPT ![n] = p]
  /\ Goto(p, "check")
  /\ UNCHANGED <<number, type, wait, scan, dir, E, M, counts>>

\* The lock directory is gone, or somebody else has the number: again.
EntryDirectoryFails(p) ==
  /\ pc[p] = "entry" /\ (~dir \/ Entering # {})
  /\ Goto(p, "dir")
  /\ UNCHANGED <<mine, scan, files, counts>>

RemoveD(n) == D' = [D EXCEPT ![n] = None]

\* A member file with the number may be in use.
TrustsEntryDirectory(p) == TRUE    \* mutant: the entry directory is enough
NumberIsFree(p) == name[p] \notin Members

\* Without collisions, nobody crashes or stalls before it finds out that a number is taken,
\* and nobody removes the member file that it finds.
NumberIsTaken(p) == ~Collisions /\ pc[p] = "check" /\ name[p] \in Members

CheckMember(p) ==
  /\ pc[p] = "check"
  /\ \/ NumberIsFree(p) /\ Goto(p, "file") /\ UNCHANGED D
     \/ ~NumberIsFree(p) /\ Goto(p, "dir") /\ RemoveD(name[p])
  /\ UNCHANGED <<mine, scan, dir, E, M, counts>>

(***************************************************************************)
(* Choosing a Lamport number.                                              *)
(***************************************************************************)
EntryFile(p) ==
  /\ pc[p] = "file"
  /\ \/ dir /\ name[p] \notin E /\ E' = E \cup {name[p]} /\ Goto(p, "numbers") /\ UNCHANGED D
     \/ ~(dir /\ name[p] \notin E) /\ RemoveD(name[p]) /\ Goto(p, "rmdir") /\ UNCHANGED E
  /\ UNCHANGED <<mine, scan, dir, M, counts>>

\* FileLockScanDirectory without cleanUp: entry directories are not looked at.
ListNumbers(p) ==
  /\ pc[p] = "numbers" /\ dir
  /\ left' = [left EXCEPT ![p] = Members]
  /\ Goto(p, "number")
  /\ UNCHANGED <<mine, cur, list, files, counts>>

Fault == faults < MaxFaults /\ faults' = faults + 1

ListNumbersFails(p) ==
  /\ pc[p] = "numbers"
  /\ \/ ~dir /\ UNCHANGED faults
     \/ Fault
  /\ E' = E \ {name[p]} /\ RemoveD(name[p])
  /\ Goto(p, "rmdir")
  /\ UNCHANGED <<mine, scan, dir, M, requests, crashes>>

\* The owner was a process of this machine, and is no more.
Stale(p, n) == n \in Members /\ Machine[M[n].owner] = Machine[p] /\ Dead(M[n].owner)

\* One member file: it is gone, stale (remembered for removal), or its number counts.
NumberScan(p) ==
  /\ pc[p] = "number"
  /\ \E n \in left[p] :
       \/ Stale(p, n)
          /\ cur' = [cur EXCEPT ![p] = n] /\ Goto(p, "remove")
          /\ UNCHANGED <<left, number>>
       \/ ~Stale(p, n)
          /\ left' = [left EXCEPT ![p] = @ \ {n}]
          /\ number' = [number EXCEPT ![p] = IF M[n].number > @ THEN M[n].number ELSE @]
          /\ UNCHANGED <<cur, pc>>
  /\ UNCHANGED <<name, type, wait, list, files, counts>>

\* FileLockRemoveLockingFile, for a scan of either kind.
RemoveStale(p) ==
  /\ pc[p] \in {"remove", "stale"}
  /\ \A q \in Procs : NumberIsTaken(q) => name[q] # cur[p]
  /\ M' = [M EXCEPT ![cur[p]] = NoMember]
  /\ left' = [left EXCEPT ![p] = @ \ {cur[p]}]
  /\ Goto(p, IF pc[p] = "stale" THEN "possess" ELSE "number")
  /\ UNCHANGED <<mine, cur, list, dir, D, E, counts>>

\* FileLockCreateMemberFile.  The rename fails when the entry file was taken away.
SameNumber(p) == IF number[p] = 0 THEN 1 ELSE number[p]   \* mutant: not one higher
MyNumber(p) == number[p] + 1

CreateMember(p) ==
  /\ pc[p] = "number" /\ left[p] = {} /\ name[p] \in E
  /\ number' = [number EXCEPT ![p] = MyNumber(p)]
  /\ E' = E \ {name[p]}
  /\ M' = [M EXCEPT ![name[p]] = [owner |-> p, number |-> MyNumber(p), type |-> type[p]]]
  /\ Goto(p, "rmD")
  /\ UNCHANGED <<name, type, wait, scan, dir, D, counts>>

\* The files of the number are removed after its entry directory; here in one step, as if the
\* number were not picked again in between.
CreateMemberFails(p) ==
  /\ pc[p] = "number" /\ left[p] = {}
  /\ \/ name[p] \notin E /\ UNCHANGED faults
     \/ Fault
  /\ RemoveD(name[p]) /\ E' = E \ {name[p]} /\ M' = [M EXCEPT ![name[p]] = NoMember]
  /\ Goto(p, "rmdir")
  /\ UNCHANGED <<mine, scan, dir, requests, crashes>>

RemoveEntryDirectory(p) ==
  /\ pc[p] = "rmD"
  /\ RemoveD(name[p])
  /\ list' = [list EXCEPT ![p] = <<>>]
  /\ Goto(p, "list")
  /\ UNCHANGED <<mine, left, cur, dir, E, M, counts>>

(***************************************************************************)
(* FileLockScanner with FileLockWaitForPossession.                         *)
(***************************************************************************)
\* FileLockActivateList for every entry directory, in the order of the listing.
Activated(l, s) ==
  s \o [i \in DOMAIN l |-> [l[i] EXCEPT !.marked = @ \/ l[i].name \in Entering]]
NewEntries(l) ==
  LET new == {[name |-> n, marked |-> TRUE, age |-> 0] :
                n \in Entering \ {l[i].name : i \in DOMAIN l}}
  IN SetToSeqs(new)

EntersAnyway(l) == TRUE            \* mutant: does not wait for those that are choosing
NobodyEnters(l) == l = <<>>

List(p) ==
  /\ pc[p] = "list" /\ dir
  /\ \E s \in NewEntries(list[p]) :
       LET l == Activated(list[p], s)
       IN /\ list' = [list EXCEPT ![p] = l]
          /\ IF NobodyEnters(l)
             THEN left' = [left EXCEPT ![p] = Members \ {name[p]}] /\ Goto(p, "possess")
             ELSE left' = left /\ Goto(p, "age")
  /\ UNCHANGED <<mine, cur, files, counts>>

\* Entries that were seen again are aged, and those without progress discarded with all that
\* has their number; entries that were not seen again are dropped.  Without stalls, time
\* enough passes only for a locker that is dead.
TooOld(e) == e.marked /\ e.age = MaxAge
NeverOlder(e) == [e EXCEPT !.marked = FALSE]    \* mutant: nothing is discarded
Older(e) ==
  [e EXCEPT !.marked = FALSE,
            !.age = IF D[e.name] = None \/ Dead(D[e.name]) \/ (Stalls /\ ~NumberIsTaken(D[e.name]))
                    THEN @ + 1 ELSE @]

\* An entry stays on the list in spite of its removal when the entry before it was removed:
\* prev is no longer on the list then.
Unlinked(l) ==
  LET out[i \in DOMAIN l] ==
        (TooOld(l[i]) \/ ~l[i].marked) /\ (i = 1 \/ ~out[i - 1])
  IN out

\* The places of the entries that stay, in their order.
Kept(l) ==
  LET S == {i \in DOMAIN l : ~Unlinked(l)[i]}
  IN {k \in [1..Cardinality(S) -> S] : \A i, j \in DOMAIN k : i < j => k[i] < k[j]}

Aging(e) == IF e.marked /\ ~TooOld(e) THEN Older(e) ELSE e

Age(p) ==
  LET old == {list[p][i].name : i \in {j \in DOMAIN list[p] : TooOld(list[p][j])}}
  IN /\ pc[p] = "age"
     /\ M' = [n \in Names |-> IF n \in old THEN NoMember ELSE M[n]]
     /\ E' = E \ old
     /\ D' = [n \in Names |-> IF n \in old THEN None ELSE D[n]]
     /\ \E k \in Kept(list[p]) :
          list' = [list EXCEPT ![p] = [j \in DOMAIN k |-> Aging(list[p][k[j]])]]
     /\ Goto(p, "list")
     /\ UNCHANGED <<mine, left, cur, dir, counts>>

\* The member n comes before the one of p, and one of them is exclusive.
Before(n, p) ==
  /\ n \in Members
  /\ M[n].number < number[p] \/ (M[n].number = number[p] /\ n < name[p])
  /\ M[n].type = "X" \/ type[p] = "X"

Possess(p) ==
  /\ pc[p] = "possess"
  /\ \E n \in left[p] :
       \/ Stale(p, n) /\ Goto(p, "stale") /\ UNCHANGED left
          /\ cur' = [cur EXCEPT ![p] = n]
       \/ ~Stale(p, n) /\ Before(n, p) /\ Goto(p, "wait") /\ UNCHANGED left
          /\ cur' = [cur EXCEPT ![p] = n]
       \/ ~Stale(p, n) /\ ~Before(n, p) /\ UNCHANGED <<pc, cur>>
          /\ left' = [left EXCEPT ![p] = @ \ {n}]
  /\ UNCHANGED <<mine, list, files, counts>>

\* After a sleep: the other member is gone, or its locker is.
Waited(p) ==
  /\ pc[p] = "wait" /\ wait[p] # "try"
  /\ \/ cur[p] \notin Members /\ Goto(p, "possess") /\ left' = [left EXCEPT ![p] = @ \ {cur[p]}]
     \/ Stale(p, cur[p]) /\ Goto(p, "stale") /\ UNCHANGED left
  /\ UNCHANGED <<mine, cur, list, files, counts>>

\* FileLockSleeper returns EAGAIN: the member file is removed.
KeepsMember(p) == M' = M          \* mutant: the member file stays
DeleteMember(p) == M' = [M EXCEPT ![name[p]] = NoMember]

TimesOut(p) ==
  /\ pc[p] = "wait" /\ wait[p] # "forever"
  /\ DeleteMember(p)
  /\ Return(p, "rmdir")
  /\ UNCHANGED <<dir, D, E, counts>>

\* Any other error than EAGAIN ends the request and leaves the member file behind.
ScanFails(p) ==
  /\ pc[p] \in {"list", "possess", "wait"}
  /\ \/ pc[p] = "list" /\ ~dir /\ UNCHANGED faults
     \/ Fault
  /\ Return(p, "idle")
  /\ UNCHANGED <<files, requests, crashes>>

Acquire(p) ==
  /\ pc[p] = "possess" /\ left[p] = {}
  /\ Goto(p, "held")
  /\ UNCHANGED <<mine, scan, files, counts>>

(***************************************************************************)
(* FileUnlockIntrinsic, and the removal of the lock directory at the end   *)
(* of every request that fails.                                            *)
(***************************************************************************)
Unlock(p) ==
  /\ \/ pc[p] = "held" /\ DeleteMember(p) /\ Return(p, "rmdir")
     \/ pc[p] = "implicit" /\ UNCHANGED M /\ Return(p, "idle")
  /\ UNCHANGED <<dir, D, E, counts>>

RemoveAnyway(p) == FALSE          \* mutant: the directory is removed with what is in it
NotEmpty(p) == Members # {} \/ Entering # {} \/ E # {}

RemoveLockDirectory(p) ==
  /\ pc[p] = "rmdir"
  /\ dir' = (dir /\ NotEmpty(p))
  /\ Return(p, "idle")
  /\ UNCHANGED <<D, E, M, counts>>

Crash(p) ==
  /\ ~Dead(p) /\ crashes < MaxCrashes
  /\ ~NumberIsTaken(p)
  /\ crashes' = crashes + 1
  /\ Return(p, "dead")
  /\ UNCHANGED <<files, requests, faults>>

Step(p) ==
  \/ LockDirectory(p) \/ LockDirectoryDenied(p) \/ EntryDirectory(p) \/ EntryDirectoryFails(p)
  \/ CheckMember(p) \/ EntryFile(p) \/ ListNumbers(p) \/ ListNumbersFails(p) \/ NumberScan(p)
  \/ RemoveStale(p) \/ CreateMember(p) \/ CreateMemberFails(p) \/ RemoveEntryDirectory(p)
  \/ List(p) \/ Age(p) \/ Possess(p) \/ Waited(p) \/ TimesOut(p) \/ ScanFails(p) \/ Acquire(p)
  \/ Unlock(p) \/ RemoveLockDirectory(p)

Next == \E p \in Procs : Step(p) \/ Request(p) \/ Crash(p)

Spec == Init /\ [][Next]_vars

\* A locker that lives goes on, and every lock is released some time; a number is picked
\* at random, so that one that is free is picked in the end.
PicksFreeNumber(p) == EntryDirectory(p) /\ name'[p] \notin Members
FairSpec == Spec /\ \A p \in Procs : WF_vars(Step(p)) /\ SF_vars(PicksFreeNumber(p))

(***************************************************************************)
(* Properties.                                                             *)
(***************************************************************************)
Conflict(t, u) == t = "X" \/ u = "X"

\* Two locks with member files are held at the same time only if both are shared, whoever
\* crashed, timed out, or is cleaned up after.
MutualExclusion ==
  \A p, q \in Procs :
    p # q /\ pc[p] = "held" /\ pc[q] = "held" => ~Conflict(type[p], type[q])

\* A lock that is held, and one that is waited for, has its own member file: nobody removes
\* it, as stale, by age, or because of the same number.
HasMember(p) == pc[p] \in {"rmD", "list", "age", "possess", "stale", "wait", "held"}
MemberStays ==
  \A p \in Procs :
    HasMember(p) =>
      M[name[p]] = [owner |-> p, number |-> number[p], type |-> type[p]]

\* The bakery: while a lock is held, no member that conflicts with it comes before it, and
\* that will not change: who is choosing will get a higher number.
HolderIsFirst ==
  \A p \in Procs : pc[p] = "held" => ~\E n \in Members : Before(n, p)

\* When no lock is requested or held, and nobody left files behind, the directory is gone.
DirectoryIsRemoved ==
  (\A p \in Procs : pc[p] \in {"idle", "implicit"}) /\ faults = 0 => ~dir

\* The lock directory: it is there while it has entries, and not when nobody needs it.
DirectoryInv == TypeOK /\ DirectoryIsRemoved

\* A member that nobody will remove: a request that failed in its scan left it behind, or
\* a process that died on another machine.
Abandoned ==
  \E n \in Members :
    LET q == M[n].owner
    IN IF Dead(q) THEN \E p \in Procs : ~Dead(p) /\ Machine[p] # Machine[q]
       ELSE ~(HasMember(q) /\ name[q] = n)

\* Every request is answered, if holders release their locks in the end (fairness of Unlock),
\* unless a member is abandoned.
RequestsEnd ==
  \A p \in Procs :
    pc[p] = "dir" ~> pc[p] \in {"idle", "held", "implicit", "dead"} \/ Abandoned

\* What FileLockIntrinsicPortable leaves behind when it returns no lock.
NothingIsLeft == \A p \in Procs : pc[p] = "idle" => \A n \in Members : M[n].owner # p
=============================================================================
