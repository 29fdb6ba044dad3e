--------------------------- MODULE FileLockProofs ---------------------------
(***************************************************************************)
(* The portable file lock excludes, for any number of lockers, numbers and *)
(* requests, on the two assumptions of the model about time and chance:    *)
(* no live locker stalls, and no number is picked while somebody remembers *)
(* it.  The inductive invariant says who may have which number: an entry   *)
(* directory belongs to one locker, what ages is nobody's, what is stale   *)
(* is a dead locker's; and it says how a locker that is choosing and one   *)
(* that is scanning see each other.                                        *)
(***************************************************************************)
EXTENDS FileLock, FiniteSetTheorems, TLAPS

Places == {"idle", "dir", "entry", "check", "file", "numbers", "number", "remove",
           "rmD", "list", "age", "possess", "stale", "wait", "held", "implicit", "rmdir", "dead"}

Choosing(p) == pc[p] \in {"check", "file", "numbers", "number", "remove", "rmD"}
Entered(p) == pc[p] \in {"file", "numbers", "number", "remove"}
HasNumber(p) == Choosing(p) \/ HasMember(p)
Scanning(p) == pc[p] \in {"possess", "stale", "wait", "held"}

\* Who is choosing owns the entry directory of its number, and from the check on nobody else
\* has the number, and there is no member file until it makes it.
ChooserOwns ==
  /\ \A p \in Procs : Choosing(p) => D[name[p]] = p
  /\ \A p \in Procs : Entered(p) => name[p] \notin Members
  /\ \A p, q \in Procs :
       (Entered(p) \/ pc[p] = "rmD") /\ HasNumber(q) /\ p # q => name[p] # name[q]

\* An entry directory is that of a locker that is choosing, or is dead.
EntryIsOwned ==
  \A n \in Names : D[n] \in Procs => Dead(D[n]) \/ (Choosing(D[n]) /\ name[D[n]] = n)

\* The number of an entry directory that a dead locker left is nobody's.
DeadEntries ==
  \A n \in Names, p \in Procs :
    D[n] \in Procs /\ Dead(D[n]) /\ HasNumber(p) => name[p] # n

\* An entry ages after its locker left or died, and when it is discarded its number is nobody's.
ListEntries ==
  \A p \in Procs : \A i \in DOMAIN list[p] :
    LET e == list[p][i]
    IN e.age > 0 => /\ D[e.name] = None \/ Dead(D[e.name])
                    /\ e.marked => \A q \in Procs : HasNumber(q) => name[q] # e.name

\* The member that is removed as stale is a dead locker's, or is gone and nobody has its number.
StaleMembers ==
  \A p \in Procs :
    /\ pc[p] \in {"stale", "remove", "wait"} => cur[p] \in left[p]
    /\ pc[p] \in {"stale", "remove"} =>
         IF cur[p] \in Members THEN Dead(M[cur[p]].owner)
         ELSE \A q \in Procs : HasNumber(q) => name[q] # cur[p]

\* The members before the own one are those that the scan has yet to look at.
LeftIsBefore ==
  \A p \in Procs :
    /\ Scanning(p) => \A n \in Members : Before(n, p) => n \in left[p]
    /\ pc[p] = "held" => left[p] = {}

\* Who chooses while somebody scans has read its number, or will read it.
ChoosesHigher ==
  \A p, q \in Procs :
    Scanning(p) /\ pc[q] \in {"number", "remove"}
      => name[p] \in left[q] \/ number[q] >= number[p]

LockInv ==
  /\ TypeOK
  /\ ChooserOwns /\ EntryIsOwned /\ DeadEntries /\ ListEntries /\ StaleMembers /\ MemberStays
  /\ LeftIsBefore /\ ChoosesHigher

\* Nobody died, and no read of the directory failed.
Calm == faults = 0 /\ \A p \in Procs : ~Dead(p)

\* Nothing is in the directory that no locker will remove, while nobody died or failed.
MembersAreUsed == Calm => \A n \in Members : HasMember(M[n].owner) /\ name[M[n].owner] = n
Numbering(p) == pc[p] \in {"numbers", "number", "remove"}
EntriesAreUsed == Calm => \A n \in E : \E p \in Procs : Numbering(p) /\ name[p] = n
DirIsUsed == Calm /\ dir => \E p \in Procs : pc[p] \notin {"idle", "implicit"}

DirInv == TypeOK /\ EntryIsOwned /\ MembersAreUsed /\ EntriesAreUsed /\ DirIsUsed

-----------------------------------------------------------------------------
(***************************************************************************)
(* Type correctness.                                                       *)
(***************************************************************************)
LEMMA HigherIsUpper ==
  \A m, a, b \in Nat :
    /\ (IF m > a THEN m ELSE a) >= m
    /\ a >= b => (IF m > a THEN m ELSE a) >= b
OBVIOUS

USE FileLockAssumption

LEMMA SomeNameIsName == SomeName \in Names
BY DEF SomeName

LEMMA InitType == Init => TypeOK
<1> SUFFICES ASSUME Init PROVE TypeOK
  OBVIOUS
<1>1. list \in [Procs -> Seq(Aged)]
  BY DEF Init
<1>2. M \in [Names -> [owner : Procs, number : Nat \ {0}, type : {"S", "X"}] \cup {NoMember}]
  BY DEF Init
<1>3. Members = {} /\ Entering = {} /\ E = {}
  BY DEF Init, Members, Entering
<1>4. crashes \in 0..MaxCrashes /\ faults \in 0..MaxFaults
  BY DEF Init
<1>5. /\ name \in [Procs -> Names] /\ number \in [Procs -> Nat]
      /\ type \in [Procs -> {"S", "X"}] /\ wait \in [Procs -> Waits \cup {"try"}]
      /\ left \in [Procs -> SUBSET Names] /\ cur \in [Procs -> Names]
  BY SomeNameIsName DEF Init
<1>6. dir \in BOOLEAN /\ D \in [Names -> Procs \cup {None}] /\ requests \in [Procs -> Nat]
  BY DEF Init
<1> QED
  BY <1>1, <1>2, <1>3, <1>4, <1>5, <1>6 DEF Init, TypeOK

\* The new entries of a list are marked, and have not aged; there are none only if nobody enters.
LEMMA NewEntriesType ==
  ASSUME TypeOK, NEW l \in Seq(Aged), NEW s \in NewEntries(l)
  PROVE  /\ s \in Seq(Aged)
         /\ \A i \in DOMAIN s : s[i].age = 0
         /\ s = <<>> => Entering \subseteq {l[i].name : i \in DOMAIN l}
<1> DEFINE N == Entering \ {l[i].name : i \in DOMAIN l}
           Entry(n) == [name |-> n, marked |-> TRUE, age |-> 0]
           new == {Entry(n) : n \in N}
<1>1. s \in [1..Cardinality(new) -> new]
  BY DEF NewEntries, SetToSeqs
<1>2. IsFiniteSet(N)
  BY FS_Subset DEF Entering
<1>3. IsFiniteSet(new)
  <2>1. [n \in N |-> Entry(n)] \in Surjection(N, new)
    <3> HIDE DEF Entry, N
    <3> QED
      BY DEF Surjection
  <2> QED
    BY <1>2, <2>1, FS_Surjection
<1>4. Cardinality(new) \in Nat
  BY <1>3, FS_CardinalityType
<1>5. new \subseteq Aged /\ \A e \in new : e.age = 0
  <2>1. \A n \in N : Entry(n) \in Aged /\ Entry(n).age = 0
    BY DEF Aged, Entering
  <2> HIDE DEF Entry, N
  <2> QED
    BY <2>1
<1>6. s \in Seq(Aged) /\ \A i \in DOMAIN s : s[i].age = 0
  <2> HIDE DEF new
  <2> QED
    BY <1>1, <1>4, <1>5
<1>7. ASSUME s = <<>>
      PROVE  N = {}
  <2>1. Cardinality(new) = 0
    <3> HIDE DEF new
    <3> QED
      BY <1>1, <1>4, <1>7
  <2>2. new = {}
    <3> HIDE DEF new
    <3> QED
      BY <2>1, <1>3, FS_EmptySet
  <2> HIDE DEF Entry, N
  <2> QED
    BY <2>2
<1> QED
  BY <1>6, <1>7




\* A step of one locker.
Moves(p) == Step(p) \/ Request(p) \/ Crash(p)

\* It changes the variables of no other locker.
LEMMA MovesOnlyItself ==
  ASSUME TypeOK, NEW p \in Procs, Moves(p)
  PROVE  /\ \E v \in Places : pc' = [pc EXCEPT ![p] = v]
         /\ \E v \in Names : name' = [name EXCEPT ![p] = v]
         /\ \E v \in Nat : number' = [number EXCEPT ![p] = v]
         /\ \E v \in {"S", "X"} : type' = [type EXCEPT ![p] = v]
         /\ \E v \in Waits \cup {"try"} : wait' = [wait EXCEPT ![p] = v]
         /\ \E v \in SUBSET Names : left' = [left EXCEPT ![p] = v]
         /\ \E v \in Names : cur' = [cur EXCEPT ![p] = v]
         /\ \E v \in Nat : requests' = [requests EXCEPT ![p] = v]
<1>7. left[p] \subseteq Names
  BY DEF TypeOK
<1>8. \A n \in Names : M[n].number \in Nat
  <2> SUFFICES ASSUME NEW n \in Names PROVE M[n].number \in Nat
    OBVIOUS
  <2>1. \/ M[n] \in [owner : Procs, number : Nat \ {0}, type : {"S", "X"}]
        \/ M[n] = NoMember
    BY DEF TypeOK
  <2> QED
    BY <2>1 DEF NoMember
<1> USE DEF Moves, Step, Goto, Return, mine, scan, files, counts,
            LockDirectory, LockDirectoryDenied, EntryDirectory, EntryDirectoryFails, CheckMember,
            EntryFile, ListNumbers, ListNumbersFails, NumberScan, RemoveStale, CreateMember,
            CreateMemberFails, RemoveEntryDirectory, List, Age, Possess, Waited, TimesOut,
            ScanFails, Acquire, Unlock, RemoveLockDirectory, Request, Crash
<1>1. \E v \in Places : pc' = [pc EXCEPT ![p] = v]
  <2>1. pc = [pc EXCEPT ![p] = pc[p]] /\ pc[p] \in Places
    BY DEF TypeOK, Places
  <2> QED
    BY <2>1 DEF Places
<1>2. \E v \in Names : name' = [name EXCEPT ![p] = v]
  <2>1. name = [name EXCEPT ![p] = name[p]] /\ name[p] \in Names
    BY DEF TypeOK
  <2> QED
    BY <2>1, SomeNameIsName DEF Pickable
<1>4. \E v \in {"S", "X"} : type' = [type EXCEPT ![p] = v]
  <2>1. type = [type EXCEPT ![p] = type[p]] /\ type[p] \in {"S", "X"}
    BY DEF TypeOK
  <2> QED
    BY <2>1
<1>5. \E v \in Waits \cup {"try"} : wait' = [wait EXCEPT ![p] = v]
  <2>1. wait = [wait EXCEPT ![p] = wait[p]] /\ wait[p] \in Waits \cup {"try"}
    BY DEF TypeOK
  <2> QED
    BY <2>1
<1>6. \E v \in SUBSET Names : left' = [left EXCEPT ![p] = v]
  <2>1. left = [left EXCEPT ![p] = left[p]] /\ left[p] \in SUBSET Names
    BY DEF TypeOK
  <2> QED
    BY <2>1 DEF Members
<1>9. \E v \in Names : cur' = [cur EXCEPT ![p] = v]
  <2>1. cur = [cur EXCEPT ![p] = cur[p]] /\ cur[p] \in Names
    BY DEF TypeOK
  <2>2. CASE NumberScan(p) \/ Possess(p)
    <3>1. PICK n \in left[p] : UNCHANGED cur \/ cur' = [cur EXCEPT ![p] = n]
      BY <2>2
    <3>2. n \in Names
      BY <1>7
    <3> HIDE DEF Possess, NumberScan
    <3> QED
      BY <2>1, <3>1, <3>2
  <2>3. NumberScan(p) \/ Possess(p) \/ UNCHANGED cur \/ cur' = [cur EXCEPT ![p] = SomeName]
    <3> HIDE DEF NumberScan, Possess
    <3> QED
      OBVIOUS
  <2> QED
    BY <2>1, <2>2, <2>3, SomeNameIsName
<1>3. \E v \in Nat : number' = [number EXCEPT ![p] = v]
  <2>1. number = [number EXCEPT ![p] = number[p]] /\ number[p] \in Nat
    BY DEF TypeOK
  <2>2. CASE NumberScan(p)
    <3>1. PICK n \in left[p] :
            \/ UNCHANGED number
            \/ number' = [number EXCEPT ![p] = IF M[n].number > @ THEN M[n].number ELSE @]
      BY <2>2
    <3> QED
      BY <2>1, <3>1, <1>7, <1>8
  <2>3. CASE CreateMember(p)
    <3> HIDE DEF Moves
    <3>1. number' = [number EXCEPT ![p] = MyNumber(p)]
      BY <2>3
    <3> HIDE DEF CreateMember
    <3>2. MyNumber(p) \in Nat
      BY <2>1 DEF MyNumber
    <3> QED
      BY <3>1, <3>2
  <2>4. \/ NumberScan(p) \/ CreateMember(p)
        \/ UNCHANGED number \/ number' = [number EXCEPT ![p] = 0]
    <3> HIDE DEF NumberScan, CreateMember
    <3> QED
      OBVIOUS
  <2> QED
    BY <2>1, <2>2, <2>3, <2>4
<1>10. \E v \in Nat : requests' = [requests EXCEPT ![p] = v]
  <2>1. requests = [requests EXCEPT ![p] = requests[p]] /\ requests[p] \in Nat
    BY DEF TypeOK
  <2>2. UNCHANGED requests \/ requests' = [requests EXCEPT ![p] = @ + 1]
    OBVIOUS
  <2> HIDE DEF Moves
  <2> QED
    BY <2>1, <2>2
<1> QED
  BY <1>1, <1>2, <1>3, <1>4, <1>5, <1>6, <1>9, <1>10

\* What is on a list after a scan of the lock directory.
LEMMA ActivatedType ==
  ASSUME TypeOK, NEW l \in Seq(Aged), NEW s \in NewEntries(l)
  PROVE  /\ Activated(l, s) \in Seq(Aged)
         /\ \A i \in DOMAIN Activated(l, s) :
              LET e == Activated(l, s)[i]
              IN \/ e.age = 0
                 \/ \E j \in DOMAIN l :
                      /\ e.name = l[j].name /\ e.age = l[j].age
                      /\ e.marked => l[j].marked \/ l[j].name \in Entering
         /\ Activated(l, s) = <<>> => Entering = {}
<1> DEFINE again(i) == [l[i] EXCEPT !.marked = @ \/ l[i].name \in Entering]
           f == [i \in DOMAIN l |-> again(i)]
<1>1. ASSUME NEW i \in DOMAIN l
      PROVE  /\ again(i) \in Aged
             /\ again(i).name = l[i].name /\ again(i).age = l[i].age
             /\ again(i).marked => l[i].marked \/ l[i].name \in Entering
  <2>0. l[i] \in Aged
    OBVIOUS
  <2>1. l[i] \in [name : Names, marked : BOOLEAN, age : 0..MaxAge]
    BY <2>0 DEF Aged
  <2> DEFINE b == l[i].marked \/ l[i].name \in Entering
  <2>2. b \in BOOLEAN
    OBVIOUS
  <2>3. again(i) = [l[i] EXCEPT !.marked = b]
    OBVIOUS
  <2>4. /\ again(i) \in [name : Names, marked : BOOLEAN, age : 0..MaxAge]
        /\ again(i).name = l[i].name /\ again(i).age = l[i].age /\ again(i).marked = b
    <3> HIDE DEF b, again
    <3> QED
      BY <2>1, <2>2, <2>3
  <2> QED
    BY <2>4 DEF Aged
<1>3. f \in Seq(Aged) /\ Len(f) = Len(l) /\ DOMAIN f = DOMAIN l
  <2> HIDE DEF again
  <2> QED
    BY <1>1
<1>4. s \in Seq(Aged) /\ \A i \in DOMAIN s : s[i].age = 0
  BY NewEntriesType
<1>5. Activated(l, s) = s \o f
  BY DEF Activated
<1>6. \A i \in DOMAIN (s \o f) :
        \/ i \in DOMAIN s /\ (s \o f)[i] = s[i]
        \/ i - Len(s) \in DOMAIN l /\ (s \o f)[i] = again(i - Len(s))
  <2> HIDE DEF again
  <2> QED
    BY <1>3, <1>4
<1>7. s \o f \in Seq(Aged)
  <2> HIDE DEF f
  <2> QED
    BY <1>3, <1>4
<1>8. ASSUME s \o f = <<>>
      PROVE  Entering = {}
  <2>1. s = <<>> /\ l = <<>>
    <3>1. Len(s) + Len(f) = 0 /\ Len(s) \in Nat /\ Len(f) \in Nat
      <4> HIDE DEF f
      <4> QED
        BY <1>3, <1>4, <1>8
    <3> HIDE DEF f
    <3> QED
      BY <1>3, <1>4, <3>1
  <2>2. Entering \subseteq {l[i].name : i \in DOMAIN l}
    BY <2>1, NewEntriesType
  <2> QED
    BY <2>1, <2>2
<1>9. \A i \in DOMAIN (s \o f) :
        LET e == (s \o f)[i]
        IN \/ e.age = 0
           \/ \E j \in DOMAIN l :
                /\ e.name = l[j].name /\ e.age = l[j].age
                /\ e.marked => l[j].marked \/ l[j].name \in Entering
  <2> HIDE DEF again, f
  <2> SUFFICES ASSUME NEW i \in DOMAIN (s \o f)
               PROVE  LET e == (s \o f)[i]
                      IN \/ e.age = 0
                         \/ \E j \in DOMAIN l :
                              /\ e.name = l[j].name /\ e.age = l[j].age
                              /\ e.marked => l[j].marked \/ l[j].name \in Entering
    OBVIOUS
  <2>1. CASE i \in DOMAIN s /\ (s \o f)[i] = s[i]
    BY <1>4, <2>1
  <2>2. CASE i - Len(s) \in DOMAIN l /\ (s \o f)[i] = again(i - Len(s))
    BY <1>1, <2>2
  <2> QED
    BY <1>6, <2>1, <2>2
<1> HIDE DEF f
<1> QED
  BY <1>5, <1>7, <1>8, <1>9

\* An entry gets older only when its locker has left, or died, or stalls.
LEMMA AgingType ==
  ASSUME TypeOK, NEW e \in Aged
  PROVE  /\ Aging(e) \in Aged
         /\ Aging(e).name = e.name
         /\ \/ Aging(e) = e
            \/ /\ Aging(e).marked = FALSE
               /\ \/ Aging(e).age = e.age
                  \/ D[e.name] = None \/ Dead(D[e.name]) \/ Stalls
<1>1. CASE e.marked /\ ~TooOld(e)
  <2>1. e.age # MaxAge
    BY <1>1 DEF TooOld
  <2>2. e.age \in 0..MaxAge /\ e.age + 1 \in 0..MaxAge
    BY <2>1 DEF Aged
  <2>3. Aging(e) = Older(e)
    BY <1>1 DEF Aging
  <2> QED
    BY <2>2, <2>3 DEF Older, Aged
<1>2. CASE ~(e.marked /\ ~TooOld(e))
  BY <1>2 DEF Aging
<1> QED
  BY <1>1, <1>2

\* The entries that are kept were on the list before.
LEMMA KeptType ==
  ASSUME TypeOK, NEW l \in Seq(Aged), NEW k \in Kept(l)
  PROVE  /\ DOMAIN k \in {1..n : n \in Nat}
         /\ \A j \in DOMAIN k : k[j] \in DOMAIN l
<1> DEFINE S == {i \in DOMAIN l : ~Unlinked(l)[i]}
<1>1. k \in [1..Cardinality(S) -> S]
  BY DEF Kept
<1>2. IsFiniteSet(S)
  <2>1. S \subseteq 1..Len(l) /\ Len(l) \in Int
    OBVIOUS
  <2>2. IsFiniteSet(1..Len(l))
    BY <2>1, FS_Interval
  <2> HIDE DEF S
  <2> QED
    BY <2>1, <2>2, FS_Subset
<1>3. Cardinality(S) \in Nat
  BY <1>2, FS_CardinalityType
<1> QED
  BY <1>1, <1>3

LEMMA AgedList ==
  ASSUME TypeOK, NEW l \in Seq(Aged), NEW k \in Kept(l)
  PROVE  [j \in DOMAIN k |-> Aging(l[k[j]])] \in Seq(Aged)
<1>1. PICK n \in Nat : DOMAIN k = 1..n
  BY KeptType
<1>2. ASSUME NEW j \in 1..n
      PROVE  Aging(l[k[j]]) \in Aged
  <2>1. l[k[j]] \in Aged
    BY <1>1, KeptType
  <2> QED
    BY <2>1, AgingType
<1> QED
  BY <1>1, <1>2

LEMMA MovesListBy ==
  ASSUME NEW p \in Procs, Moves(p)
  PROVE  List(p) \/ Age(p) \/ UNCHANGED list \/ list' = [list EXCEPT ![p] = <<>>]
BY DEF Moves, Step, Goto, Return, mine, scan, files, counts,
       LockDirectory, LockDirectoryDenied, EntryDirectory, EntryDirectoryFails, CheckMember,
       EntryFile, ListNumbers, ListNumbersFails, NumberScan, RemoveStale, CreateMember,
       CreateMemberFails, RemoveEntryDirectory, Possess, Waited, TimesOut,
       ScanFails, Acquire, Unlock, RemoveLockDirectory, Request, Crash

LEMMA MovesList ==
  ASSUME TypeOK, NEW p \in Procs, Moves(p)
  PROVE  \E v \in Seq(Aged) : list' = [list EXCEPT ![p] = v]
<1>1. list = [list EXCEPT ![p] = list[p]] /\ list[p] \in Seq(Aged)
  BY DEF TypeOK
<1>2. CASE List(p)
  <2>1. PICK s \in NewEntries(list[p]) : list' = [list EXCEPT ![p] = Activated(list[p], s)]
    BY <1>2 DEF List
  <2> QED
    BY <1>1, <2>1, ActivatedType
<1>3. CASE Age(p)
  <2>1. PICK k \in Kept(list[p]) :
          list' = [list EXCEPT ![p] = [j \in DOMAIN k |-> Aging(list[p][k[j]])]]
    BY <1>3 DEF Age
  <2> QED
    BY <1>1, <2>1, AgedList
<1>4. List(p) \/ Age(p) \/ UNCHANGED list \/ list' = [list EXCEPT ![p] = <<>>]
  BY MovesListBy
<1>5. <<>> \in Seq(Aged)
  OBVIOUS
<1> QED
  BY <1>1, <1>2, <1>3, <1>4, <1>5

Member == [owner : Procs, number : Nat \ {0}, type : {"S", "X"}]

\* A step changes the entry directories by these actions only.
LEMMA MovesD ==
  ASSUME TypeOK, NEW p \in Procs, Moves(p)
  PROVE  \/ D' = D
         \/ EntryDirectory(p) \/ Age(p)
         \/ D' = [D EXCEPT ![name[p]] = None] /\ Choosing(p) /\ ~Choosing(p)'
<1>1. pc \in [Procs -> Places]
  BY DEF TypeOK, Places
<1>2. \/ D' = D \/ EntryDirectory(p) \/ Age(p)
      \/ CheckMember(p) \/ EntryFile(p) \/ ListNumbersFails(p)
      \/ CreateMemberFails(p) \/ RemoveEntryDirectory(p)
  BY DEF Moves, Step, mine, scan, files, counts,
         LockDirectory, LockDirectoryDenied, EntryDirectoryFails, ListNumbers, NumberScan,
         RemoveStale, CreateMember, List, Possess, Waited, TimesOut,
         ScanFails, Acquire, Unlock, RemoveLockDirectory, Request, Crash
<1> USE DEF RemoveD, Choosing, Goto
<1>3. CASE CheckMember(p)
  BY <1>1, <1>3 DEF CheckMember
<1>4. CASE EntryFile(p)
  BY <1>1, <1>4 DEF EntryFile
<1>5. CASE ListNumbersFails(p)
  BY <1>1, <1>5 DEF ListNumbersFails
<1>6. CASE CreateMemberFails(p)
  BY <1>1, <1>6 DEF CreateMemberFails
<1>7. CASE RemoveEntryDirectory(p)
  BY <1>1, <1>7 DEF RemoveEntryDirectory
<1> QED
  BY <1>2, <1>3, <1>4, <1>5, <1>6, <1>7

LEMMA MovesM ==
  ASSUME NEW p \in Procs, Moves(p)
  PROVE  \/ M' = M
         \/ CreateMember(p) \/ Age(p)
         \/ RemoveStale(p) /\ M' = [M EXCEPT ![cur[p]] = NoMember]
         \/ /\ CreateMemberFails(p) \/ TimesOut(p) \/ (pc[p] = "held" /\ Unlock(p))
            /\ M' = [M EXCEPT ![name[p]] = NoMember]
<1>1. \/ M' = M \/ CreateMember(p) \/ Age(p) \/ RemoveStale(p)
      \/ CreateMemberFails(p) \/ TimesOut(p) \/ Unlock(p)
  BY DEF Moves, Step, mine, scan, files, counts,
         LockDirectory, LockDirectoryDenied, EntryDirectory, EntryDirectoryFails, CheckMember,
         EntryFile, ListNumbers, ListNumbersFails, NumberScan, RemoveEntryDirectory, List,
         Possess, Waited, ScanFails, Acquire, RemoveLockDirectory, Request, Crash
<1>2. CASE RemoveStale(p)
  BY <1>2 DEF RemoveStale
<1>3. CASE CreateMemberFails(p)
  BY <1>3 DEF CreateMemberFails
<1>4. CASE TimesOut(p)
  BY <1>4 DEF TimesOut, DeleteMember
<1>5. CASE Unlock(p)
  BY <1>5 DEF Unlock, DeleteMember
<1> QED
  BY <1>1, <1>2, <1>3, <1>4, <1>5

LEMMA MovesE ==
  ASSUME NEW p \in Procs, Moves(p)
  PROVE  \/ E' = E \/ EntryFile(p) \/ E' = E \ {name[p]} \/ Age(p)
BY DEF Moves, Step, mine, scan, files, counts,
       LockDirectory, LockDirectoryDenied, EntryDirectory, EntryDirectoryFails, CheckMember,
       EntryFile, ListNumbers, ListNumbersFails, NumberScan, RemoveStale, CreateMember,
       CreateMemberFails, RemoveEntryDirectory, List, Possess, Waited, TimesOut,
       ScanFails, Acquire, Unlock, RemoveLockDirectory, Request, Crash

LEMMA MovesDir ==
  ASSUME NEW p \in Procs, Moves(p)
  PROVE  dir' = dir \/ LockDirectory(p) \/ RemoveLockDirectory(p)
BY DEF Moves, Step, mine, scan, files, counts,
       LockDirectory, LockDirectoryDenied, EntryDirectory, EntryDirectoryFails, CheckMember,
       EntryFile, ListNumbers, ListNumbersFails, NumberScan, RemoveStale, CreateMember,
       CreateMemberFails, RemoveEntryDirectory, List, Age, Possess, Waited, TimesOut,
       ScanFails, Acquire, Unlock, Request, Crash

LEMMA MovesCounts ==
  ASSUME NEW p \in Procs, Moves(p)
  PROVE  /\ crashes' = crashes \/ (crashes < MaxCrashes /\ crashes' = crashes + 1)
         /\ faults' = faults \/ (faults < MaxFaults /\ faults' = faults + 1)
<1>1. crashes' = crashes \/ Crash(p)
  BY DEF Moves, Step, mine, scan, files, counts,
         LockDirectory, LockDirectoryDenied, EntryDirectory, EntryDirectoryFails, CheckMember,
         EntryFile, ListNumbers, ListNumbersFails, NumberScan, RemoveStale, CreateMember,
         CreateMemberFails, RemoveEntryDirectory, List, Age, Possess, Waited, TimesOut,
         ScanFails, Acquire, Unlock, RemoveLockDirectory, Request
<1>2. faults' = faults \/ Fault
  BY DEF Moves, Step, mine, scan, files, counts,
         LockDirectory, LockDirectoryDenied, EntryDirectory, EntryDirectoryFails, CheckMember,
         EntryFile, ListNumbers, ListNumbersFails, NumberScan, RemoveStale, CreateMember,
         CreateMemberFails, RemoveEntryDirectory, List, Age, Possess, Waited, TimesOut,
         ScanFails, Acquire, Unlock, RemoveLockDirectory, Request, Crash
<1> QED
  BY <1>1, <1>2 DEF Crash, Fault

LEMMA MovesType ==
  ASSUME TypeOK, NEW p \in Procs, Moves(p)
  PROVE  TypeOK'
<1> USE DEF Member
<1>1. /\ D \in [Names -> Procs \cup {None}] /\ E \subseteq Names /\ dir \in BOOLEAN
      /\ M \in [Names -> Member \cup {NoMember}]
      /\ name[p] \in Names /\ cur[p] \in Names /\ number[p] \in Nat /\ type[p] \in {"S", "X"}
      /\ dir \/ (Members = {} /\ Entering = {} /\ E = {})
      /\ crashes \in 0..MaxCrashes /\ faults \in 0..MaxFaults
  BY DEF TypeOK
<1> HIDE DEF Member
<1>2. D' \in [Names -> Procs \cup {None}]
  BY <1>1, MovesD DEF EntryDirectory, Pickable, Age
<1>3. M' \in [Names -> Member \cup {NoMember}]
  <2>1. [owner |-> p, number |-> MyNumber(p), type |-> type[p]] \in Member
    BY <1>1 DEF Member, MyNumber
  <2>2. CASE CreateMember(p)
    BY <1>1, <2>1, <2>2 DEF CreateMember
  <2>3. CASE Age(p)
    BY <1>1, <2>3 DEF Age
  <2> QED
    BY <1>1, <2>2, <2>3, MovesM
<1>4. E' \subseteq Names
  BY <1>1, MovesE DEF EntryFile, Age
<1>5. dir' \in BOOLEAN /\ (dir' \/ (Members' = {} /\ Entering' = {} /\ E' = {}))
  <2>1. CASE RemoveLockDirectory(p)
    BY <1>1, <2>1 DEF RemoveLockDirectory, NotEmpty, Members, Entering
  <2>2. CASE LockDirectory(p)
    BY <2>2 DEF LockDirectory
  <2>3. CASE dir' = dir /\ ~dir
    <3>1. E = {} /\ \A n \in Names : M[n] = NoMember /\ D[n] = None
      BY <1>1, <2>3 DEF Members, Entering
    <3>2. ~EntryDirectory(p) /\ ~CreateMember(p)
      BY <2>3, <3>1 DEF EntryDirectory, CreateMember
    <3>3. \A n \in Names : M'[n] = NoMember
      BY <1>1, <3>1, <3>2, MovesM DEF Age
    <3>4. \A n \in Names : D'[n] = None
      BY <1>1, <3>1, <3>2, MovesD DEF Age
    <3>5. E' = {}
      BY <2>3, <3>1, MovesE DEF EntryFile, Age
    <3> QED
      BY <1>1, <2>3, <3>3, <3>4, <3>5 DEF Members, Entering
  <2>4. CASE dir' = dir /\ dir
    BY <2>4
  <2> QED
    BY <1>1, <2>1, <2>2, <2>3, <2>4, MovesDir
<1>6. crashes' \in 0..MaxCrashes /\ faults' \in 0..MaxFaults
  BY <1>1, MovesCounts
<1>7. /\ pc' \in [Procs -> Places] /\ name' \in [Procs -> Names] /\ number' \in [Procs -> Nat]
      /\ type' \in [Procs -> {"S", "X"}] /\ wait' \in [Procs -> Waits \cup {"try"}]
      /\ left' \in [Procs -> SUBSET Names] /\ cur' \in [Procs -> Names]
      /\ requests' \in [Procs -> Nat]
  <2>1. /\ pc \in [Procs -> Places] /\ name \in [Procs -> Names] /\ number \in [Procs -> Nat]
        /\ type \in [Procs -> {"S", "X"}] /\ wait \in [Procs -> Waits \cup {"try"}]
        /\ left \in [Procs -> SUBSET Names] /\ cur \in [Procs -> Names]
        /\ requests \in [Procs -> Nat]
    BY DEF TypeOK, Places
  <2>2. pc' \in [Procs -> Places]
    BY <2>1, MovesOnlyItself
  <2>3. name' \in [Procs -> Names] /\ cur' \in [Procs -> Names]
    BY <2>1, MovesOnlyItself
  <2>4. number' \in [Procs -> Nat] /\ requests' \in [Procs -> Nat]
    BY <2>1, MovesOnlyItself
  <2>5. type' \in [Procs -> {"S", "X"}] /\ wait' \in [Procs -> Waits \cup {"try"}]
    <3>1. PICK t \in {"S", "X"} : type' = [type EXCEPT ![p] = t]
      BY MovesOnlyItself
    <3>2. PICK w \in Waits \cup {"try"} : wait' = [wait EXCEPT ![p] = w]
      BY MovesOnlyItself
    <3>3. type' \in [Procs -> {"S", "X"}]
      BY <2>1, <3>1
    <3>4. wait' \in [Procs -> Waits \cup {"try"}]
      BY <2>1, <3>2
    <3> QED
      BY <3>3, <3>4
  <2>6. left' \in [Procs -> SUBSET Names]
    <3>1. PICK v \in SUBSET Names : left' = [left EXCEPT ![p] = v]
      BY MovesOnlyItself
    <3> QED
      BY <2>1, <3>1
  <2> QED
    BY <2>2, <2>3, <2>4, <2>5, <2>6
<1>8. list' \in [Procs -> Seq(Aged)]
  <2>1. list \in [Procs -> Seq(Aged)]
    BY DEF TypeOK
  <2>2. PICK v \in Seq(Aged) : list' = [list EXCEPT ![p] = v]
    BY MovesList
  <2> QED
    BY <2>1, <2>2
<1> QED
  BY <1>2, <1>3, <1>4, <1>5, <1>6, <1>7, <1>8 DEF TypeOK, Places, Member

LEMMA NextType == TypeOK /\ [Next]_vars => TypeOK'
<1>1. ASSUME TypeOK, UNCHANGED vars
      PROVE  TypeOK'
  BY <1>1 DEF TypeOK, vars, mine, scan, files, counts, Members, Entering
<1> QED
  BY <1>1, MovesType DEF Next, Moves

\* Type correctness: the fields of every locker, and no file without the lock directory.
THEOREM TypeCorrect == Spec => []TypeOK
BY InitType, NextType, PTL DEF Spec

-----------------------------------------------------------------------------
(***************************************************************************)
(* What a step means for numbers and members.                              *)
(***************************************************************************)
LEMMA OthersStay ==
  ASSUME TypeOK, NEW p \in Procs, Moves(p), NEW q \in Procs, q # p
  PROVE  /\ pc'[q] = pc[q] /\ name'[q] = name[q] /\ number'[q] = number[q] /\ type'[q] = type[q]
         /\ left'[q] = left[q] /\ cur'[q] = cur[q] /\ list'[q] = list[q]
<1>1. /\ DOMAIN pc = Procs /\ DOMAIN name = Procs /\ DOMAIN number = Procs /\ DOMAIN type = Procs
      /\ DOMAIN left = Procs /\ DOMAIN cur = Procs /\ DOMAIN list = Procs
  BY DEF TypeOK
<1>2. \E v : pc' = [pc EXCEPT ![p] = v]
  BY MovesOnlyItself
<1>3. \E v : name' = [name EXCEPT ![p] = v]
  BY MovesOnlyItself
<1>4. \E v : number' = [number EXCEPT ![p] = v]
  BY MovesOnlyItself
<1>5. \E v : type' = [type EXCEPT ![p] = v]
  BY MovesOnlyItself
<1>6. \E v : left' = [left EXCEPT ![p] = v]
  BY MovesOnlyItself
<1>7. \E v : cur' = [cur EXCEPT ![p] = v]
  BY MovesOnlyItself
<1>8. \E v : list' = [list EXCEPT ![p] = v]
  BY MovesList
<1> QED
  BY <1>1, <1>2, <1>3, <1>4, <1>5, <1>6, <1>7, <1>8

\* Where a locker gets its number, its entry, its member, and where it begins to scan.
LEMMA OwnPlace ==
  ASSUME TypeOK, NEW p \in Procs, Moves(p)
  PROVE  /\ Choosing(p)' => EntryDirectory(p) \/ (Choosing(p) /\ name'[p] = name[p])
         /\ HasMember(p)' =>
              \/ CreateMember(p)
              \/ /\ HasMember(p) /\ name'[p] = name[p]
                 /\ number'[p] = number[p] /\ type'[p] = type[p]
         /\ Entered(p)' =>
              \/ Entered(p) /\ name'[p] = name[p]
              \/ /\ pc[p] = "check" /\ name[p] \notin Members /\ CheckMember(p)
                 /\ name'[p] = name[p]
         /\ Scanning(p)' => Scanning(p) \/ List(p)
         /\ Dead(p)' => Crash(p)
         /\ ~Dead(p)
         /\ pc'[p] = "rmD" => Entered(p)
         /\ pc[p] \in Places /\ pc'[p] \in Places
<1> USE DEF Choosing, HasMember, Entered, Scanning, Dead
<1>1. /\ pc \in [Procs -> Places] /\ name \in [Procs -> Names]
      /\ number \in [Procs -> Nat] /\ type \in [Procs -> {"S", "X"}]
  BY DEF TypeOK, Places
<1> USE DEF Places, Goto, Return, mine, scan, files, counts
<1>2. CASE LockDirectory(p)
  BY <1>1, <1>2 DEF LockDirectory
<1>3. CASE LockDirectoryDenied(p)
  BY <1>1, <1>3 DEF LockDirectoryDenied
<1>4. CASE EntryDirectory(p)
  BY <1>1, <1>4 DEF EntryDirectory, Pickable
<1>5. CASE EntryDirectoryFails(p)
  BY <1>1, <1>5 DEF EntryDirectoryFails
<1>6. CASE CheckMember(p)
  BY <1>1, <1>6 DEF CheckMember, NumberIsFree
<1>7. CASE EntryFile(p)
  BY <1>1, <1>7 DEF EntryFile
<1>8. CASE ListNumbers(p)
  BY <1>1, <1>8 DEF ListNumbers
<1>9. CASE ListNumbersFails(p)
  BY <1>1, <1>9 DEF ListNumbersFails
<1>10. CASE NumberScan(p)
  BY <1>1, <1>10 DEF NumberScan
<1>11. CASE RemoveStale(p)
  BY <1>1, <1>11 DEF RemoveStale
<1>12. CASE CreateMember(p)
  BY <1>1, <1>12 DEF CreateMember, MyNumber
<1>13. CASE CreateMemberFails(p)
  BY <1>1, <1>13 DEF CreateMemberFails
<1>14. CASE RemoveEntryDirectory(p)
  BY <1>1, <1>14 DEF RemoveEntryDirectory
<1>15. CASE List(p)
  BY <1>1, <1>15 DEF List
<1>16. CASE Age(p)
  BY <1>1, <1>16 DEF Age
<1>17. CASE Possess(p)
  BY <1>1, <1>17 DEF Possess
<1>18. CASE Waited(p)
  BY <1>1, <1>18 DEF Waited
<1>19. CASE TimesOut(p)
  BY <1>1, <1>19 DEF TimesOut
<1>20. CASE ScanFails(p)
  BY <1>1, <1>20 DEF ScanFails
<1>21. CASE Acquire(p)
  BY <1>1, <1>21 DEF Acquire
<1>22. CASE Unlock(p)
  BY <1>1, <1>22 DEF Unlock
<1>23. CASE RemoveLockDirectory(p)
  BY <1>1, <1>23 DEF RemoveLockDirectory
<1>24. CASE Request(p)
  BY <1>1, <1>24 DEF Request
<1>25. CASE Crash(p)
  BY <1>1, <1>25 DEF Crash
<1> QED
  BY <1>2, <1>3, <1>4, <1>5, <1>6, <1>7, <1>8, <1>9, <1>10, <1>11, <1>12, <1>13, <1>14, <1>15, <1>16, <1>17, <1>18, <1>19, <1>20, <1>21, <1>22, <1>23, <1>24, <1>25 DEF Moves, Step

LEMMA Place ==
  ASSUME TypeOK, NEW p \in Procs, Moves(p), NEW q \in Procs
  PROVE  /\ Choosing(q)' =>
              (q = p /\ EntryDirectory(p)) \/ (Choosing(q) /\ name'[q] = name[q])
         /\ HasMember(q)' =>
              \/ q = p /\ CreateMember(p)
              \/ /\ HasMember(q) /\ name'[q] = name[q]
                 /\ number'[q] = number[q] /\ type'[q] = type[q]
         /\ Entered(q)' =>
              \/ Entered(q) /\ name'[q] = name[q]
              \/ /\ q = p /\ pc[q] = "check" /\ name[q] \notin Members /\ CheckMember(p)
                 /\ name'[q] = name[q]
         /\ Scanning(q)' => Scanning(q) \/ (q = p /\ List(p))
         /\ Dead(q)' => Dead(q) \/ (q = p /\ Crash(p))
         /\ Dead(q) => Dead(q)'
         /\ pc'[q] = "rmD" => Entered(q) \/ pc[q] = "rmD"
<1>1. CASE q = p
  BY <1>1, OwnPlace
<1>2. CASE q # p
  BY <1>2, OthersStay DEF Choosing, HasMember, Entered, Scanning, Dead
<1> QED
  BY <1>1, <1>2

Nobodys(n) == \A q \in Procs : HasNumber(q) => name[q] # n

\* What is discarded by age is nobody's.
LEMMA AgeDiscards ==
  ASSUME LockInv, NEW p \in Procs, Age(p), NEW n \in Names
  PROVE  \/ D'[n] = D[n] /\ M'[n] = M[n]
         \/ D'[n] = None /\ M'[n] = NoMember /\ Nobodys(n)
<1> DEFINE old == {list[p][i].name : i \in {j \in DOMAIN list[p] : TooOld(list[p][j])}}
<1>1. /\ M' = [m \in Names |-> IF m \in old THEN NoMember ELSE M[m]]
      /\ D' = [m \in Names |-> IF m \in old THEN None ELSE D[m]]
  BY DEF Age
<1>2. ASSUME n \in old
      PROVE  Nobodys(n)
  <2>1. PICK i \in DOMAIN list[p] : TooOld(list[p][i]) /\ n = list[p][i].name
    BY <1>2
  <2>2. list[p][i].age > 0 /\ list[p][i].marked
    BY <2>1 DEF TooOld
  <2> QED
    BY <2>1, <2>2 DEF LockInv, ListEntries, Nobodys
<1> HIDE DEF old
<1> QED
  BY <1>1, <1>2

\* What is removed as stale is nobody's: the number was in use by a dead locker only.
LEMMA StaleIsNobodys ==
  ASSUME LockInv, ~Collisions, NEW p \in Procs, RemoveStale(p), cur[p] \in Members
  PROVE  Nobodys(cur[p])
<1> SUFFICES ASSUME NEW q \in Procs, HasNumber(q), name[q] = cur[p] PROVE FALSE
  BY DEF Nobodys
<1>1. Dead(M[cur[p]].owner)
  BY DEF LockInv, StaleMembers, RemoveStale
<1>2. ~HasMember(q)
  <2>1. HasMember(q) => M[cur[p]] = [owner |-> q, number |-> number[q], type |-> type[q]]
    BY DEF LockInv, MemberStays
  <2>2. HasMember(q) => M[cur[p]].owner = q
    BY <2>1
  <2> QED
    BY <1>1, <2>2 DEF Dead, HasMember
<1>3. pc[q] # "check"
  BY DEF RemoveStale, NumberIsTaken
<1>4. Entered(q)
  BY <1>2, <1>3 DEF HasNumber, Choosing, HasMember, Entered
<1> QED
  BY <1>4 DEF LockInv, ChooserOwns

\* A member appears when its locker makes it, under a number that was free, and goes when its
\* locker removes it, or when it is nobody's.
LEMMA MembersStep ==
  ASSUME LockInv, ~Collisions, NEW p \in Procs, Moves(p), NEW n \in Names
  PROVE  \/ M'[n] = M[n]
         \/ /\ CreateMember(p) /\ n = name[p] /\ M[n] = NoMember
            /\ M'[n] = [owner |-> p, number |-> number'[p], type |-> type'[p]]
         \/ /\ M'[n] = NoMember /\ n \in Members
            /\ \/ HasMember(p) /\ ~HasMember(p)' /\ name[p] = n
               \/ Nobodys(n)
<1>1. /\ M \in [Names -> Member \cup {NoMember}]
      /\ name[p] \in Names /\ cur[p] \in Names
      /\ number \in [Procs -> Nat] /\ type \in [Procs -> {"S", "X"}] /\ pc \in [Procs -> Places]
  BY DEF LockInv, TypeOK, Member, Places
<1>2. CASE CreateMember(p)
  <2>1. name[p] \notin Members
    BY <1>2 DEF LockInv, ChooserOwns, Entered, CreateMember
  <2> QED
    BY <1>1, <1>2, <2>1 DEF CreateMember, Members
<1>3. CASE Age(p)
  BY <1>3, AgeDiscards DEF Members
<1>4. CASE RemoveStale(p) /\ M' = [M EXCEPT ![cur[p]] = NoMember]
  BY <1>1, <1>4, StaleIsNobodys DEF Members
<1>5. CASE CreateMemberFails(p) /\ M' = [M EXCEPT ![name[p]] = NoMember]
  <2>1. name[p] \notin Members
    BY <1>5 DEF LockInv, ChooserOwns, Entered, CreateMemberFails
  <2> QED
    BY <1>1, <1>5, <2>1 DEF Members
<1>6. CASE TimesOut(p) /\ M' = [M EXCEPT ![name[p]] = NoMember]
  <2>1. HasMember(p) /\ ~HasMember(p)'
    BY <1>1, <1>6 DEF TimesOut, HasMember, Return, Goto
  <2> QED
    BY <1>1, <1>6, <2>1 DEF Members
<1>7. CASE pc[p] = "held" /\ Unlock(p) /\ M' = [M EXCEPT ![name[p]] = NoMember]
  <2>1. HasMember(p) /\ ~HasMember(p)'
    BY <1>1, <1>7 DEF Unlock, HasMember, Return, Goto
  <2> QED
    BY <1>1, <1>7, <2>1 DEF Members
<1> QED
  BY <1>2, <1>3, <1>4, <1>5, <1>6, <1>7, MovesM

\* An entry directory appears when a locker picks its number, and goes when its locker removes
\* it, or when it is nobody's.
LEMMA EntriesStep ==
  ASSUME LockInv, NEW p \in Procs, Moves(p), NEW n \in Names
  PROVE  \/ D'[n] = D[n]
         \/ EntryDirectory(p) /\ name'[p] = n /\ D[n] = None /\ D'[n] = p
         \/ /\ D'[n] = None
            /\ \/ Choosing(p) /\ ~Choosing(p)' /\ name[p] = n
               \/ Nobodys(n)
<1>1. D \in [Names -> Procs \cup {None}] /\ name \in [Procs -> Names] /\ pc \in [Procs -> Places]
  BY DEF LockInv, TypeOK, Places
<1>2. CASE EntryDirectory(p)
  <2>1. PICK m \in Pickable \ Entering : D' = [D EXCEPT ![m] = p] /\ name' = [name EXCEPT ![p] = m]
    BY <1>2 DEF EntryDirectory
  <2>2. m \in Names /\ D[m] = None
    BY <1>1 DEF Pickable, Entering
  <2>3. name'[p] = m
    BY <1>1, <2>1
  <2>4. CASE n = m
    BY <1>1, <1>2, <2>1, <2>2, <2>3, <2>4
  <2>5. CASE n # m
    BY <1>1, <2>1, <2>5
  <2> QED
    BY <2>4, <2>5
<1>3. CASE Age(p)
  BY <1>3, AgeDiscards
<1>4. CASE D' = [D EXCEPT ![name[p]] = None] /\ Choosing(p) /\ ~Choosing(p)'
  BY <1>1, <1>4
<1> QED
  BY <1>2, <1>3, <1>4, MovesD DEF LockInv

-----------------------------------------------------------------------------
(***************************************************************************)
(* The inductive invariant.                                                *)
(***************************************************************************)
LEMMA NumbersStep ==
  ASSUME TypeOK, NEW p \in Procs, Moves(p), NEW q \in Procs, HasNumber(q)'
  PROVE  \/ q = p /\ EntryDirectory(p)
         \/ HasNumber(q) /\ name'[q] = name[q]
<1>1. CASE q # p
  BY <1>1, OthersStay DEF HasNumber, Choosing, HasMember
<1>2. CASE q = p /\ Choosing(p)'
  BY <1>2, OwnPlace DEF HasNumber
<1>3. CASE q = p /\ HasMember(p)'
  BY <1>3, OwnPlace DEF HasNumber, Choosing, CreateMember, mine, scan, TypeOK
<1> QED
  BY <1>1, <1>2, <1>3 DEF HasNumber

\* Nobody's number stays nobody's, unless somebody picks it.
LEMMA NobodysStays ==
  ASSUME TypeOK, NEW p \in Procs, Moves(p), NEW n \in Names, Nobodys(n),
         EntryDirectory(p) => name'[p] # n
  PROVE  Nobodys(n)'
BY NumbersStep DEF Nobodys

LEMMA MemberStaysStep ==
  ASSUME LockInv, ~Collisions, NEW p \in Procs, Moves(p)
  PROVE  MemberStays'
<1> SUFFICES ASSUME NEW q \in Procs, HasMember(q)'
             PROVE  M'[name'[q]] = [owner |-> q, number |-> number'[q], type |-> type'[q]]
  BY DEF MemberStays
<1>1. TypeOK /\ MemberStays /\ name[q] \in Names /\ name[p] \in Names
  BY DEF LockInv, TypeOK
<1>2. CASE q = p /\ CreateMember(p)
  <2>1. /\ M' = [M EXCEPT ![name[p]] = [owner |-> p, number |-> MyNumber(p), type |-> type[p]]]
        /\ name' = name /\ type' = type /\ number' = [number EXCEPT ![p] = MyNumber(p)]
    BY <1>2 DEF CreateMember
  <2>2. DOMAIN M = Names /\ DOMAIN number = Procs
    BY <1>1 DEF TypeOK
  <2> QED
    BY <1>1, <1>2, <2>1, <2>2
<1>3. CASE ~(q = p /\ CreateMember(p))
  <2>1. /\ HasMember(q) /\ name'[q] = name[q]
        /\ number'[q] = number[q] /\ type'[q] = type[q]
    BY <1>1, <1>3, OwnPlace, OthersStay DEF HasMember
  <2>2. M[name[q]] = [owner |-> q, number |-> number[q], type |-> type[q]]
    BY <1>1, <2>1 DEF MemberStays
  <2>3. M[name[q]] # NoMember
    BY <2>2 DEF NoMember
  <2>4. ~Nobodys(name[q])
    BY <2>1 DEF Nobodys, HasNumber
  <2>5. ASSUME HasMember(p), ~HasMember(p)', name[p] = name[q]
        PROVE  FALSE
    <3>1. M[name[p]] = [owner |-> p, number |-> number[p], type |-> type[p]]
      BY <1>1, <2>5 DEF MemberStays
    <3>2. p = q
      BY <2>2, <2>5, <3>1
    <3> QED
      BY <2>5, <3>2
  <2> QED
    BY <1>1, <2>1, <2>2, <2>3, <2>4, <2>5, MembersStep
<1> QED
  BY <1>2, <1>3

LEMMA ChooserOwnsStep ==
  ASSUME LockInv, ~Collisions, NEW p \in Procs, Moves(p)
  PROVE  ChooserOwns'
<1>0. /\ TypeOK /\ ChooserOwns /\ MemberStays /\ None \notin Procs
      /\ D \in [Names -> Procs \cup {None}] /\ name \in [Procs -> Names]
  BY DEF LockInv, TypeOK
<1>1. ASSUME NEW q \in Procs, Choosing(q)', ~(q = p /\ EntryDirectory(p))
      PROVE  Choosing(q) /\ name'[q] = name[q] /\ D[name[q]] = q /\ name[q] \in Names
  <2>1. Choosing(q) /\ name'[q] = name[q]
    BY <1>0, <1>1, Place
  <2> QED
    BY <1>0, <2>1 DEF ChooserOwns
<1>2. ASSUME NEW q \in Procs, HasMember(q)
      PROVE  name[q] \in Members
  <2>1. M[name[q]] = [owner |-> q, number |-> number[q], type |-> type[q]]
    BY <1>0, <1>2 DEF MemberStays
  <2> QED
    BY <1>0, <2>1 DEF Members, NoMember
<1>3. EntryDirectory(p) =>
        /\ name'[p] \in Names /\ D[name'[p]] = None /\ D'[name'[p]] = p
        /\ \A q \in Procs : Entered(q)' => Entered(q) /\ q # p /\ name'[q] = name[q]
  <2>1. ASSUME EntryDirectory(p)
        PROVE  name'[p] \in Names /\ D[name'[p]] = None /\ D'[name'[p]] = p /\ pc'[p] = "check"
    BY <1>0, <2>1 DEF EntryDirectory, Pickable, Entering, Goto, TypeOK
  <2> QED
    BY <1>0, <2>1, Place DEF Entered, EntryDirectory, CheckMember
<1>4. ASSUME NEW q \in Procs, Choosing(q)'
      PROVE  D'[name'[q]] = q
  <2>1. CASE q = p /\ EntryDirectory(p)
    BY <1>3, <2>1
  <2>2. CASE ~(q = p /\ EntryDirectory(p))
    <3>1. Choosing(q) /\ name'[q] = name[q] /\ D[name[q]] = q /\ name[q] \in Names
      BY <1>1, <1>4, <2>2
    <3>2. ~Nobodys(name[q])
      BY <3>1 DEF Nobodys, HasNumber
    <3>3. Choosing(p) /\ name[p] = name[q] => p = q
      BY <1>0, <3>1 DEF ChooserOwns
    <3> QED
      BY <1>0, <1>4, <3>1, <3>2, <3>3, EntriesStep
  <2> QED
    BY <2>1, <2>2
<1>5. ASSUME NEW q \in Procs, Entered(q)'
      PROVE  /\ Choosing(q) /\ name[q] \notin Members /\ name'[q] = name[q]
             /\ Entered(q) \/ (q = p /\ CheckMember(p))
  <2>1. /\ name'[q] = name[q]
        /\ Entered(q) \/ (q = p /\ CheckMember(p) /\ pc[q] = "check" /\ name[q] \notin Members)
    BY <1>0, <1>5, Place
  <2> QED
    BY <1>0, <2>1 DEF ChooserOwns, Entered, Choosing
<1>6. ASSUME NEW q \in Procs, Entered(q)'
      PROVE  name'[q] \notin Members'
  <2>1. name[q] \notin Members /\ Choosing(q) /\ name'[q] = name[q] /\ name[q] \in Names
    BY <1>0, <1>5, <1>6
  <2>2. ~(CreateMember(p) /\ name[q] = name[p])
    <3>1. CreateMember(p) => Choosing(p) /\ ~Entered(p)'
      BY <1>0 DEF CreateMember, Choosing, Entered, Goto, TypeOK
    <3> QED
      BY <1>0, <1>6, <2>1, <3>1 DEF ChooserOwns
  <2> QED
    BY <1>0, <2>1, <2>2, MembersStep DEF Members
<1>7. ASSUME NEW r \in Procs, NEW q \in Procs, r # q,
             (Entered(r) \/ pc[r] = "rmD")', HasNumber(q)'
      PROVE  name'[r] # name'[q]
  <2>1. Choosing(r)' /\ ~(r = p /\ EntryDirectory(p))
    BY <1>0, <1>7 DEF Entered, Choosing, EntryDirectory, Goto, TypeOK
  <2>2. Choosing(r) /\ name'[r] = name[r] /\ D[name[r]] = r /\ name[r] \in Names
    BY <1>1, <2>1
  <2>3. CASE q = p /\ EntryDirectory(p)
    BY <1>0, <1>3, <2>2, <2>3
  <2>4. CASE ~(q = p /\ EntryDirectory(p))
    <3>1. HasNumber(q) /\ name'[q] = name[q]
      BY <1>0, <1>7, <2>4, NumbersStep
    <3>2. CASE Choosing(q)
      BY <1>0, <1>7, <2>2, <3>1, <3>2 DEF ChooserOwns
    <3>3. CASE HasMember(q)
      <4>1. CASE Entered(r)'
        BY <1>2, <1>5, <2>2, <3>1, <3>3, <4>1
      <4>2. CASE pc'[r] = "rmD"
        <5>1. Entered(r) \/ pc[r] = "rmD"
          BY <1>0, <4>2, Place
        <5> QED
          BY <1>0, <1>7, <2>2, <3>1, <5>1 DEF ChooserOwns
      <4> QED
        BY <1>7, <4>1, <4>2
    <3> QED
      BY <3>1, <3>2, <3>3 DEF HasNumber
  <2> QED
    BY <2>3, <2>4
<1> QED
  BY <1>4, <1>6, <1>7 DEF ChooserOwns

\* Who stops choosing removes its entry directory, unless it crashes.
LEMMA LeavesEntry ==
  ASSUME TypeOK, NEW p \in Procs, Moves(p), Choosing(p), ~Choosing(p)', ~Crash(p)
  PROVE  D' = [D EXCEPT ![name[p]] = None]
<1>1. pc \in [Procs -> Places]
  BY DEF TypeOK, Places
<1> USE DEF Choosing, Goto
<1>2. \/ CheckMember(p) \/ EntryFile(p) \/ ListNumbers(p) \/ ListNumbersFails(p) \/ NumberScan(p)
      \/ RemoveStale(p) \/ CreateMember(p) \/ CreateMemberFails(p) \/ RemoveEntryDirectory(p)
  BY DEF Moves, Step, LockDirectory, LockDirectoryDenied, EntryDirectory, EntryDirectoryFails,
         List, Age, Possess, Waited, TimesOut, ScanFails, Acquire, Unlock, RemoveLockDirectory,
         Request
<1>3. CASE CheckMember(p)
  BY <1>1, <1>3 DEF CheckMember, RemoveD
<1>4. CASE EntryFile(p)
  BY <1>1, <1>4 DEF EntryFile, RemoveD
<1>5. CASE ListNumbers(p) \/ NumberScan(p) \/ RemoveStale(p) \/ CreateMember(p)
  BY <1>1, <1>5 DEF ListNumbers, NumberScan, RemoveStale, CreateMember
<1>6. CASE ListNumbersFails(p) \/ CreateMemberFails(p) \/ RemoveEntryDirectory(p)
  BY <1>6 DEF ListNumbersFails, CreateMemberFails, RemoveEntryDirectory, RemoveD
<1> QED
  BY <1>2, <1>3, <1>4, <1>5, <1>6

LEMMA EntryIsOwnedStep ==
  ASSUME TypeOK, EntryIsOwned, NEW p \in Procs, Moves(p)
  PROVE  EntryIsOwned'
<1> SUFFICES ASSUME NEW n \in Names, NEW d \in Procs, D'[n] = d
             PROVE  Dead(d)' \/ (Choosing(d)' /\ name'[d] = n)
  BY DEF EntryIsOwned, Dead, Choosing
<1>0. D \in [Names -> Procs \cup {None}] /\ name \in [Procs -> Names] /\ pc \in [Procs -> Places]
  BY DEF TypeOK, Places
<1>1. CASE EntryDirectory(p) /\ D'[n] # D[n]
  BY <1>0, <1>1 DEF EntryDirectory, Pickable, Goto, Choosing
<1>2. CASE D'[n] = D[n]
  <2>1. CASE Dead(d)
    BY <1>2, <2>1, Place
  <2>2. CASE Choosing(d) /\ name[d] = n
    <3>1. CASE d # p
      <4>1. pc'[d] = pc[d] /\ name'[d] = name[d]
        BY <3>1, OthersStay
      <4> QED
        BY <2>2, <4>1 DEF Choosing
    <3>2. CASE d = p /\ ~Choosing(p)'
      <4>1. CASE Crash(p)
        BY <1>0, <3>2, <4>1 DEF Crash, Return, Goto, Dead
      <4>2. CASE ~Crash(p)
        <5>1. D' = [D EXCEPT ![name[p]] = None]
          BY <2>2, <3>2, <4>2, LeavesEntry
        <5>2. D'[n] = None
          BY <1>0, <2>2, <3>2, <5>1
        <5> QED
          BY <5>2, FileLockAssumption
      <4> QED
        BY <4>1, <4>2
    <3>3. CASE d = p /\ Choosing(p)'
      <4>1. ~EntryDirectory(p)
        BY <2>2, <3>3 DEF EntryDirectory, Choosing
      <4>2. name'[p] = name[p]
        BY <3>3, <4>1, Place
      <4> QED
        BY <2>2, <3>3, <4>2
    <3> QED
      BY <3>1, <3>2, <3>3
  <2> QED
    BY <1>2, <2>1, <2>2 DEF EntryIsOwned
<1>3. CASE D' = [D EXCEPT ![name[p]] = None] /\ D'[n] # D[n]
  BY <1>0, <1>3
<1>4. CASE Age(p) /\ D'[n] # D[n]
  BY <1>4 DEF Age
<1> QED
  BY <1>1, <1>2, <1>3, <1>4, MovesD

LEMMA DeadEntriesStep ==
  ASSUME LockInv, ~Collisions, NEW p \in Procs, Moves(p)
  PROVE  DeadEntries'
<1> SUFFICES ASSUME NEW n \in Names, NEW d \in Procs, D'[n] = d, Dead(d)',
                    NEW q \in Procs, HasNumber(q)', name'[q] = n
             PROVE  FALSE
  BY DEF DeadEntries, Dead
<1>0. /\ TypeOK /\ ChooserOwns /\ EntryIsOwned /\ DeadEntries /\ MemberStays /\ None \notin Procs
      /\ D \in [Names -> Procs \cup {None}] /\ name \in [Procs -> Names] /\ pc \in [Procs -> Places]
  BY DEF LockInv, TypeOK, Places
<1>1. EntryDirectory(p) => name'[p] \in Names /\ D[name'[p]] = None /\ ~Dead(p)'
  BY <1>0 DEF EntryDirectory, Pickable, Entering, Goto, Dead
<1>2. D[n] = d
  BY <1>0, <1>1, EntriesStep
<1>3. HasNumber(q) /\ name[q] = n
  BY <1>0, <1>1, <1>2, NumbersStep
<1>4. ~Dead(d)
  BY <1>0, <1>2, <1>3 DEF DeadEntries
<1>5. d = p /\ Crash(p) /\ Dead(p)'
  BY <1>0, <1>4, Place
<1>6. Choosing(p) /\ name[p] = n
  BY <1>0, <1>2, <1>4, <1>5 DEF EntryIsOwned
<1>7. q # p
  BY <1>5 DEF Dead, HasNumber, Choosing, HasMember
<1>8. ~Choosing(q)
  BY <1>0, <1>2, <1>3, <1>5, <1>7 DEF ChooserOwns
<1>9. name[q] \in Members
  <2>1. M[name[q]] = [owner |-> q, number |-> number[q], type |-> type[q]]
    BY <1>0, <1>3, <1>8 DEF MemberStays, HasNumber
  <2> QED
    BY <1>0, <2>1 DEF Members, NoMember
<1>10. pc[p] # "check"
  BY <1>3, <1>5, <1>6, <1>9 DEF Crash, NumberIsTaken
<1> QED
  BY <1>0, <1>3, <1>6, <1>7, <1>10 DEF ChooserOwns, Choosing, Entered

Forgotten(n) == D[n] = None \/ Dead(D[n])

\* A number that was forgotten stays so until it is picked.
LEMMA ForgottenStays ==
  ASSUME LockInv, NEW p \in Procs, Moves(p), NEW n \in Names, Forgotten(n),
         EntryDirectory(p) => name'[p] # n
  PROVE  Forgotten(n)'
<1>0. TypeOK /\ D \in [Names -> Procs \cup {None}]
  BY DEF LockInv, TypeOK
<1>1. D'[n] = D[n] \/ D'[n] = None
  BY EntriesStep
<1>2. CASE D'[n] = None
  BY <1>2 DEF Forgotten
<1>3. CASE D'[n] = D[n] /\ D[n] # None
  <2>1. PICK d \in Procs : D[n] = d
    BY <1>0, <1>3
  <2>2. Dead(d)'
    BY <1>0, <1>3, <2>1, Place DEF Forgotten
  <2> QED
    BY <1>3, <2>1, <2>2 DEF Forgotten, Dead
<1> QED
  BY <1>1, <1>2, <1>3

\* What ListEntries says of one entry.
EntryOk(e) == e.age > 0 => Forgotten(e.name) /\ (e.marked => Nobodys(e.name))

LEMMA EntryOkStays ==
  ASSUME LockInv, NEW p \in Procs, Moves(p), NEW e \in Aged, EntryOk(e),
         EntryDirectory(p) => name'[p] # e.name
  PROVE  EntryOk(e)'
<1>1. TypeOK /\ e.name \in Names
  BY DEF LockInv, Aged
<1>2. Forgotten(e.name) => Forgotten(e.name)'
  BY <1>1, ForgottenStays
<1>3. Nobodys(e.name) => Nobodys(e.name)'
  BY <1>1, NobodysStays
<1> QED
  BY <1>2, <1>3 DEF EntryOk

LEMMA ListEntriesStep ==
  ASSUME LockInv, ~Collisions, ~Stalls, NEW p \in Procs, Moves(p)
  PROVE  ListEntries'
<1> SUFFICES ASSUME NEW q \in Procs, NEW i \in DOMAIN list'[q], NEW e, e = list'[q][i]
             PROVE  EntryOk(e)'
  BY DEF ListEntries, EntryOk, Forgotten, Nobodys
<1>0. TypeOK /\ list \in [Procs -> Seq(Aged)]
  BY DEF LockInv, TypeOK
<1>1. ASSUME NEW r \in Procs, NEW j \in DOMAIN list[r]
      PROVE  /\ list[r][j] \in Aged /\ EntryOk(list[r][j])
             /\ EntryDirectory(p) => name'[p] # list[r][j].name
  <2>1. list[r][j] \in Aged
    BY <1>0
  <2>2. EntryOk(list[r][j])
    BY DEF LockInv, ListEntries, EntryOk, Forgotten, Nobodys
  <2>3. ASSUME EntryDirectory(p)
        PROVE  name'[p] # list[r][j].name
    <3>1. name'[p] \in Pickable
      BY <1>0, <2>3 DEF EntryDirectory, TypeOK
    <3> QED
      BY <3>1 DEF Pickable
  <2> QED
    BY <2>1, <2>2, <2>3
<1>2. CASE \E j \in DOMAIN list[q] : e = list[q][j]
  BY <1>1, <1>2, EntryOkStays
<1>3. CASE q = p /\ List(p)
  <2>1. PICK s \in NewEntries(list[p]) : list' = [list EXCEPT ![p] = Activated(list[p], s)]
    BY <1>3 DEF List
  <2>2. list'[p] = Activated(list[p], s)
    BY <1>0, <2>1
  <2>3. /\ e \in Aged
        /\ \/ e.age = 0
           \/ \E j \in DOMAIN list[p] :
                /\ e.name = list[p][j].name /\ e.age = list[p][j].age
                /\ e.marked => list[p][j].marked \/ list[p][j].name \in Entering
    <3> DEFINE a == Activated(list[p], s)
    <3>1. list[p] \in Seq(Aged)
      BY <1>0
    <3>2. i \in DOMAIN a /\ e = a[i]
      BY <1>3, <2>2
    <3>3. /\ a \in Seq(Aged)
          /\ \A k \in DOMAIN a :
               \/ a[k].age = 0
               \/ \E j \in DOMAIN list[p] :
                    /\ a[k].name = list[p][j].name /\ a[k].age = list[p][j].age
                    /\ a[k].marked => list[p][j].marked \/ list[p][j].name \in Entering
      BY <1>0, <3>1, ActivatedType
    <3> HIDE DEF a
    <3> QED
      BY <3>2, <3>3
  <2>4. EntryOk(e)
    <3>1. CASE e.age = 0
      BY <3>1 DEF EntryOk
    <3>2. CASE e.age # 0
      <4>1. PICK j \in DOMAIN list[p] :
              /\ e.name = list[p][j].name /\ e.age = list[p][j].age
              /\ e.marked => list[p][j].marked \/ list[p][j].name \in Entering
        BY <2>3, <3>2
      <4>2. EntryOk(list[p][j])
        BY <1>1
      <4>3. Forgotten(e.name) /\ e.name \in Entering => Nobodys(e.name)
        BY <1>0 DEF LockInv, DeadEntries, Forgotten, Entering, Nobodys, TypeOK
      <4> QED
        BY <4>1, <4>2, <4>3 DEF EntryOk
    <3> QED
      BY <3>1, <3>2
  <2>5. ~EntryDirectory(p)
    BY <1>3 DEF List, EntryDirectory
  <2> QED
    BY <2>3, <2>4, <2>5, EntryOkStays
<1>4. CASE q = p /\ Age(p)
  <2>1. PICK k \in Kept(list[p]) :
          list' = [list EXCEPT ![p] = [j \in DOMAIN k |-> Aging(list[p][k[j]])]]
    BY <1>4 DEF Age
  <2>2. list'[p] = [j \in DOMAIN k |-> Aging(list[p][k[j]])]
    BY <1>0, <2>1
  <2>3. PICK j \in DOMAIN list[p] : e = Aging(list[p][j])
    BY <1>0, <1>4, <2>2, KeptType
  <2> DEFINE was == list[p][j]
  <2>4. /\ was \in Aged /\ e \in Aged /\ e.name = was.name
        /\ \/ e = was
           \/ e.marked = FALSE /\ (e.age = was.age \/ Forgotten(e.name))
    <3>1. was \in Aged /\ e = Aging(was)
      BY <1>1, <2>3
    <3>2. /\ Aging(was) \in Aged /\ Aging(was).name = was.name
          /\ \/ Aging(was) = was
             \/ /\ Aging(was).marked = FALSE
                /\ \/ Aging(was).age = was.age
                   \/ D[was.name] = None \/ Dead(D[was.name]) \/ Stalls
      <4> HIDE DEF was
      <4> QED
        BY <1>0, <3>1, AgingType
    <3> HIDE DEF was
    <3> QED
      BY <3>1, <3>2 DEF Forgotten
  <2>5. EntryOk(e)
    BY <1>1, <2>4 DEF EntryOk
  <2>6. ~EntryDirectory(p)
    BY <1>4 DEF Age, EntryDirectory
  <2> QED
    BY <2>4, <2>5, <2>6, EntryOkStays
<1>5. CASE q # p \/ list' = list \/ list' = [list EXCEPT ![p] = <<>>]
  <2>1. list'[q] = list[q] \/ list'[q] = <<>>
    BY <1>0, <1>5, OthersStay
  <2>2. DOMAIN <<>> = {}
    OBVIOUS
  <2>3. list'[q] = list[q] /\ i \in DOMAIN list[q]
    BY <2>1, <2>2
  <2> QED
    BY <1>2, <2>3
<1>6. List(p) \/ Age(p) \/ UNCHANGED list \/ list' = [list EXCEPT ![p] = <<>>]
  BY MovesListBy
<1> QED
  BY <1>3, <1>4, <1>5, <1>6

\* A scan comes to these places with the file that it looks at.
LEMMA OwnScan ==
  ASSUME TypeOK, StaleMembers, NEW p \in Procs, Moves(p)
  PROVE  /\ pc'[p] \in {"stale", "remove", "wait"} => cur'[p] \in left'[p]
         /\ pc'[p] \in {"stale", "remove"} => Stale(p, cur'[p]) /\ M' = M
<1>0. /\ pc \in [Procs -> Places] /\ cur \in [Procs -> Names] /\ left \in [Procs -> SUBSET Names]
  BY DEF TypeOK, Places
<1>1. \/ NumberScan(p) \/ Possess(p) \/ Waited(p)
      \/ pc'[p] \notin {"stale", "remove", "wait"}
  BY <1>0 DEF Moves, Step, Goto, Return,
         LockDirectory, LockDirectoryDenied, EntryDirectory, EntryDirectoryFails, CheckMember,
         EntryFile, ListNumbers, ListNumbersFails, RemoveStale, CreateMember,
         CreateMemberFails, RemoveEntryDirectory, List, Age, TimesOut,
         ScanFails, Acquire, Unlock, RemoveLockDirectory, Request, Crash
<1>2. CASE NumberScan(p)
  BY <1>0, <1>2 DEF NumberScan, Goto, files
<1>3. CASE Possess(p)
  BY <1>0, <1>3 DEF Possess, Goto, files
<1>4. CASE Waited(p)
  BY <1>0, <1>4 DEF Waited, Goto, files, StaleMembers
<1> QED
  BY <1>1, <1>2, <1>3, <1>4

LEMMA StaleMembersStep ==
  ASSUME LockInv, ~Collisions, NEW p \in Procs, Moves(p)
  PROVE  StaleMembers'
<1> SUFFICES ASSUME NEW r \in Procs, NEW n, n = cur'[r]
             PROVE  /\ pc'[r] \in {"stale", "remove", "wait"} => n \in left'[r]
                    /\ pc'[r] \in {"stale", "remove"} =>
                         IF n \in Members' THEN pc'[M'[n].owner] = "dead" ELSE Nobodys(n)'
  BY DEF StaleMembers, Nobodys, Dead
<1>0. /\ TypeOK /\ MemberStays /\ StaleMembers
      /\ pc \in [Procs -> Places] /\ cur \in [Procs -> Names] /\ left \in [Procs -> SUBSET Names]
      /\ M \in [Names -> Member \cup {NoMember}]
  BY DEF LockInv, TypeOK, Places, Member
<1>a. n \in Members => M[n].owner \in Procs
  BY <1>0 DEF Members, Member
<1>1. CASE r = p
  <2>1. pc'[p] \in {"stale", "remove"} => n \in Members /\ Dead(M[n].owner) /\ M' = M
    BY <1>0, <1>1, OwnScan DEF Stale
  <2>2. ASSUME pc'[p] \in {"stale", "remove"}
        PROVE  pc'[M'[n].owner] = "dead"
    <3>1. PICK o \in Procs : o = M[n].owner
      BY <1>a, <2>1, <2>2
    <3>2. Dead(o)'
      BY <1>0, <2>1, <2>2, <3>1, Place
    <3> QED
      BY <2>1, <2>2, <3>1, <3>2 DEF Dead
  <2> QED
    BY <1>0, <1>1, <2>1, <2>2, OwnScan DEF Dead, Members
<1>2. CASE r # p
  <2>1. pc'[r] = pc[r] /\ n = cur[r] /\ left'[r] = left[r] /\ n \in Names
    BY <1>0, <1>2, OthersStay
  <2>2. ASSUME pc[r] \in {"stale", "remove"}
        PROVE  EntryDirectory(p) => name'[p] # n
    <3>1. n \in left[r]
      BY <1>0, <2>1, <2>2 DEF StaleMembers
    <3>2. EntryDirectory(p) => name'[p] \in Pickable
      BY <1>0 DEF EntryDirectory, TypeOK
    <3> QED
      BY <3>1, <3>2 DEF Pickable
  <2>3. ASSUME pc[r] \in {"stale", "remove"}, n \in Members
        PROVE  IF n \in Members' THEN pc'[M'[n].owner] = "dead" ELSE Nobodys(n)'
    <3>1. Dead(M[n].owner)
      BY <1>0, <2>1, <2>3 DEF StaleMembers
    <3>2. CASE M'[n] = M[n]
      <4>1. PICK o \in Procs : o = M[n].owner
        BY <1>a, <2>3
      <4>2. Dead(o)'
        BY <1>0, <3>1, <4>1, Place
      <4> QED
        BY <2>1, <2>3, <3>2, <4>1, <4>2 DEF Members, Dead
    <3>3. CASE M'[n] = NoMember /\ Nobodys(n)
      <4>1. Nobodys(n)'
        BY <1>0, <2>1, <2>2, <2>3, <3>3, NobodysStays
      <4> QED
        BY <3>3, <4>1 DEF Members
    <3>4. ~(HasMember(p) /\ name[p] = n)
      <4>1. ASSUME HasMember(p), name[p] = n
            PROVE  FALSE
        <5>1. M[n] = [owner |-> p, number |-> number[p], type |-> type[p]]
          BY <1>0, <4>1 DEF MemberStays
        <5>2. Dead(p)
          BY <3>1, <5>1
        <5> QED
          BY <4>1, <5>2 DEF Dead, HasMember
      <4> QED
        BY <4>1
    <3> QED
      BY <2>1, <2>3, <3>2, <3>3, <3>4, MembersStep DEF Members
  <2>4. ASSUME pc[r] \in {"stale", "remove"}, n \notin Members
        PROVE  n \notin Members' /\ Nobodys(n)'
    <3>1. Nobodys(n)
      BY <1>0, <2>1, <2>4 DEF StaleMembers, Nobodys
    <3>2. Nobodys(n)'
      BY <1>0, <2>1, <2>2, <2>4, <3>1, NobodysStays
    <3>3. ~(CreateMember(p) /\ n = name[p])
      BY <3>1 DEF Nobodys, HasNumber, Choosing, CreateMember
    <3> QED
      BY <2>1, <2>4, <3>2, <3>3, MembersStep DEF Members
  <2> QED
    BY <1>0, <2>1, <2>3, <2>4 DEF StaleMembers
<1> QED
  BY <1>1, <1>2

LEMMA MemberFields ==
  ASSUME TypeOK, MemberStays, NEW p \in Procs, HasMember(p)
  PROVE  /\ name[p] \in Members /\ M[name[p]].owner = p
         /\ M[name[p]].number = number[p] /\ M[name[p]].type = type[p]
<1>1. M[name[p]] = [owner |-> p, number |-> number[p], type |-> type[p]] /\ name[p] \in Names
  BY DEF MemberStays, TypeOK
<1> QED
  BY <1>1 DEF Members, NoMember

LEMMA MemberNumber ==
  ASSUME TypeOK, NEW n \in Names
  PROVE  M[n].number \in Nat
<1>1. M[n] \in Member \/ M[n] = NoMember
  BY DEF TypeOK, Member
<1> QED
  BY <1>1 DEF Member, NoMember

\* The own step of a scan: nobody is choosing where it begins, and then it drops from its list
\* only members that are not before the own one.
LEMMA OwnLeft ==
  ASSUME LockInv, ~Collisions, NEW p \in Procs, Moves(p), Scanning(p)'
  PROVE  /\ List(p) => Entering = {}
         /\ \A n \in Members' : Before(n, p)' => n \in left'[p]
         /\ pc'[p] = "held" => left'[p] = {}
<1>0. /\ TypeOK /\ MemberStays /\ LeftIsBefore
      /\ pc \in [Procs -> Places] /\ cur \in [Procs -> Names] /\ left \in [Procs -> SUBSET Names]
      /\ list \in [Procs -> Seq(Aged)] /\ M \in [Names -> Member \cup {NoMember}]
      /\ name \in [Procs -> Names] /\ number \in [Procs -> Nat]
  BY DEF LockInv, TypeOK, Places, Member
<1>1. CASE List(p)
  <2>1. PICK s \in NewEntries(list[p]) :
          LET l == Activated(list[p], s)
          IN IF NobodyEnters(l)
             THEN left' = [left EXCEPT ![p] = Members \ {name[p]}] /\ Goto(p, "possess")
             ELSE left' = left /\ Goto(p, "age")
    BY <1>1 DEF List
  <2>2. /\ Activated(list[p], s) = <<>>
        /\ left'[p] = Members \ {name[p]} /\ pc'[p] = "possess"
    BY <1>0, <2>1 DEF NobodyEnters, Goto, Scanning
  <2>3. Entering = {}
    BY <1>0, <2>2, ActivatedType
  <2>4. M' = M /\ name' = name /\ number' = number
    BY <1>1 DEF List, mine, files
  <2>5. M[name[p]].number = number[p]
    BY <1>0, <1>1, MemberFields DEF List, HasMember
  <2>6. ASSUME NEW n \in Members', Before(n, p)'
        PROVE  n \in Members \ {name[p]}
    BY <1>0, <2>4, <2>5, <2>6 DEF Members, Before
  <2> QED
    BY <2>2, <2>3, <2>6
<1>2. CASE ~List(p)
  <2>1. Scanning(p) /\ (RemoveStale(p) \/ Possess(p) \/ Waited(p) \/ Acquire(p))
    <3>1. Scanning(p)
      BY <1>0, <1>2, Place
    <3> QED
      BY <1>0, <1>2, <3>1 DEF Scanning, Moves, Step, Goto, Return,
         LockDirectory, LockDirectoryDenied, EntryDirectory, EntryDirectoryFails, CheckMember,
         EntryFile, ListNumbers, ListNumbersFails, NumberScan, CreateMember,
         CreateMemberFails, RemoveEntryDirectory, Age, TimesOut,
         ScanFails, Unlock, RemoveLockDirectory, Request, Crash
  <2>2. UNCHANGED <<name, number, type>>
    BY <2>1 DEF RemoveStale, Possess, Waited, Acquire, mine
  <2>3. \A n \in Members : Before(n, p) => n \in left[p]
    BY <1>0, <2>1 DEF LeftIsBefore
  <2>4. CASE RemoveStale(p)
    <3>1. /\ M' = [M EXCEPT ![cur[p]] = NoMember] /\ left'[p] = left[p] \ {cur[p]}
          /\ pc'[p] # "held"
      BY <1>0, <2>4 DEF RemoveStale, Goto
    <3>2. \A n \in Members' : n \in Members /\ n # cur[p] /\ M'[n] = M[n]
      BY <1>0, <3>1 DEF Members
    <3> QED
      BY <1>2, <2>2, <2>3, <3>1, <3>2 DEF Before
  <2>5. ASSUME M' = M
        PROVE  Members' = Members /\ \A n \in Names : Before(n, p)' = Before(n, p)
    BY <2>2, <2>5 DEF Members, Before
  <2>6. CASE Possess(p)
    <3>1. PICK n \in left[p] : left'[p] = left[p] \/ (~Before(n, p) /\ left'[p] = left[p] \ {n})
      BY <1>0, <2>6 DEF Possess
    <3>2. pc'[p] # "held" /\ M' = M
      BY <1>0, <2>6 DEF Possess, Goto, files
    <3> QED
      BY <1>2, <2>3, <2>5, <3>1, <3>2 DEF Members
  <2>7. CASE Waited(p)
    <3>1. left'[p] = left[p] \/ (cur[p] \notin Members /\ left'[p] = left[p] \ {cur[p]})
      BY <1>0, <2>7 DEF Waited
    <3>2. pc'[p] # "held" /\ M' = M
      BY <1>0, <2>7 DEF Waited, Goto, files
    <3> QED
      BY <1>2, <2>3, <2>5, <3>1, <3>2 DEF Members
  <2>8. CASE Acquire(p)
    <3>1. left' = left /\ M' = M /\ left[p] = {}
      BY <2>8 DEF Acquire, files, scan
    <3> QED
      BY <1>2, <2>3, <2>5, <3>1 DEF Members
  <2> QED
    BY <1>2, <2>1, <2>4, <2>6, <2>7, <2>8
<1> QED
  BY <1>1, <1>2

LEMMA LeftIsBeforeStep ==
  ASSUME LockInv, ~Collisions, NEW p \in Procs, Moves(p)
  PROVE  LeftIsBefore'
<1>0. /\ TypeOK /\ LeftIsBefore /\ ChoosesHigher
      /\ M \in [Names -> Member \cup {NoMember}] /\ number \in [Procs -> Nat]
  BY DEF LockInv, TypeOK, Member
<1>1. ASSUME NEW r \in Procs, r # p, Scanning(r)'
      PROVE  /\ \A n \in Members' : Before(n, r)' => n \in left'[r]
             /\ pc'[r] = "held" => left'[r] = {}
  <2>1. /\ pc'[r] = pc[r] /\ name'[r] = name[r] /\ number'[r] = number[r] /\ type'[r] = type[r]
        /\ left'[r] = left[r]
    BY <1>0, <1>1, OthersStay
  <2>2. Scanning(r) /\ \A n \in Members : Before(n, r) => n \in left[r]
    BY <1>0, <1>1, <2>1 DEF Scanning, LeftIsBefore
  <2>3. ASSUME NEW n \in Members', Before(n, r)'
        PROVE  n \in left'[r]
    <3>1. CASE M'[n] = M[n]
      BY <2>1, <2>2, <2>3, <3>1 DEF Members, Before
    <3>2. ~(CreateMember(p) /\ M'[n] = [owner |-> p, number |-> number'[p], type |-> type'[p]])
      <4> SUFFICES ASSUME CreateMember(p),
                          M'[n] = [owner |-> p, number |-> number'[p], type |-> type'[p]]
                   PROVE  FALSE
        OBVIOUS
      <4>1. number'[p] = number[p] + 1 /\ pc[p] = "number" /\ left[p] = {}
        BY <1>0 DEF CreateMember, MyNumber
      <4>2. number[p] >= number[r]
        BY <1>0, <2>2, <4>1 DEF ChoosesHigher
      <4>3. M'[n].number = number[p] + 1
        BY <4>1
      <4> QED
        BY <1>0, <2>1, <2>3, <4>2, <4>3 DEF Before
    <3>3. M'[n] # NoMember /\ n \in Names
      BY DEF Members
    <3> QED
      BY <3>1, <3>2, <3>3, MembersStep
  <2> QED
    BY <1>0, <2>1, <2>3 DEF LeftIsBefore
<1> QED
  BY <1>1, OwnLeft DEF LeftIsBefore, Scanning

LEMMA ChoosesHigherStep ==
  ASSUME LockInv, ~Collisions, NEW p \in Procs, Moves(p)
  PROVE  ChoosesHigher'
<1> SUFFICES ASSUME NEW r \in Procs, NEW q \in Procs, Scanning(r)',
                    pc'[q] \in {"number", "remove"}
             PROVE  name'[r] \in left'[q] \/ number'[q] >= number'[r]
  BY DEF ChoosesHigher
<1>0. /\ TypeOK /\ ChoosesHigher /\ MemberStays /\ ChooserOwns /\ StaleMembers
      /\ M \in [Names -> Member \cup {NoMember}] /\ number \in [Procs -> Nat]
      /\ left \in [Procs -> SUBSET Names] /\ pc \in [Procs -> Places]
      /\ name \in [Procs -> Names] /\ None \notin Procs
  BY DEF LockInv, TypeOK, Member, Places
<1>1. r # q
  BY DEF Scanning
<1>2. Scanning(r) /\ HasMember(r)
  <2>1. CASE r = p /\ List(p)
    <3>1. pc[q] = pc'[q]
      BY <1>0, <1>1, <2>1, OthersStay
    <3>2. D[name[q]] = q
      BY <1>0, <3>1 DEF ChooserOwns, Choosing
    <3>3. name[q] \in Entering
      BY <1>0, <3>2 DEF Entering
    <3> QED
      BY <2>1, <3>3, OwnLeft
  <2> QED
    <3>1. Scanning(r)
      BY <1>0, <2>1, Place
    <3> QED
      BY <3>1 DEF Scanning, HasMember
<1>3. name'[r] = name[r] /\ number'[r] = number[r]
  <2>1. HasMember(r)' /\ ~CreateMember(r)
    BY <1>2 DEF Scanning, HasMember, CreateMember
  <2> QED
    BY <1>0, <2>1, Place
<1>4. name[r] \in Members /\ M[name[r]].owner = r /\ M[name[r]].number = number[r]
  BY <1>0, <1>2, MemberFields
<1>5. CASE q # p
  <2>1. pc'[q] = pc[q] /\ left'[q] = left[q] /\ number'[q] = number[q]
    BY <1>0, <1>5, OthersStay
  <2> QED
    BY <1>0, <1>2, <1>3, <2>1 DEF ChoosesHigher
<1>6. CASE q = p
  <2>1. ListNumbers(p) \/ NumberScan(p) \/ RemoveStale(p)
    BY <1>0, <1>6 DEF Moves, Step, Goto, Return,
         LockDirectory, LockDirectoryDenied, EntryDirectory, EntryDirectoryFails, CheckMember,
         EntryFile, ListNumbersFails, CreateMember, CreateMemberFails, RemoveEntryDirectory,
         List, Age, Possess, Waited, TimesOut,
         ScanFails, Acquire, Unlock, RemoveLockDirectory, Request, Crash
  <2>2. CASE ListNumbers(p)
    BY <1>0, <1>3, <1>4, <1>6, <2>2 DEF ListNumbers
  <2>3. pc[p] \in {"number", "remove"} =>
          name[r] \in left[p] \/ number[p] >= number[r]
    BY <1>0, <1>2 DEF ChoosesHigher
  <2>4. CASE NumberScan(p)
    <3>1. M[name[r]].number = number[r]
      BY <1>4
    <3>2. PICK n \in left[p] :
            \/ UNCHANGED <<left, number>>
            \/ /\ left' = [left EXCEPT ![p] = @ \ {n}]
               /\ number' = [number EXCEPT ![p] = IF M[n].number > @ THEN M[n].number ELSE @]
      BY <2>4 DEF NumberScan
    <3>3. pc[p] = "number" /\ n \in Names
      BY <1>0, <2>4 DEF NumberScan
    <3>4. M[n].number \in Nat
      BY <1>0, <3>3, MemberNumber
    <3>5. \/ left'[p] = left[p] /\ number'[p] = number[p]
          \/ /\ left'[p] = left[p] \ {n}
             /\ number'[p] = (IF M[n].number > number[p] THEN M[n].number ELSE number[p])
      BY <1>0, <3>2
    <3>6. PICK a \in Nat, b \in Nat, m \in Nat : a = number[p] /\ b = number[r] /\ m = M[n].number
      BY <1>0, <3>4
    <3>7. name[r] \in left[p] \/ a >= b
      BY <2>3, <3>3, <3>6
    <3>8. n = name[r] => m = b
      BY <3>1, <3>6
    <3>9. \/ left'[p] = left[p] /\ number'[p] = a
          \/ left'[p] = left[p] \ {n} /\ number'[p] = (IF m > a THEN m ELSE a)
      BY <3>5, <3>6
    <3>10. name[r] \in left'[p] \/ number'[p] >= b
      <4>1. CASE left'[p] = left[p] /\ number'[p] = a
        BY <3>7, <4>1
      <4>2. CASE left'[p] = left[p] \ {n} /\ number'[p] = (IF m > a THEN m ELSE a) /\ n = name[r]
        <5>1. (IF m > a THEN m ELSE a) >= m
          BY HigherIsUpper
        <5> QED
          BY <3>8, <4>2, <5>1
      <4>3. CASE left'[p] = left[p] \ {n} /\ number'[p] = (IF m > a THEN m ELSE a) /\ n # name[r]
        <5>1. a >= b => (IF m > a THEN m ELSE a) >= b
          BY HigherIsUpper
        <5> QED
          BY <3>7, <4>3, <5>1
      <4> QED
        BY <3>9, <4>1, <4>2, <4>3
    <3> QED
      BY <1>3, <1>6, <3>6, <3>10
  <2>5. CASE RemoveStale(p)
    <3>1. pc[p] = "remove" /\ left'[p] = left[p] \ {cur[p]} /\ number' = number
      BY <1>0, <1>6, <2>5 DEF RemoveStale, Goto, mine
    <3>2. cur[p] # name[r]
      <4>1. M[name[r]].owner = r /\ ~Dead(r)
        BY <1>2, <1>4 DEF Dead, HasMember
      <4> QED
        BY <1>0, <1>4, <3>1, <4>1 DEF StaleMembers
    <3> QED
      BY <1>0, <1>3, <1>6, <2>3, <3>1, <3>2
  <2> QED
    BY <2>1, <2>2, <2>4, <2>5
<1> QED
  BY <1>5, <1>6

LEMMA InitLockInv == Init => LockInv
<1> SUFFICES ASSUME Init PROVE LockInv
  OBVIOUS
<1>1. TypeOK
  BY InitType
<1>2. /\ \A p \in Procs : pc[p] = "idle" /\ list[p] = <<>>
      /\ \A n \in Names : D[n] = None
  BY DEF Init
<1>3. \A p \in Procs : ~HasNumber(p) /\ ~Choosing(p) /\ ~Entered(p) /\ ~HasMember(p) /\ ~Scanning(p)
  BY <1>2 DEF HasNumber, Choosing, Entered, HasMember, Scanning
<1>4. ChooserOwns /\ DeadEntries /\ MemberStays /\ LeftIsBefore /\ ChoosesHigher
  BY <1>2, <1>3 DEF ChooserOwns, DeadEntries, MemberStays, LeftIsBefore, ChoosesHigher
<1>5. EntryIsOwned
  BY <1>2 DEF EntryIsOwned
<1>6. ListEntries
  BY <1>2 DEF ListEntries
<1>7. StaleMembers
  BY <1>2 DEF StaleMembers
<1> QED
  BY <1>1, <1>4, <1>5, <1>6, <1>7 DEF LockInv

LEMMA StutterLockInv == LockInv /\ UNCHANGED vars => LockInv'
<1> SUFFICES ASSUME LockInv, UNCHANGED vars PROVE LockInv'
  OBVIOUS
<1> USE DEF vars, mine, scan, files, counts, Members, Entering, Dead, Choosing, Entered, HasMember,
            HasNumber, Scanning, Before
<1>1. TypeOK'
  BY DEF LockInv, TypeOK
<1>2. ChooserOwns' /\ EntryIsOwned' /\ DeadEntries'
  <2>1. /\ pc' = pc /\ name' = name /\ D' = D /\ Members' = Members
        /\ \A q \in Procs : /\ HasNumber(q)' = HasNumber(q) /\ Choosing(q)' = Choosing(q)
                            /\ Entered(q)' = Entered(q)
    OBVIOUS
  <2>2. EntryIsOwned'
    BY DEF LockInv, EntryIsOwned
  <2> HIDE DEF HasNumber, Members, Choosing, Entered
  <2>3. ChooserOwns'
    BY <2>1 DEF LockInv, ChooserOwns
  <2>4. DeadEntries'
    BY <2>1 DEF LockInv, DeadEntries
  <2> QED
    BY <2>2, <2>3, <2>4
<1>3. MemberStays'
  BY DEF LockInv, MemberStays
<1>4. ListEntries' /\ StaleMembers'
  <2>1. /\ pc' = pc /\ name' = name /\ D' = D /\ M' = M /\ list' = list /\ cur' = cur /\ left' = left
        /\ Members' = Members /\ \A q \in Procs : HasNumber(q)' = HasNumber(q)
    OBVIOUS
  <2> HIDE DEF HasNumber, Members
  <2>2. ListEntries'
    BY <2>1 DEF LockInv, ListEntries
  <2>3. StaleMembers'
    BY <2>1 DEF LockInv, StaleMembers
  <2> QED
    BY <2>2, <2>3
<1>5. LeftIsBefore' /\ ChoosesHigher'
  BY DEF LockInv, LeftIsBefore, ChoosesHigher
<1> QED
  BY <1>1, <1>2, <1>3, <1>4, <1>5 DEF LockInv

LEMMA NextLockInv ==
  ASSUME ~Stalls, ~Collisions
  PROVE  LockInv /\ [Next]_vars => LockInv'
<1>1. ASSUME LockInv, NEW p \in Procs, Moves(p)
      PROVE  LockInv'
  <2>1. TypeOK /\ EntryIsOwned
    BY <1>1 DEF LockInv
  <2> QED
    BY <1>1, <2>1, MovesType, ChooserOwnsStep, EntryIsOwnedStep, DeadEntriesStep, ListEntriesStep,
       StaleMembersStep, MemberStaysStep, LeftIsBeforeStep, ChoosesHigherStep DEF LockInv
<1> QED
  BY <1>1, StutterLockInv DEF Next, Moves

LEMMA FirstHolder == LockInv => HolderIsFirst
BY DEF LockInv, LeftIsBefore, Scanning, HolderIsFirst

LEMMA HoldersShare == LockInv => MutualExclusion
<1> SUFFICES ASSUME LockInv, NEW p \in Procs, NEW q \in Procs, p # q,
                    pc[p] = "held", pc[q] = "held", Conflict(type[p], type[q])
             PROVE  FALSE
  BY DEF MutualExclusion
<1>1. TypeOK /\ MemberStays /\ HolderIsFirst
  BY FirstHolder DEF LockInv
<1>2. HasMember(p) /\ HasMember(q)
  BY DEF HasMember
<1>3. /\ name[p] \in Members /\ M[name[p]].owner = p
      /\ M[name[p]].number = number[p] /\ M[name[p]].type = type[p]
      /\ name[q] \in Members /\ M[name[q]].owner = q
      /\ M[name[q]].number = number[q] /\ M[name[q]].type = type[q]
  BY <1>1, <1>2, MemberFields
<1>4. name[p] # name[q]
  BY <1>3
<1>5. /\ name[p] \in Nat /\ name[q] \in Nat /\ number[p] \in Nat /\ number[q] \in Nat
  BY <1>1 DEF TypeOK
<1>6. \/ number[p] < number[q] \/ (number[p] = number[q] /\ name[p] < name[q])
      \/ number[q] < number[p] \/ (number[q] = number[p] /\ name[q] < name[p])
  BY <1>4, <1>5
<1>7. Before(name[p], q) \/ Before(name[q], p)
  BY <1>3, <1>6 DEF Before, Conflict
<1> QED
  BY <1>1, <1>3, <1>7 DEF HolderIsFirst

-----------------------------------------------------------------------------
(***************************************************************************)
(* The theorems on the two assumptions.                                    *)
(***************************************************************************)
LEMMA LockInvHolds ==
  ASSUME ~Stalls, ~Collisions
  PROVE  Spec => []LockInv
BY InitLockInv, NextLockInv, PTL DEF Spec

\* Nobody removes the member file of a locker that holds a lock or waits for one, as stale, by
\* age, or because it has the same number: neither FileLockScanner nor FileLockScanDirectory.
THEOREM MembersStay ==
  ASSUME ~Stalls, ~Collisions
  PROVE  Spec => []MemberStays
<1>1. LockInv => MemberStays
  BY DEF LockInv
<1> QED
  BY <1>1, LockInvHolds, PTL

\* While a lock is held, no member that conflicts with it comes before it: what
\* FileLockWaitForPossession established stays so, whoever chooses a number meanwhile.
THEOREM HoldersAreFirst ==
  ASSUME ~Stalls, ~Collisions
  PROVE  Spec => []HolderIsFirst
BY FirstHolder, LockInvHolds, PTL

\* Two locks of FileLockIntrinsicPortable are held together only when both are shared.
THEOREM LocksExclude ==
  ASSUME ~Stalls, ~Collisions
  PROVE  Spec => []MutualExclusion
BY HoldersShare, LockInvHolds, PTL

-----------------------------------------------------------------------------
(***************************************************************************)
(* The lock directory, with or without stalls and collisions.              *)
(***************************************************************************)
LEMMA InitDirInv == Init => DirInv
BY InitType, InitLockInv
   DEF Init, DirInv, LockInv, MembersAreUsed, EntriesAreUsed, DirIsUsed, Members

LEMMA CalmBefore ==
  ASSUME TypeOK, NEW p \in Procs, Moves(p), Calm'
  PROVE  Calm /\ ~Crash(p) /\ ~Fault
<1>1. faults \in Nat /\ DOMAIN pc = Procs
  <2>1. faults \in 0..MaxFaults /\ DOMAIN pc = Procs
    BY DEF TypeOK
  <2> QED
    BY <2>1
<1>2. faults = 0
  <2>1. faults' = 0
    BY DEF Calm
  <2> QED
    BY <1>1, <2>1, MovesCounts
<1>3. ~Fault
  BY <1>1 DEF Fault, Calm
<1>4. \A q \in Procs : ~Dead(q)
  BY Place DEF Calm
<1>5. ~Crash(p)
  BY <1>1 DEF Crash, Return, Goto, Calm, Dead
<1> QED
  BY <1>2, <1>3, <1>4, <1>5 DEF Calm

\* Who gives up its member removes it, in calm weather.
LEMMA LeavesMember ==
  ASSUME TypeOK, NEW p \in Procs, Moves(p), Calm', HasMember(p), ~HasMember(p)'
  PROVE  M' = [M EXCEPT ![name[p]] = NoMember] \/ (M' = M /\ Members = {})
<1>1. pc \in [Procs -> Places] /\ (dir \/ Members = {})
  BY DEF TypeOK, Places
<1>2. ~Crash(p) /\ ~Fault
  BY CalmBefore
<1> USE DEF HasMember, Goto, Return
<1>3. TimesOut(p) \/ (pc[p] = "held" /\ Unlock(p)) \/ ScanFails(p)
  BY <1>1, <1>2 DEF Moves, Step,
         LockDirectory, LockDirectoryDenied, EntryDirectory, EntryDirectoryFails, CheckMember,
         EntryFile, ListNumbers, ListNumbersFails, NumberScan, RemoveStale, CreateMember,
         CreateMemberFails, RemoveEntryDirectory, List, Age, Possess, Waited,
         Acquire, Unlock, RemoveLockDirectory, Request
<1>4. CASE TimesOut(p) \/ (pc[p] = "held" /\ Unlock(p))
  BY <1>4 DEF TimesOut, Unlock, DeleteMember
<1>5. CASE ScanFails(p)
  BY <1>1, <1>2, <1>5 DEF ScanFails, files
<1> QED
  BY <1>3, <1>4, <1>5

LEMMA MembersAreUsedStep ==
  ASSUME TypeOK, MembersAreUsed, NEW p \in Procs, Moves(p)
  PROVE  MembersAreUsed'
<1> SUFFICES ASSUME Calm', NEW n \in Members', NEW o, o = M'[n].owner
             PROVE  HasMember(o)' /\ name'[o] = n
  BY DEF MembersAreUsed, HasMember
<1>0. /\ M \in [Names -> Member \cup {NoMember}] /\ name \in [Procs -> Names]
      /\ pc \in [Procs -> Places] /\ n \in Names /\ M'[n] # NoMember
  BY DEF TypeOK, Member, Places, Members
<1>1. CASE M'[n] # M[n]
  <2>1. CreateMember(p)
    BY <1>0, <1>1, MovesM DEF Age
  <2>2. n = name[p] /\ M'[n] = [owner |-> p, number |-> MyNumber(p), type |-> type[p]]
    BY <1>0, <1>1, <2>1 DEF CreateMember
  <2>3. o = p
    BY <2>2
  <2> QED
    BY <1>0, <2>1, <2>2, <2>3 DEF CreateMember, HasMember, Goto
<1>2. CASE M'[n] = M[n]
  <2>1. n \in Members /\ o \in Procs
    BY <1>0, <1>2 DEF Members, Member
  <2>2. HasMember(o) /\ name[o] = n
    BY <1>2, <2>1, CalmBefore DEF MembersAreUsed
  <2>3. CASE ~HasMember(o)'
    <3>1. o = p
      BY <2>1, <2>2, <2>3, OthersStay DEF HasMember
    <3> QED
      BY <1>0, <2>1, <2>2, <2>3, <3>1, LeavesMember
  <2>4. CASE HasMember(o)'
    <3>1. ~(o = p /\ CreateMember(p))
      BY <2>2 DEF CreateMember, HasMember
    <3> QED
      BY <2>1, <2>2, <2>4, <3>1, Place
  <2> QED
    BY <2>3, <2>4
<1> QED
  BY <1>1, <1>2

LEMMA EntriesAreUsedStep ==
  ASSUME TypeOK, EntriesAreUsed, NEW p \in Procs, Moves(p)
  PROVE  EntriesAreUsed'
<1> SUFFICES ASSUME Calm', NEW n \in E'
             PROVE  \E q \in Procs : Numbering(q)' /\ name'[q] = n
  BY DEF EntriesAreUsed, Numbering
<1>0. /\ E \subseteq Names /\ name \in [Procs -> Names] /\ pc \in [Procs -> Places]
  BY DEF TypeOK, Places
<1>1. CASE EntryFile(p) /\ n \notin E
  BY <1>0, <1>1 DEF EntryFile, Numbering, Goto, mine
<1>2. CASE n \in E
  <2>1. PICK q \in Procs : Numbering(q) /\ name[q] = n
    BY <1>2, CalmBefore DEF EntriesAreUsed
  <2>2. CASE q # p
    <3>1. pc'[q] = pc[q] /\ name'[q] = name[q]
      BY <2>2, OthersStay
    <3> QED
      BY <2>1, <3>1 DEF Numbering
  <2>3. CASE q = p
    <3>1. ~Crash(p)
      BY CalmBefore
    <3>2. \/ ListNumbers(p) \/ ListNumbersFails(p) \/ NumberScan(p)
          \/ RemoveStale(p) \/ CreateMember(p) \/ CreateMemberFails(p)
      BY <2>1, <2>3, <3>1 DEF Numbering, Moves, Step,
         LockDirectory, LockDirectoryDenied, EntryDirectory, EntryDirectoryFails, CheckMember,
         EntryFile, RemoveEntryDirectory, List, Age, Possess, Waited, TimesOut, ScanFails,
         Acquire, Unlock, RemoveLockDirectory, Request
    <3>3. CASE ListNumbers(p) \/ NumberScan(p)
      BY <1>0, <2>1, <2>3, <3>3 DEF ListNumbers, NumberScan, Numbering, Goto, mine
    <3>4. CASE RemoveStale(p)
      BY <1>0, <2>1, <2>3, <3>4 DEF RemoveStale, Numbering, Goto, mine
    <3>5. ~ListNumbersFails(p) /\ ~CreateMember(p) /\ ~CreateMemberFails(p)
      BY <2>1, <2>3 DEF ListNumbersFails, CreateMember, CreateMemberFails
    <3> QED
      BY <3>2, <3>3, <3>4, <3>5
  <2> QED
    BY <2>2, <2>3
<1> QED
  BY <1>1, <1>2, MovesE DEF Age

LEMMA DirIsUsedStep ==
  ASSUME DirInv, NEW p \in Procs, Moves(p)
  PROVE  DirIsUsed'
<1> SUFFICES ASSUME Calm', dir', pc'[p] \in {"idle", "implicit"}
             PROVE  \E q \in Procs : pc'[q] \notin {"idle", "implicit"}
  BY DEF DirIsUsed
<1>0. /\ TypeOK /\ EntryIsOwned /\ MembersAreUsed /\ EntriesAreUsed /\ DirIsUsed
      /\ pc \in [Procs -> Places] /\ M \in [Names -> Member \cup {NoMember}]
      /\ D \in [Names -> Procs \cup {None}]
  BY DEF DirInv, TypeOK, Places, Member
<1>1. Calm /\ ~Crash(p) /\ ~Fault
  BY <1>0, CalmBefore
<1>2. dir
  BY <1>0, MovesDir DEF LockDirectory, RemoveLockDirectory, Goto
<1>3. pc[p] = "implicit" \/ RemoveLockDirectory(p)
  BY <1>0, <1>1, <1>2 DEF Moves, Step, Goto, Return,
         LockDirectory, LockDirectoryDenied, EntryDirectory, EntryDirectoryFails, CheckMember,
         EntryFile, ListNumbers, ListNumbersFails, NumberScan, RemoveStale, CreateMember,
         CreateMemberFails, RemoveEntryDirectory, List, Age, Possess, Waited, TimesOut,
         ScanFails, Acquire, Unlock, Request
<1>4. \E q \in Procs : q # p /\ pc[q] \notin {"idle", "implicit"}
  <2>1. CASE pc[p] = "implicit"
    BY <1>0, <1>1, <1>2, <2>1 DEF DirIsUsed
  <2>2. CASE RemoveLockDirectory(p)
    <3>1. pc[p] = "rmdir" /\ (Members # {} \/ Entering # {} \/ E # {})
      BY <2>2 DEF RemoveLockDirectory, NotEmpty
    <3>2. CASE Members # {}
      <4>1. PICK n \in Members : TRUE
        BY <3>2
      <4>2. M[n].owner \in Procs /\ HasMember(M[n].owner)
        BY <1>0, <1>1, <4>1 DEF MembersAreUsed, Members, Member
      <4> QED
        BY <3>1, <4>2 DEF HasMember
    <3>3. CASE Entering # {}
      <4>1. PICK n \in Names : D[n] \in Procs
        BY <1>0, <3>3 DEF Entering
      <4>2. Choosing(D[n])
        BY <1>0, <1>1, <4>1 DEF EntryIsOwned, Calm
      <4> QED
        BY <3>1, <4>1, <4>2 DEF Choosing
    <3>4. CASE E # {}
      BY <1>0, <1>1, <3>1, <3>4 DEF EntriesAreUsed, Numbering
    <3> QED
      BY <3>1, <3>2, <3>3, <3>4
  <2> QED
    BY <1>3, <2>1, <2>2
<1> QED
  BY <1>0, <1>4, OthersStay

LEMMA NextDirInv == DirInv /\ [Next]_vars => DirInv'
<1>1. ASSUME DirInv, NEW p \in Procs, Moves(p)
      PROVE  DirInv'
  BY <1>1, MovesType, EntryIsOwnedStep, MembersAreUsedStep, EntriesAreUsedStep, DirIsUsedStep
     DEF DirInv
<1>2. ASSUME DirInv, UNCHANGED vars
      PROVE  DirInv'
  <2> USE DEF vars, mine, scan, files, counts, Members, Dead, Choosing, HasMember, Numbering, Calm
  <2>1. TypeOK'
    BY <1>2, NextType DEF DirInv
  <2>2. EntryIsOwned'
    BY <1>2 DEF DirInv, EntryIsOwned
  <2>3. MembersAreUsed'
    BY <1>2 DEF DirInv, MembersAreUsed
  <2>4. EntriesAreUsed'
    BY <1>2 DEF DirInv, EntriesAreUsed
  <2>5. DirIsUsed'
    BY <1>2 DEF DirInv, DirIsUsed
  <2> QED
    BY <2>1, <2>2, <2>3, <2>4, <2>5 DEF DirInv
<1> QED
  BY <1>1, <1>2 DEF Next, Moves

\* The lock directory exists while there is a file in it, and FileUnlockIntrinsic or a failed
\* request has removed it when nobody needs it; this needs neither assumption.
THEOREM DirectoryIsCorrect == Spec => []DirectoryInv
<1>1. DirInv => DirectoryInv
  BY DEF DirInv, DirectoryInv, DirectoryIsRemoved, DirIsUsed, Calm, Dead
<1> QED
  BY <1>1, InitDirInv, NextDirInv, PTL DEF Spec
=============================================================================
