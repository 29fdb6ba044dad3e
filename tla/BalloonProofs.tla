---------------------------- MODULE BalloonProofs ----------------------------
(***************************************************************************)
(* The balloon's books, for every size of the chunks and of the batch, for *)
(* every monitor and any amount of memory.  Nothing is assumed of the      *)
(* constants that Balloon does not assume.                                 *)
(***************************************************************************)
EXTENDS Balloon, FiniteSetTheorems, TLAPS

(***************************************************************************)
(* Chunk lists: how many entries there are after one chunk has changed,    *)
(* and after one was put in or taken out.                                  *)
(***************************************************************************)
Lists == Seq(1..ChunkEntries)

LEMMA ListMember ==
  ASSUME NEW list \in Lists
  PROVE  /\ DOMAIN list = 1..Len(list) /\ Len(list) \in Nat
         /\ \A i \in 1..Len(list) : list[i] \in 1..ChunkEntries /\ list[i] \in Nat
<1>1. ChunkEntries \in Nat
  BY BalloonAssumption
<1> QED
  BY <1>1 DEF Lists

LEMMA SlotsMember ==
  ASSUME NEW list \in Lists
  PROVE  \A x : x \in Slots(list) <=>
           \E i \in 1..Len(list) : \E k \in 1..list[i] : x = <<i, k>>
<1>1. DOMAIN list = 1..Len(list)
  BY ListMember
<1>2. \A x, i : x \in {i} \X (1..list[i]) <=> \E k \in 1..list[i] : x = <<i, k>>
  OBVIOUS
<1> QED
  BY <1>1, <1>2 DEF Slots

LEMMA SlotsFinite ==
  ASSUME NEW list \in Lists
  PROVE  IsFiniteSet(Slots(list)) /\ Cardinality(Slots(list)) \in Nat
<1>1. IsFiniteSet(1..Len(list)) /\ IsFiniteSet(1..ChunkEntries)
  BY ListMember, BalloonAssumption, FS_Interval
<1>2. IsFiniteSet((1..Len(list)) \X (1..ChunkEntries))
  BY <1>1, FS_Product
<1>3. Slots(list) \subseteq (1..Len(list)) \X (1..ChunkEntries)
  <2> SUFFICES ASSUME NEW x \in Slots(list)
               PROVE  x \in (1..Len(list)) \X (1..ChunkEntries)
    OBVIOUS
  <2>1. PICK i \in 1..Len(list) : \E k \in 1..list[i] : x = <<i, k>>
    BY SlotsMember
  <2>2. PICK k \in 1..list[i] : x = <<i, k>>
    BY <2>1
  <2>3. k \in 1..ChunkEntries
    BY <2>2, ListMember, BalloonAssumption
  <2> QED
    BY <2>2, <2>3
<1> QED
  BY <1>2, <1>3, FS_Subset, FS_CardinalityType

\* The entries of one chunk, and those of the others.
Column(list, i) == {i} \X (1..list[i])
Others(list, i) == {x \in Slots(list) : x[1] # i}

LEMMA ColumnSize ==
  ASSUME NEW list \in Lists, NEW i \in 1..Len(list)
  PROVE  IsFiniteSet(Column(list, i)) /\ Cardinality(Column(list, i)) = list[i]
<1>1. list[i] \in Nat
  BY ListMember
<1>2. IsFiniteSet(1..list[i]) /\ Cardinality(1..list[i]) = list[i]
  <2>1. /\ IsFiniteSet(1..list[i])
        /\ Cardinality(1..list[i]) = IF 1 > list[i] THEN 0 ELSE list[i] - 1 + 1
    <3>1. 1 \in Int /\ list[i] \in Int
      BY <1>1
    <3> QED
      BY <3>1, FS_Interval
  <2> QED
    BY <1>1, <2>1
<1>3. IsFiniteSet({i}) /\ Cardinality({i}) = 1
  BY FS_Singleton
<1>4. /\ IsFiniteSet({i} \X (1..list[i]))
      /\ Cardinality({i} \X (1..list[i])) = Cardinality({i}) * Cardinality(1..list[i])
  BY <1>2, <1>3, FS_Product
<1> QED
  BY <1>1, <1>2, <1>3, <1>4 DEF Column

LEMMA SlotsSplit ==
  ASSUME NEW list \in Lists, NEW i \in 1..Len(list)
  PROVE  /\ IsFiniteSet(Others(list, i)) /\ Cardinality(Others(list, i)) \in Nat
         /\ Cardinality(Slots(list)) = Cardinality(Others(list, i)) + list[i]
<1>1. IsFiniteSet(Others(list, i))
  BY SlotsFinite, FS_Subset DEF Others
<1>2. Slots(list) = Others(list, i) \cup Column(list, i)
  <2>1. Column(list, i) \subseteq Slots(list)
    BY SlotsMember DEF Column
  <2>2. ASSUME NEW x \in Slots(list), x[1] = i
        PROVE  x \in Column(list, i)
    BY <2>2, SlotsMember DEF Column
  <2> QED
    BY <2>1, <2>2 DEF Others
<1>3. Others(list, i) \cap Column(list, i) = {}
  BY DEF Others, Column
<1>4. IsFiniteSet(Column(list, i)) /\ Cardinality(Column(list, i)) = list[i]
  BY ColumnSize
<1>5. Cardinality(Slots(list)) = Cardinality(Others(list, i)) + Cardinality(Column(list, i))
                                 - Cardinality(Others(list, i) \cap Column(list, i))
  BY <1>1, <1>2, <1>4, FS_Union
<1>6. Cardinality(Others(list, i)) \in Nat /\ list[i] \in Nat
  BY <1>1, FS_CardinalityType, ListMember
<1> QED
  BY <1>1, <1>3, <1>4, <1>5, <1>6, FS_EmptySet

LEMMA ChunkChanges ==
  ASSUME NEW list \in Lists, NEW i \in 1..Len(list), NEW m \in 1..ChunkEntries
  PROVE  /\ [list EXCEPT ![i] = m] \in Lists /\ Len([list EXCEPT ![i] = m]) = Len(list)
         /\ Cardinality(Slots([list EXCEPT ![i] = m])) = Cardinality(Slots(list)) - list[i] + m
<1> DEFINE new == [list EXCEPT ![i] = m]
<1>1. new \in Lists /\ Len(new) = Len(list) /\ new[i] = m
  BY DEF Lists
<1>2. \A j \in 1..Len(list) : j # i => new[j] = list[j]
  BY DEF Lists
<1> HIDE DEF new
<1>3. Others(new, i) = Others(list, i)
  <2>1. \A x : x \in Slots(new) /\ x[1] # i => x \in Slots(list)
    BY <1>1, <1>2, SlotsMember
  <2>2. \A x : x \in Slots(list) /\ x[1] # i => x \in Slots(new)
    BY <1>1, <1>2, SlotsMember
  <2> QED
    BY <2>1, <2>2 DEF Others
<1>4. /\ Cardinality(Slots(list)) = Cardinality(Others(list, i)) + list[i]
      /\ Cardinality(Slots(new)) = Cardinality(Others(list, i)) + m
      /\ Cardinality(Others(list, i)) \in Nat
  BY <1>1, <1>3, SlotsSplit
<1>5. list[i] \in Nat /\ m \in Nat
  BY ListMember, BalloonAssumption
<1>6. Cardinality(Slots(new)) = Cardinality(Slots(list)) - list[i] + m
  BY <1>4, <1>5
<1> QED
  BY <1>1, <1>6 DEF new

\* new is old with one chunk more, at place i.
Inserted(old, new, i) ==
  /\ Len(new) = Len(old) + 1
  /\ \A j \in 1..Len(old) : new[IF j < i THEN j ELSE j + 1] = old[j]

LEMMA ChunkInserted ==
  ASSUME NEW old \in Lists, NEW new \in Lists, NEW i \in 1..Len(new), Inserted(old, new, i)
  PROVE  Cardinality(Slots(new)) = Cardinality(Slots(old)) + new[i]
<1> DEFINE At(j) == IF j < i THEN j ELSE j + 1
           f == [x \in Slots(old) |-> <<At(x[1]), x[2]>>]
<1>1. Len(old) \in Nat /\ i \in Nat /\ Len(new) = Len(old) + 1
  BY ListMember DEF Inserted
<1>2. ASSUME NEW j \in 1..Len(old)
      PROVE  At(j) \in 1..Len(new) /\ At(j) # i /\ new[At(j)] = old[j]
  BY <1>1, <1>2 DEF Inserted
<1>3. ASSUME NEW j \in 1..Len(new), j # i
      PROVE  \E h \in 1..Len(old) : At(h) = j
  <2>1. CASE j < i
    BY <1>1, <2>1
  <2>2. CASE j > i
    <3>1. j - 1 \in 1..Len(old) /\ At(j - 1) = j
      BY <1>1, <2>2
    <3> QED
      BY <3>1
  <2> QED
    BY <1>1, <1>3, <2>1, <2>2
<1>4. \A j, h \in 1..Len(old) : At(j) = At(h) => j = h
  BY <1>1
<1>5. \A x \in Slots(old) : x[1] \in 1..Len(old) /\ x[2] \in 1..old[x[1]] /\ x = <<x[1], x[2]>>
  BY SlotsMember
<1> HIDE DEF At
<1>6. \A x \in Slots(old) : f[x] \in Others(new, i)
  <2> SUFFICES ASSUME NEW x \in Slots(old)
               PROVE  <<At(x[1]), x[2]>> \in Others(new, i)
    OBVIOUS
  <2>1. <<At(x[1]), x[2]>> \in Slots(new)
    BY <1>2, <1>5, SlotsMember
  <2> QED
    BY <1>2, <1>5, <2>1 DEF Others
<1>7. f \in Injection(Slots(old), Others(new, i))
  <2>1. f \in [Slots(old) -> Others(new, i)]
    BY <1>6
  <2>2. \A x, y \in Slots(old) : f[x] = f[y] => x = y
    BY <1>4, <1>5
  <2> QED
    BY <2>1, <2>2 DEF Injection, IsInjective
<1>8. f \in Surjection(Slots(old), Others(new, i))
  <2>1. ASSUME NEW y \in Others(new, i)
        PROVE  \E x \in Slots(old) : f[x] = y
    <3>1. PICK j \in 1..Len(new) : \E k \in 1..new[j] : y = <<j, k>>
      BY SlotsMember DEF Others
    <3>2. PICK k \in 1..new[j] : y = <<j, k>>
      BY <3>1
    <3>3. j # i
      BY <3>2 DEF Others
    <3>4. PICK h \in 1..Len(old) : At(h) = j
      BY <1>3, <3>3
    <3>5. <<h, k>> \in Slots(old)
      BY <1>2, <3>2, <3>4, SlotsMember
    <3>6. f[<<h, k>>] = y
      BY <3>2, <3>4, <3>5
    <3> QED
      BY <3>5, <3>6
  <2> QED
    BY <1>6, <2>1 DEF Surjection
<1>9. Cardinality(Slots(old)) = Cardinality(Others(new, i))
  <2>1. f \in Bijection(Slots(old), Others(new, i))
    BY <1>7, <1>8 DEF Bijection
  <2> QED
    BY <2>1, SlotsFinite, FS_Bijection DEF ExistsBijection
<1> QED
  BY <1>9, SlotsSplit
LEMMA EmptyList == <<>> \in Lists /\ Len(<<>>) = 0 /\ Slots(<<>>) = {} /\ Cardinality(Slots(<<>>)) = 0
<1>1. <<>> \in Lists /\ Len(<<>>) = 0
  BY DEF Lists
<1>2. Slots(<<>>) = {}
  BY <1>1, SlotsMember
<1> QED
  BY <1>1, <1>2, FS_EmptySet

\* A chunk with m entries in front of the list, as BalloonGetChunk links it.
LEMMA ChunkPrepended ==
  ASSUME NEW list \in Lists, NEW m \in 1..ChunkEntries
  PROVE  /\ <<m>> \o list \in Lists /\ Len(<<m>> \o list) = Len(list) + 1
         /\ Cardinality(Slots(<<m>> \o list)) = Cardinality(Slots(list)) + m
<1> DEFINE new == <<m>> \o list
<1>1. new \in Lists /\ Len(new) = Len(list) + 1 /\ new[1] = m
  BY DEF Lists
<1>2. \A j \in 1..Len(list) : new[j + 1] = list[j]
  BY DEF Lists
<1> HIDE DEF new
<1>3. Len(list) \in Nat
  BY ListMember
<1>4. 1 \in 1..Len(new)
  BY <1>1, <1>3
<1>5. Inserted(list, new, 1)
  BY <1>1, <1>2, <1>3 DEF Inserted
<1>6. Cardinality(Slots(new)) = Cardinality(Slots(list)) + m
  BY <1>1, <1>4, <1>5, ChunkInserted
<1> QED
  BY <1>1, <1>6 DEF new

\* BalloonPageStore, m times: every page finds a place, and a new chunk is linked at most once.
LEMMA PagesStored ==
  ASSUME NEW s \in Sizes, chunks[s] \in Lists, NEW m \in 0..BatchEntries
  PROVE  /\ Stored(s, m) \in Lists
         /\ Cardinality(Slots(Stored(s, m))) = Entries(s) + m
         /\ Len(Stored(s, m)) = Len(chunks[s]) + (IF NeedsChunk(s, m) THEN 1 ELSE 0)
         /\ m = 0 => Stored(s, m) = chunks[s]
<1> DEFINE c == chunks[s]
<1>1. /\ BatchEntries \in Nat /\ ChunkEntries \in Nat /\ m \in Nat /\ m < ChunkEntries
      /\ Len(c) \in Nat /\ Entries(s) \in Nat /\ Entries(s) = Cardinality(Slots(c))
      /\ c \in Lists
  BY BalloonAssumption, ListMember, SlotsFinite DEF Entries
<1>2. CASE m = 0
  BY <1>1, <1>2 DEF Stored, NeedsChunk
<1>3. CASE m > 0 /\ c = <<>>
  <2>1. /\ <<m>> \o c \in Lists /\ Len(<<m>> \o c) = Len(c) + 1
        /\ Cardinality(Slots(<<m>> \o c)) = Cardinality(Slots(c)) + m
    <3>1. m \in 1..ChunkEntries
      BY <1>1, <1>3
    <3> HIDE DEF c
    <3> QED
      BY <1>1, <3>1, ChunkPrepended
  <2>2. Stored(s, m) = <<m>> /\ NeedsChunk(s, m)
    BY <1>1, <1>3 DEF Stored, NeedsChunk
  <2>3. <<m>> \o c = <<m>>
    BY <1>3
  <2> QED
    BY <1>1, <1>3, <2>1, <2>2, <2>3
<1>4. CASE m > 0 /\ c # <<>>
  <2>1. 1 \in 1..Len(c) /\ Head(c) = c[1] /\ c[1] \in 1..ChunkEntries /\ c[1] \in Nat
    <3>1. Len(c) # 0
      BY <1>4 DEF Lists
    <3>2. 1 \in 1..Len(c)
      BY <1>1, <3>1
    <3>3. Head(c) = c[1]
      BY <1>4 DEF Lists
    <3> QED
      BY <3>2, <3>3, ListMember
  <2>2. CASE c[1] + m <= ChunkEntries
    <3>1. ~NeedsChunk(s, m) /\ Stored(s, m) = [c EXCEPT ![1] = c[1] + m]
      BY <1>1, <1>4, <2>1, <2>2 DEF Stored, NeedsChunk
    <3>2. c[1] + m \in 1..ChunkEntries
      BY <1>1, <2>1, <2>2
    <3>3. /\ [c EXCEPT ![1] = c[1] + m] \in Lists /\ Len([c EXCEPT ![1] = c[1] + m]) = Len(c)
          /\ Cardinality(Slots([c EXCEPT ![1] = c[1] + m]))
               = Cardinality(Slots(c)) - c[1] + (c[1] + m)
      BY <2>1, <3>2, ChunkChanges
    <3> QED
      BY <1>1, <1>4, <2>1, <3>1, <3>3
  <2>3. CASE c[1] + m > ChunkEntries
    <3> DEFINE full == [c EXCEPT ![1] = ChunkEntries]
               rest == m - (ChunkEntries - c[1])
    <3>1. NeedsChunk(s, m) /\ Stored(s, m) = <<rest>> \o full
      BY <1>1, <1>4, <2>1, <2>3 DEF Stored, NeedsChunk
    <3>2. ChunkEntries \in 1..ChunkEntries /\ rest \in 1..ChunkEntries
      BY <1>1, <2>1, <2>3
    <3>3. /\ full \in Lists /\ Len(full) = Len(c)
          /\ Cardinality(Slots(full)) = Cardinality(Slots(c)) - c[1] + ChunkEntries
      BY <2>1, <3>2, ChunkChanges
    <3> HIDE DEF full
    <3>4. /\ <<rest>> \o full \in Lists /\ Len(<<rest>> \o full) = Len(full) + 1
          /\ Cardinality(Slots(<<rest>> \o full)) = Cardinality(Slots(full)) + rest
      BY <3>2, <3>3, ChunkPrepended
    <3> QED
      BY <1>1, <1>4, <2>1, <3>1, <3>3, <3>4
  <2>4. c[1] + m <= ChunkEntries \/ c[1] + m > ChunkEntries
    BY <1>1, <2>1
  <2> QED
    BY <2>2, <2>3, <2>4
<1>5. m = 0 \/ (m > 0 /\ c = <<>>) \/ (m > 0 /\ c # <<>>)
  BY <1>1
<1> QED
  BY <1>2, <1>3, <1>4, <1>5

\* A chunk with one entry leaves the list.
LEMMA ChunkUnlinked ==
  ASSUME NEW list \in Lists, NEW i \in 1..Len(list)
  PROVE  /\ Unlinked(list, i) \in Lists /\ Len(Unlinked(list, i)) = Len(list) - 1
         /\ Cardinality(Slots(list)) = Cardinality(Slots(Unlinked(list, i))) + list[i]
<1> DEFINE new == Unlinked(list, i)
<1>1. Len(list) \in Nat /\ i \in Nat /\ Len(list) - 1 \in Nat
  BY ListMember
<1>2. \A j \in 1..(Len(list) - 1) : (IF j < i THEN j ELSE j + 1) \in 1..Len(list)
  BY <1>1
<1>3. new \in Lists /\ Len(new) = Len(list) - 1
  BY <1>1, <1>2, ListMember DEF Lists, Unlinked
<1>4. \A j \in 1..Len(new) : list[IF j < i THEN j ELSE j + 1] = new[j]
  BY <1>3 DEF Unlinked
<1> HIDE DEF new
<1>5. Inserted(new, list, i)
  BY <1>1, <1>3, <1>4 DEF Inserted
<1>6. Cardinality(Slots(list)) = Cardinality(Slots(new)) + list[i]
  BY <1>3, <1>5, ChunkInserted
<1> QED
  BY <1>3, <1>6 DEF new
(***************************************************************************)
(* The inductive invariant.  PagesAreAccountedFor, SizeIsTracked and       *)
(* MonitorAgrees follow the pages through the loops, which needs to know   *)
(* that a batch never outgrows BatchMax, that the chunk the deflation      *)
(* works on is on the list, and that the operations fit what the last      *)
(* start negotiated; after a second start that failed they need not, and   *)
(* then only the basic ones get as far as a page.                          *)
(***************************************************************************)
Loops == {"inflate", "lock", "finish", "deflate", "unlock"}
Gone == {"unloaded", "crashed"}

\* The batch, and the chunk that the deflation works on.
LoopInv ==
  /\ pc \in {"inflate", "finish", "deflate"} => loop.n < BatchMax
  /\ pc \in {"lock", "unlock"} => loop.n \in 1..BatchMax
  /\ pc \in {"deflate", "unlock"} => loop.cur <= Len(chunks[loop.size])
  /\ pc \in Loops /\ ops # "batched" => loop.n <= 1
  /\ pc \in Loops /\ ops # "batched" /\ loop.size = "large" =>
       loop.n = 0 /\ (pc = "deflate" \/ halfStarted)
  /\ pc \in Loops /\ loop.n > 0 => ops # "none" /\ (ops = "batched" => batchPage)

\* What a start of the monitor has set up, and that a reset is due after it forgot.
StartInv ==
  /\ pc = "reset" => resetFlag
  /\ resetFlag /\ pc # "unloaded" => monitor # "up" \/ halfStarted
  /\ (monitor = "up" /\ pc \notin Gone) \/ pc \in Loops =>
       halfStarted \/ (ops # "none" /\ (ops = "batched" <=> batchPage))
  /\ halfStarted => ~batchPage
  /\ "2m" \in capabilities => ops = "batched" \/ halfStarted
  /\ ops # "batched" => chunks["large"] = <<>>

BooksInv ==
  TypeOK /\ PagesAreAccountedFor /\ SizeIsTracked /\ MonitorAgrees /\ LoopInv /\ StartInv

LEMMA Constants ==
  /\ Large \in Nat /\ Large > 1
  /\ BatchEntries \in Nat /\ BatchEntries > 0 /\ ChunkEntries \in Nat /\ BatchEntries < ChunkEntries
  /\ ErrorPages \in Nat
  /\ Targets \cup {0} \subseteq Nat
  BY BalloonAssumption

LEMMA Numbers ==
  ASSUME TypeOK
  PROVE  /\ loop.size \in Sizes /\ loop.n \in Nat /\ loop.n <= BatchEntries /\ loop.cur \in Nat
         /\ loop.target \in Targets \cup {0} /\ loop.target \in Nat
         /\ BatchMax \in Nat /\ BatchMax > 0 /\ BatchMax <= BatchEntries
         /\ \A s \in Sizes :
              /\ chunks[s] \in Lists
              /\ Entries(s) \in Nat /\ Inflating(s) \in Nat /\ Deflating(s) \in Nat
              /\ errors[s] \in Nat /\ errors[s] <= ErrorPages
              /\ reserved[s] \in Nat /\ locked[s] \in Nat
<1>1. /\ loop.size \in Sizes /\ loop.n \in 0..BatchEntries /\ loop.cur \in Nat
      /\ loop.target \in Targets \cup {0}
  BY DEF TypeOK
<1>2. \A s \in Sizes : chunks[s] \in Lists /\ errors[s] \in 0..ErrorPages
                       /\ reserved[s] \in Nat /\ locked[s] \in Nat
  BY DEF TypeOK, Lists
<1>3. BatchMax \in Nat /\ BatchMax > 0 /\ BatchMax <= BatchEntries
  BY Constants DEF BatchMax
<1>4. \A s \in Sizes : Entries(s) \in Nat
  BY <1>2, SlotsFinite DEF Entries
<1> QED
  BY <1>1, <1>2, <1>3, <1>4, Constants DEF Inflating, Deflating

\* Without batches one small page is locked or unlocked at a time.
LEMMA OneSmallPage ==
  ASSUME TypeOK, LoopInv, StartInv, pc \in {"lock", "unlock"}, ops # "batched"
  PROVE  loop.n = 1 /\ loop.size = "small"
<1>1. loop.n \in 1..BatchMax /\ BatchMax \in Nat /\ loop.n <= 1 /\ loop.n # 0
  BY Numbers DEF LoopInv, Loops
<1>2. loop.size \in {"small", "large"}
  BY Numbers DEF Sizes
<1> QED
  BY <1>1, <1>2 DEF LoopInv, Loops

LEMMA InitBooks == Init => BooksInv
<1> SUFFICES ASSUME Init
             PROVE  BooksInv
  OBVIOUS
<1>1. TypeOK
  <2>1. NoLoop \in [size : Sizes, type : AllocTypes, n : 0..BatchEntries, target : Targets \cup {0},
                    some : BOOLEAN, cur : Nat, then : {"loop", "small", "done"}]
    BY Constants DEF NoLoop, Sizes, AllocTypes
  <2>2. None \in [Sizes -> 0..ErrorPages] /\ None \in [Sizes -> Nat]
    BY Constants DEF None
  <2>3. [s \in Sizes |-> <<>>] \in [Sizes -> Seq(1..ChunkEntries)]
    BY EmptyList DEF Lists
  <2> QED
    BY <2>1, <2>2, <2>3 DEF Init, TypeOK
<1>2. \A s \in Sizes : Entries(s) = 0 /\ Inflating(s) = 0 /\ Deflating(s) = 0 /\ errors[s] = 0
                       /\ reserved[s] = 0 /\ locked[s] = 0
  BY EmptyList DEF Init, Entries, Inflating, Deflating, None
<1>3. PagesAreAccountedFor /\ MonitorAgrees
  BY <1>2 DEF Init, PagesAreAccountedFor, MonitorAgrees
<1>4. SizeIsTracked
  BY <1>2, Constants DEF Init, SizeIsTracked, Sizes
<1>5. LoopInv /\ StartInv
  BY DEF Init, LoopInv, StartInv, Loops, Gone, Sizes
<1> QED
  BY <1>1, <1>3, <1>4, <1>5 DEF BooksInv
(***************************************************************************)
(* Steps that move no page.                                                *)
(***************************************************************************)
LoopRecords ==
  [size : Sizes, type : AllocTypes, n : 0..BatchEntries, target : Targets \cup {0},
   some : BOOLEAN, cur : Nat, then : {"loop", "small", "done"}]

LEMMA NoLoopType ==
  NoLoop \in LoopRecords /\ NoLoop.n = 0 /\ NoLoop.cur = 0 /\ NoLoop.size = "small"
  BY Constants DEF NoLoop, LoopRecords, Sizes, AllocTypes

\* The books stay right when only the loop's place changes.
LEMMA BooksKept ==
  ASSUME BooksInv, pc \notin Gone, UNCHANGED <<listVars, batchPage, halfStarted, reserved>>,
         monitor' = "up" => monitor = "up" /\ locked' = locked,
         \A s \in Sizes : Inflating(s)' = Inflating(s) /\ Deflating(s)' = Deflating(s)
  PROVE  PagesAreAccountedFor' /\ SizeIsTracked' /\ MonitorAgrees'
<1>1. \A s \in Sizes : Entries(s)' = Entries(s)
  BY DEF Entries, listVars
<1>2. PagesAreAccountedFor'
  BY <1>1 DEF BooksInv, PagesAreAccountedFor, Gone, listVars
<1>3. SizeIsTracked'
  BY <1>1 DEF BooksInv, SizeIsTracked, Gone, listVars, Sizes
<1>4. MonitorAgrees'
  BY <1>1 DEF BooksInv, MonitorAgrees, Gone
<1> QED
  BY <1>2, <1>3, <1>4

LEMMA PollBooks == ASSUME BooksInv, Poll PROVE BooksInv'
<1>1. TypeOK'
  BY DEF BooksInv, TypeOK, Poll, listVars, startVars, monitorVars
<1>2. \A s \in Sizes : Inflating(s)' = Inflating(s) /\ Deflating(s)' = Deflating(s)
  BY DEF Poll, Inflating, Deflating
<1>3. PagesAreAccountedFor' /\ SizeIsTracked' /\ MonitorAgrees'
  BY <1>2, BooksKept DEF Poll, startVars, monitorVars, Gone
<1>4. LoopInv'
  BY DEF BooksInv, Poll, LoopInv, Loops
<1>5. StartInv'
  BY DEF BooksInv, StartInv, Poll, Loops, Gone, startVars, monitorVars, listVars
<1> QED
  BY <1>1, <1>3, <1>4, <1>5 DEF BooksInv

LEMMA GetTargetBooks == ASSUME BooksInv, GetTarget PROVE BooksInv'
<1>0. TypeOK /\ StartInv
  BY DEF BooksInv
<1>1. PICK t \in AnyTarget : nPagesTarget' = t /\ loop' = FirstLoop(t) /\ pc' = AdjustSize(t)
  BY DEF GetTarget
<1>2. t \in Targets \cup {0}
  BY <1>0 DEF AnyTarget, TypeOK
<1>3. /\ loop' \in LoopRecords /\ loop'.n = 0 /\ loop'.cur = 0
      /\ loop'.size = "large" => "2m" \in capabilities
      /\ loop'.size \in Sizes
  BY <1>1, <1>2, NoLoopType DEF FirstLoop, LoopRecords, Sizes, AllocTypes
<1>4. pc' \in {"inflate", "deflate", "idle"}
  BY <1>1 DEF AdjustSize
<1>5. TypeOK'
  BY <1>0, <1>1, <1>2, <1>3, <1>4 DEF TypeOK, GetTarget, LoopRecords, listVars, startVars, monitorVars
<1>6. \A s \in Sizes : Inflating(s)' = Inflating(s) /\ Deflating(s)' = Deflating(s)
  BY <1>3, <1>4 DEF GetTarget, Inflating, Deflating
<1>7. PagesAreAccountedFor' /\ SizeIsTracked' /\ MonitorAgrees'
  BY <1>6, BooksKept DEF GetTarget, startVars, monitorVars, Gone
<1>8. LoopInv'
  <2>1. /\ ops' = ops /\ halfStarted' = halfStarted /\ chunks' = chunks
        /\ BatchMax' = BatchMax /\ BatchMax > 0 /\ BatchMax \in Nat
    BY <1>0, Numbers DEF GetTarget, startVars, listVars, BatchMax
  <2>2. Len(chunks[loop'.size]) \in Nat
    BY <1>0, <1>3, Numbers, ListMember
  <2> QED
    BY <1>0, <1>3, <1>4, <2>1, <2>2 DEF LoopInv, StartInv
<1>9. StartInv'
  BY <1>0, <1>4 DEF StartInv, GetTarget, Loops, Gone, startVars, monitorVars, listVars
<1> QED
  BY <1>5, <1>7, <1>8, <1>9 DEF BooksInv

LEMMA GetTargetFailsBooks == ASSUME BooksInv, GetTargetFails PROVE BooksInv'
<1>0. TypeOK /\ StartInv
  BY DEF BooksInv
<1>1. TypeOK'
  <2>1. resetFlag' \in BOOLEAN
    BY <1>0 DEF TypeOK, GetTargetFails
  <2> QED
    BY <1>0, <2>1 DEF TypeOK, GetTargetFails, listVars, monitorVars
<1>2. \A s \in Sizes : Inflating(s)' = Inflating(s) /\ Deflating(s)' = Deflating(s)
  BY DEF GetTargetFails, Inflating, Deflating
<1>3. PagesAreAccountedFor' /\ SizeIsTracked' /\ MonitorAgrees'
  BY <1>2, BooksKept DEF GetTargetFails, monitorVars, Gone
<1>4. LoopInv'
  BY DEF GetTargetFails, LoopInv, Loops
<1>5. StartInv'
  BY <1>0 DEF StartInv, GetTargetFails, Loops, Gone, monitorVars, listVars
<1> QED
  BY <1>1, <1>3, <1>4, <1>5 DEF BooksInv

LEMMA AllocFailsBooks == ASSUME BooksInv, AllocFails PROVE BooksInv'
<1>0. TypeOK /\ StartInv /\ LoopInv /\ loop \in LoopRecords
  BY DEF BooksInv, TypeOK, LoopRecords
<1>1. /\ loop' \in LoopRecords /\ loop'.n = loop.n
      /\ loop'.size = loop.size \/ (loop.n = 0 /\ loop'.size = "small")
      /\ pc' \in {"inflate", "finish"} \/ (pc' = "lock" /\ loop.n > 0)
  BY <1>0 DEF AllocFails, Smaller, LoopRecords, Sizes, AllocTypes
<1>2. TypeOK'
  BY <1>0, <1>1 DEF TypeOK, AllocFails, LoopRecords, listVars, startVars, monitorVars
<1>3. \A s \in Sizes : Inflating(s)' = Inflating(s) /\ Deflating(s)' = Deflating(s)
  BY <1>1 DEF AllocFails, Inflating, Deflating
<1>4. PagesAreAccountedFor' /\ SizeIsTracked' /\ MonitorAgrees'
  BY <1>3, BooksKept DEF AllocFails, startVars, monitorVars, Gone
<1>5. LoopInv'
  <2>1. /\ ops' = ops /\ batchPage' = batchPage /\ halfStarted' = halfStarted
        /\ BatchMax' = BatchMax /\ pc = "inflate"
    BY DEF AllocFails, startVars, BatchMax
  <2>2. BatchMax \in Nat /\ loop.n \in Nat
    BY <1>0, Numbers
  <2> QED
    BY <1>0, <1>1, <2>1, <2>2 DEF LoopInv, Loops
<1>6. StartInv'
  BY <1>0, <1>1 DEF StartInv, AllocFails, Loops, Gone, startVars, monitorVars, listVars
<1> QED
  BY <1>2, <1>4, <1>5, <1>6 DEF BooksInv

LEMMA InflateDoneBooks == ASSUME BooksInv, InflateDone PROVE BooksInv'
<1>0. TypeOK /\ StartInv /\ LoopInv
  BY DEF BooksInv
<1>1. TypeOK'
  BY <1>0 DEF TypeOK, InflateDone, listVars, startVars, monitorVars
<1>2. \A s \in Sizes : Inflating(s)' = Inflating(s) /\ Deflating(s)' = Deflating(s)
  BY DEF InflateDone, Inflating, Deflating
<1>3. PagesAreAccountedFor' /\ SizeIsTracked' /\ MonitorAgrees'
  BY <1>2, BooksKept DEF InflateDone, startVars, monitorVars, Gone
<1>4. LoopInv'
  BY <1>0 DEF InflateDone, LoopInv, Loops, BatchMax, startVars
<1>5. StartInv'
  BY <1>0 DEF StartInv, InflateDone, Loops, Gone, startVars, monitorVars, listVars
<1> QED
  BY <1>1, <1>3, <1>4, <1>5 DEF BooksInv

LEMMA FinishLockBooks == ASSUME BooksInv, FinishLock PROVE BooksInv'
<1>0. TypeOK /\ StartInv /\ LoopInv /\ loop \in LoopRecords
  BY DEF BooksInv, TypeOK, LoopRecords
<1>1. loop' \in LoopRecords /\ loop'.n = loop.n /\ loop'.size = loop.size
  BY <1>0 DEF FinishLock, LoopRecords
<1>2. TypeOK'
  BY <1>0, <1>1, SMTT(40) DEF TypeOK, FinishLock, LoopRecords, listVars, startVars, monitorVars
<1>3. \A s \in Sizes : Inflating(s)' = Inflating(s) /\ Deflating(s)' = Deflating(s)
  BY <1>1 DEF FinishLock, Inflating, Deflating
<1>4. PagesAreAccountedFor' /\ SizeIsTracked' /\ MonitorAgrees'
  BY <1>3, BooksKept DEF FinishLock, startVars, monitorVars, Gone
<1>5. LoopInv'
  <2>1. BatchMax \in Nat /\ loop.n \in Nat
    BY <1>0, Numbers
  <2> QED
    BY <1>0, <1>1, <2>1 DEF FinishLock, LoopInv, Loops, BatchMax, startVars
<1>6. StartInv'
  BY <1>0 DEF StartInv, FinishLock, Loops, Gone, startVars, monitorVars, listVars
<1> QED
  BY <1>2, <1>4, <1>5, <1>6 DEF BooksInv

LEMMA DeflateDoneBooks == ASSUME BooksInv, DeflateDone PROVE BooksInv'
<1>0. TypeOK /\ StartInv /\ LoopInv /\ loop \in LoopRecords /\ nPagesTarget \in Targets \cup {0}
  BY DEF BooksInv, TypeOK, LoopRecords
<1>1. /\ loop' \in LoopRecords /\ loop'.n = loop.n
      /\ pc' \in {"deflate", "unlock", "idle"} /\ (pc' = "deflate" => loop'.cur = 0)
      /\ pc' = "unlock" => loop.n > 0 /\ loop'.size = loop.size /\ loop'.cur = loop.cur
      /\ pc' # "unlock" => loop.n = 0
      /\ loop'.size \in Sizes
  BY <1>0, NoLoopType DEF DeflateDone, NextList, LoopRecords, Sizes, AllocTypes
<1>2. TypeOK'
  BY <1>0, <1>1, SMTT(30) DEF TypeOK, DeflateDone, LoopRecords, listVars, startVars, monitorVars
<1>3. \A s \in Sizes : Inflating(s)' = Inflating(s) /\ Deflating(s)' = Deflating(s)
  BY <1>1 DEF DeflateDone, Inflating, Deflating
<1>4. PagesAreAccountedFor' /\ SizeIsTracked' /\ MonitorAgrees'
  BY <1>3, BooksKept DEF DeflateDone, startVars, monitorVars, Gone
<1>5. LoopInv'
  <2>1. /\ UNCHANGED <<ops, batchPage, halfStarted>> /\ chunks' = chunks /\ BatchMax' = BatchMax /\ pc = "deflate"
    BY DEF DeflateDone, startVars, listVars, BatchMax
  <2>2. BatchMax \in Nat /\ BatchMax > 0 /\ loop.n \in Nat
    BY <1>0, Numbers
  <2>3. Len(chunks[loop'.size]) \in Nat
    BY <1>0, <1>1, Numbers, ListMember
  <2> QED
    BY <1>0, <1>1, <2>1, <2>2, <2>3 DEF LoopInv, Loops
<1>6. StartInv'
  BY <1>0, <1>1 DEF StartInv, DeflateDone, Loops, Gone, startVars, monitorVars, listVars
<1> QED
  BY <1>2, <1>4, <1>5, <1>6 DEF BooksInv

LEMMA MonitorResetsBooks == ASSUME BooksInv, MonitorResets PROVE BooksInv'
<1>0. TypeOK /\ StartInv /\ LoopInv
  BY DEF BooksInv
<1>1. TypeOK'
  <2>1. None \in [Sizes -> Nat]
    BY DEF None
  <2> QED
    BY <1>0, <2>1 DEF TypeOK, MonitorResets, listVars, startVars
<1>2. \A s \in Sizes : Inflating(s)' = Inflating(s) /\ Deflating(s)' = Deflating(s)
  BY DEF MonitorResets, Inflating, Deflating
<1>3. PagesAreAccountedFor' /\ SizeIsTracked' /\ MonitorAgrees'
  BY <1>2, BooksKept DEF MonitorResets, startVars, Gone
<1>4. LoopInv'
  BY <1>0 DEF MonitorResets, LoopInv, Loops, BatchMax, startVars, listVars
<1>5. StartInv'
  BY <1>0 DEF StartInv, MonitorResets, Loops, Gone, startVars, listVars
<1> QED
  BY <1>1, <1>3, <1>4, <1>5 DEF BooksInv

LEMMA CalmsDownBooks ==
  ASSUME BooksInv, CalmsDown \/ UNCHANGED vars
  PROVE  BooksInv'
<1>1. /\ UNCHANGED <<pc, loop, listVars, nPagesTarget, startVars, fallback, monitorVars, reserved>>
      /\ calm' \in BOOLEAN
  BY DEF BooksInv, TypeOK, CalmsDown, vars
<1>2. TypeOK'
  BY <1>1 DEF BooksInv, TypeOK, listVars, startVars, monitorVars
<1>3. PagesAreAccountedFor' /\ SizeIsTracked' /\ MonitorAgrees'
  BY <1>1 DEF BooksInv, PagesAreAccountedFor, SizeIsTracked, MonitorAgrees, Entries, Inflating,
              Deflating, listVars, startVars, monitorVars
<1>4. LoopInv' /\ StartInv'
  BY <1>1 DEF BooksInv, LoopInv, StartInv, BatchMax, listVars, startVars, monitorVars
<1> QED
  BY <1>2, <1>3, <1>4 DEF BooksInv

LEMMA CrashBooks == ASSUME BooksInv, AddPageFails \/ UnlockCrashes PROVE BooksInv'
<1>0. /\ pc' = "crashed" /\ pc \in Loops
      /\ UNCHANGED <<loop, listVars, nPagesTarget, startVars, fallback, monitorVars, reserved, calm>>
  BY DEF AddPageFails, UnlockCrashes, Loops
<1>1. TypeOK'
  BY <1>0 DEF BooksInv, TypeOK, listVars, startVars, monitorVars
<1>2. PagesAreAccountedFor' /\ SizeIsTracked' /\ MonitorAgrees' /\ LoopInv'
  BY <1>0 DEF PagesAreAccountedFor, SizeIsTracked, MonitorAgrees, LoopInv, Loops
<1>3. StartInv'
  BY <1>0 DEF BooksInv, StartInv, Loops, Gone, listVars, startVars, monitorVars
<1> QED
  BY <1>1, <1>2, <1>3 DEF BooksInv
(***************************************************************************)
(* BalloonReset and Balloon_Cleanup: all lists are emptied.                *)
(***************************************************************************)
LEMMA DeallocateBooks ==
  ASSUME BooksInv, pc \in {"idle", "reset"}, NEW keep \in {0, 1}, Deallocate(keep),
         pc' \in {"query", "unloaded"},
         (batchPage' = TRUE /\ keep = 1) \/ (batchPage' = FALSE /\ keep = 0),
         monitor' = "up" /\ pc' # "unloaded"
           => locked' = None \/ (halfStarted' /\ locked' \in [Sizes -> Nat])
  PROVE  /\ chunks' \in [Sizes -> Seq(1..ChunkEntries)] /\ chunks'["large"] = <<>>
         /\ errors' = errors /\ nPages' \in Nat /\ drift' \in Nat /\ reserved' \in [Sizes -> Nat]
         /\ PagesAreAccountedFor' /\ SizeIsTracked' /\ MonitorAgrees'
<1>0. TypeOK /\ PagesAreAccountedFor /\ SizeIsTracked
  BY DEF BooksInv
<1>1. /\ chunks' = [s \in Sizes |-> <<>>] /\ errors' = errors
      /\ nPages' = nPages - (Entries("small") + Entries("large"))
      /\ drift' = drift + (Large - 1) * Entries("large")
  BY DEF Deallocate, AllFreed, PagesFreed
<1>2. chunks' \in [Sizes -> Seq(1..ChunkEntries)] /\ chunks'["large"] = <<>>
  BY <1>1, EmptyList DEF Lists, Sizes
<1>3. \A s \in Sizes : Entries(s)' = 0 /\ Inflating(s)' = 0 /\ Deflating(s)' = 0
  BY <1>1, EmptyList DEF Entries, Inflating, Deflating
<1>4. \A s \in Sizes : Inflating(s) = 0 /\ Deflating(s) = 0
  BY DEF Inflating, Deflating
<1>5. \A s \in Sizes : Entries(s) \in Nat /\ errors[s] \in Nat
  BY <1>0, Numbers
<1>6. \A s \in Sizes : reserved[s] = Entries(s) + errors[s] + (IF s = "small" /\ batchPage THEN 1 ELSE 0)
  BY <1>0, <1>4, <1>5 DEF PagesAreAccountedFor
<1>7. /\ DOMAIN reserved' = Sizes
      /\ \A s \in Sizes : reserved'[s] = errors[s] + (IF s = "small" THEN keep ELSE 0)
  <2>1. reserved' = [s \in Sizes |-> reserved[s] - Entries(s)
                                     - (IF s = "small" /\ batchPage THEN 1 ELSE 0)
                                     + (IF s = "small" THEN keep ELSE 0)]
    BY DEF Deallocate
  <2>2. ASSUME NEW s \in Sizes
        PROVE  reserved'[s] = errors[s] + (IF s = "small" THEN keep ELSE 0)
    <3> DEFINE x == IF s = "small" /\ batchPage THEN 1 ELSE 0
               y == IF s = "small" THEN keep ELSE 0
    <3>1. x \in Nat /\ y \in Nat /\ Entries(s) \in Nat /\ errors[s] \in Nat
      BY <1>5
    <3>2. reserved'[s] = reserved[s] - Entries(s) - x + y
      BY <2>1
    <3>3. reserved[s] = Entries(s) + errors[s] + x
      BY <1>6
    <3> HIDE DEF x, y
    <3>4. reserved'[s] = errors[s] + y
      BY <3>1, <3>2, <3>3
    <3> QED
      BY <3>4 DEF y
  <2> QED
    BY <2>1, <2>2
<1>8. reserved' \in [Sizes -> Nat]
  <2>1. reserved' = [s \in Sizes |-> reserved'[s]]
    BY DEF Deallocate
  <2>2. \A s \in Sizes : reserved'[s] \in Nat
    BY <1>5, <1>7
  <2> QED
    BY <2>1, <2>2
<1>9. PagesAreAccountedFor'
  <2>1. \A s : (IF s = "small" /\ batchPage' THEN 1 ELSE 0) = (IF s = "small" THEN keep ELSE 0)
    OBVIOUS
  <2> QED
    BY <1>1, <1>3, <1>5, <1>7, <2>1 DEF PagesAreAccountedFor
<1>10. /\ nPages = Entries("small") + Large * Entries("large") + drift
       /\ Entries("small") \in Nat /\ Entries("large") \in Nat /\ drift \in Nat
       /\ Large \in Nat /\ Large > 1
  <2>1. /\ nPages = Entries("small") + Deflating("small")
                    + Large * (Entries("large") + Deflating("large")) + drift
        /\ Deflating("small") = 0 /\ Deflating("large") = 0
        /\ Entries("small") \in Nat /\ Entries("large") \in Nat /\ drift \in Nat
    BY <1>0, <1>4, <1>5 DEF SizeIsTracked, TypeOK, Sizes
  <2> QED
    BY <2>1, Constants
<1>11. (Large - 1) * Entries("large") \in Nat
       /\ Large * Entries("large") = (Large - 1) * Entries("large") + Entries("large")
  BY <1>10
<1>12. nPages' = drift' /\ drift' \in Nat
  <2> DEFINE more == (Large - 1) * Entries("large")
             all == Large * Entries("large")
  <2>1. /\ nPages' = nPages - (Entries("small") + Entries("large")) /\ drift' = drift + more
        /\ nPages = Entries("small") + all + drift /\ all = more + Entries("large")
        /\ more \in Nat
    BY <1>1, <1>10, <1>11
  <2> HIDE DEF more, all
  <2> QED
    BY <1>10, <2>1
<1>13. SizeIsTracked'
  <2>1. /\ Entries("small")' = 0 /\ Entries("large")' = 0
        /\ Deflating("small")' = 0 /\ Deflating("large")' = 0
    BY <1>3 DEF Sizes
  <2> QED
    BY <1>10, <1>12, <2>1 DEF SizeIsTracked
<1>14. MonitorAgrees'
  <2> SUFFICES ASSUME monitor' = "up", pc' # "unloaded", NEW s \in Sizes
               PROVE  locked'[s] >= 0 /\ (~halfStarted' => locked'[s] = 0)
    BY <1>3 DEF MonitorAgrees
  <2> QED
    BY DEF None
<1> QED
  BY <1>1, <1>2, <1>8, <1>9, <1>12, <1>13, <1>14

LEMMA ResetBooks ==
  ASSUME BooksInv, ResetFails \/ ResetWithoutBatchPage \/ ResetStarts \/ Cleanup
  PROVE  BooksInv'
<1>0. TypeOK /\ StartInv
  BY DEF BooksInv
<1>1. None \in [Sizes -> Nat]
  BY DEF None
<1>2. CASE ResetFails
  <2>1. /\ chunks' \in [Sizes -> Seq(1..ChunkEntries)] /\ chunks'["large"] = <<>>
        /\ errors' = errors /\ nPages' \in Nat /\ drift' \in Nat /\ reserved' \in [Sizes -> Nat]
        /\ PagesAreAccountedFor' /\ SizeIsTracked' /\ MonitorAgrees'
    <3>1. monitor' # "up" \/ (halfStarted' /\ locked' \in [Sizes -> Nat])
      BY <1>0, <1>2 DEF ResetFails, StartInv, TypeOK, monitorVars
    <3>2. pc = "reset" /\ Deallocate(0) /\ pc' = "query" /\ batchPage' = FALSE
      BY <1>2 DEF ResetFails
    <3> QED
      BY <3>1, <3>2, DeallocateBooks
  <2>2. TypeOK'
    BY <1>0, <1>2, <2>1, ZenonT(40) DEF ResetFails, TypeOK, monitorVars
  <2>3. StartInv' /\ LoopInv'
    BY <1>0, <1>2, <2>1 DEF ResetFails, StartInv, LoopInv, Loops, Gone, monitorVars
  <2> QED
    BY <2>1, <2>2, <2>3 DEF BooksInv
<1>3. CASE ResetWithoutBatchPage
  <2>1. /\ chunks' \in [Sizes -> Seq(1..ChunkEntries)] /\ chunks'["large"] = <<>>
        /\ errors' = errors /\ nPages' \in Nat /\ drift' \in Nat /\ reserved' \in [Sizes -> Nat]
        /\ PagesAreAccountedFor' /\ SizeIsTracked' /\ MonitorAgrees'
    <3>1. /\ pc = "reset" /\ Deallocate(0) /\ pc' = "query" /\ batchPage' = FALSE
          /\ locked' = None
      BY <1>3 DEF ResetWithoutBatchPage
    <3> QED
      BY <3>1, DeallocateBooks
  <2>2. TypeOK'
    <3>1. /\ capabilities' \in Capabilities \cup {{}} /\ halfStarted' \in BOOLEAN
          /\ monitor' \in {"down", "null", "up"}
      BY <1>3 DEF ResetWithoutBatchPage, Capabilities
    <3> QED
      BY <1>0, <1>1, <1>3, <2>1, <3>1 DEF ResetWithoutBatchPage, TypeOK
  <2>3. StartInv' /\ LoopInv'
    <3>1. halfStarted' \/ ("2m" \notin capabilities' /\ monitor' # "up")
      BY <1>3 DEF ResetWithoutBatchPage
    <3> QED
      BY <1>0, <1>3, <2>1, <3>1 DEF ResetWithoutBatchPage, StartInv, LoopInv, Loops, Gone
  <2> QED
    BY <2>1, <2>2, <2>3 DEF BooksInv
<1>4. CASE ResetStarts
  <2>1. PICK c \in Capabilities :
          /\ Deallocate(IF "batched" \in c THEN 1 ELSE 0)
          /\ capabilities' = c /\ batchPage' = ("batched" \in c) /\ ops' = OpsFor(c)
    BY <1>4 DEF ResetStarts
  <2>2. /\ chunks' \in [Sizes -> Seq(1..ChunkEntries)] /\ chunks'["large"] = <<>>
        /\ errors' = errors /\ nPages' \in Nat /\ drift' \in Nat /\ reserved' \in [Sizes -> Nat]
        /\ PagesAreAccountedFor' /\ SizeIsTracked' /\ MonitorAgrees'
    <3> DEFINE keep == IF "batched" \in c THEN 1 ELSE 0
    <3>1. keep \in {0, 1} /\ Deallocate(keep)
      BY <2>1
    <3>2. (batchPage' = TRUE /\ keep = 1) \/ (batchPage' = FALSE /\ keep = 0)
      <4>1. CASE "batched" \in c
        BY <2>1, <4>1
      <4>2. CASE "batched" \notin c
        <5>1. batchPage' = FALSE
          <6>1. batchPage' = ("batched" \in c)
            BY <2>1
          <6>2. ("batched" \in c) = FALSE
            BY <4>2
          <6> QED
            BY <6>1, <6>2
        <5>2. keep = 0
          BY <4>2
        <5> QED
          BY <5>1, <5>2
      <4> QED
        BY <4>1, <4>2
    <3> HIDE DEF keep
    <3>3. pc = "reset" /\ pc' = "query" /\ locked' = None
      BY <1>4 DEF ResetStarts
    <3> QED
      BY <3>1, <3>2, <3>3, DeallocateBooks
  <2>3. resetFlag' \in BOOLEAN /\ monitor' \in {"up", "down"} /\ (resetFlag' => monitor' # "up")
    BY <1>4 DEF ResetStarts
  <2>4. ops' \in {"basic", "batched"} /\ (ops' = "batched" <=> batchPage') /\ batchPage' \in BOOLEAN
        /\ ("2m" \in c => ops' = "batched")
    <3>1. batchPage' = TRUE \/ batchPage' = FALSE
      BY <2>1
    <3>2. "2m" \in c => "batched" \in c
      BY DEF Capabilities
    <3>3. ops' = IF "batched" \in c THEN "batched" ELSE "basic"
      BY <2>1 DEF OpsFor
    <3> QED
      BY <2>1, <3>1, <3>2, <3>3
  <2>5. TypeOK'
    BY <1>0, <1>1, <1>4, <2>1, <2>2, <2>3, <2>4 DEF ResetStarts, TypeOK
  <2>6. StartInv' /\ LoopInv'
    BY <1>4, <2>1, <2>2, <2>3, <2>4 DEF ResetStarts, StartInv, LoopInv, Loops, Gone
  <2> QED
    BY <2>2, <2>5, <2>6 DEF BooksInv
<1>5. CASE Cleanup
  <2>1. /\ chunks' \in [Sizes -> Seq(1..ChunkEntries)] /\ chunks'["large"] = <<>>
        /\ errors' = errors /\ nPages' \in Nat /\ drift' \in Nat /\ reserved' \in [Sizes -> Nat]
        /\ PagesAreAccountedFor' /\ SizeIsTracked' /\ MonitorAgrees'
    <3>1. pc = "idle" /\ Deallocate(0) /\ pc' = "unloaded" /\ batchPage' = FALSE
      BY <1>5 DEF Cleanup
    <3> QED
      BY <3>1, DeallocateBooks
  <2>2. monitor' \in {"down", "null", "up"} /\ locked' \in [Sizes -> Nat]
    BY <1>0, <1>1, <1>5 DEF Cleanup, TypeOK, monitorVars
  <2>3. TypeOK'
    BY <1>0, <1>5, <2>1, <2>2, ZenonT(60) DEF Cleanup, TypeOK
  <2>4. StartInv' /\ LoopInv'
    BY <1>0, <1>5, <2>1 DEF Cleanup, StartInv, LoopInv, Loops, Gone
  <2> QED
    BY <2>1, <2>3, <2>4 DEF BooksInv
<1> QED
  BY <1>2, <1>3, <1>4, <1>5
(***************************************************************************)
(* BalloonInflate.                                                         *)
(***************************************************************************)
LEMMA AllocPageBooks == ASSUME BooksInv, AllocPage PROVE BooksInv'
<1>0. /\ TypeOK /\ StartInv /\ LoopInv /\ PagesAreAccountedFor /\ loop \in LoopRecords
      /\ reserved \in [Sizes -> Nat]
  BY DEF BooksInv, TypeOK, LoopRecords
<1>1. /\ pc = "inflate" /\ loop.n \in Nat /\ loop.n < BatchMax /\ BatchMax \in Nat
      /\ BatchMax <= BatchEntries /\ BatchEntries \in Nat /\ loop.size \in Sizes
  BY <1>0, Numbers, Constants DEF AllocPage, LoopInv
<1>2. /\ loop' \in LoopRecords /\ loop'.n = loop.n + 1 /\ loop'.size = loop.size
  <2>1. loop' = [loop EXCEPT !.n = loop.n + 1, !.some = TRUE]
    BY DEF AllocPage
  <2>2. loop.n + 1 \in 0..BatchEntries
    BY <1>1
  <2> QED
    BY <1>0, <2>1, <2>2 DEF LoopRecords
<1>3. /\ pc' \in {"lock", "inflate", "finish"}
      /\ pc' # "lock" => loop.n + 1 # BatchMax
  BY DEF AllocPage
<1>4. reserved' = [reserved EXCEPT ![loop.size] = reserved[loop.size] + 1]
  BY DEF AllocPage
<1>5. TypeOK'
  <2>1. reserved' \in [Sizes -> Nat]
    BY <1>0, <1>1, <1>4
  <2> QED
    BY <1>0, <1>2, <1>3, <2>1, SMTT(30) DEF TypeOK, AllocPage, LoopRecords, listVars, startVars, monitorVars
<1>6. \A s \in Sizes : /\ Inflating(s)' = Inflating(s) + (IF s = loop.size THEN 1 ELSE 0)
                       /\ Deflating(s)' = 0 /\ Deflating(s) = 0
                       /\ Entries(s)' = Entries(s)
                       /\ reserved'[s] = reserved[s] + (IF s = loop.size THEN 1 ELSE 0)
  <2>1. \A s \in Sizes : Entries(s)' = Entries(s)
    BY DEF AllocPage, Entries, listVars
  <2>2. \A s \in Sizes : Deflating(s)' = 0 /\ Deflating(s) = 0
    BY <1>1, <1>3 DEF Deflating
  <2>3. \A s \in Sizes : Inflating(s)' = Inflating(s) + (IF s = loop.size THEN 1 ELSE 0)
    BY <1>1, <1>2, <1>3 DEF Inflating
  <2>4. \A s \in Sizes : reserved'[s] = reserved[s] + (IF s = loop.size THEN 1 ELSE 0)
    BY <1>0, <1>1, <1>4
  <2> QED
    BY <2>1, <2>2, <2>3, <2>4
<1>7. PagesAreAccountedFor'
  <2>1. errors' = errors /\ batchPage' = batchPage
    BY DEF AllocPage, listVars, startVars
  <2>2. \A s \in Sizes : /\ Entries(s) \in Nat /\ Inflating(s) \in Nat
                         /\ errors[s] \in Nat /\ reserved[s] \in Nat
    BY <1>0, Numbers
  <2>3. ASSUME NEW s \in Sizes
        PROVE  reserved'[s] = Entries(s)' + Inflating(s)' + Deflating(s)' + errors'[s]
                              + (IF s = "small" /\ batchPage' THEN 1 ELSE 0)
    <3> DEFINE x == IF s = "small" /\ batchPage THEN 1 ELSE 0
               y == IF s = loop.size THEN 1 ELSE 0
    <3>1. reserved[s] = Entries(s) + Inflating(s) + 0 + errors[s] + x
      BY <1>0, <1>1, <1>6 DEF PagesAreAccountedFor
    <3>2. /\ reserved'[s] = reserved[s] + y /\ Inflating(s)' = Inflating(s) + y
          /\ Entries(s)' = Entries(s) /\ Deflating(s)' = 0 /\ errors'[s] = errors[s]
      BY <1>6, <2>1
    <3>3. x \in Nat /\ y \in Nat
      OBVIOUS
    <3>4. (IF s = "small" /\ batchPage' THEN 1 ELSE 0) = x
      BY <2>1
    <3> HIDE DEF x, y
    <3> QED
      BY <2>2, <3>1, <3>2, <3>3, <3>4
  <2> QED
    BY <2>3 DEF PagesAreAccountedFor
<1>8. SizeIsTracked' /\ MonitorAgrees'
  BY <1>1, <1>6 DEF BooksInv, SizeIsTracked, MonitorAgrees, AllocPage, Sizes, listVars, startVars, monitorVars
<1>9. LoopInv'
  <2>1. BatchMax' = BatchMax /\ ops' = ops /\ batchPage' = batchPage
    BY DEF AllocPage, BatchMax, startVars
  <2>2. /\ ops = "batched" => batchPage
        /\ ops # "batched" => ops = "basic" /\ loop.size = "small" /\ loop.n = 0
    BY DEF AllocPage, AddPageIsSafe
  <2> QED
    BY <1>0, <1>1, <1>2, <1>3, <2>1, <2>2 DEF LoopInv, Loops
<1>10. StartInv'
  BY <1>0, <1>1, <1>3 DEF StartInv, AllocPage, Loops, Gone, startVars, monitorVars, listVars
<1> QED
  BY <1>5, <1>7, <1>8, <1>9, <1>10 DEF BooksInv

LEMMA ErrorPagesFreeBooks == ASSUME BooksInv, ErrorPagesFree PROVE BooksInv'
<1>0. TypeOK /\ StartInv /\ PagesAreAccountedFor
  BY DEF BooksInv
<1>1. \A s \in Sizes : /\ Inflating(s) = 0 /\ Deflating(s) = 0
                       /\ Inflating(s)' = 0 /\ Deflating(s)' = 0 /\ Entries(s)' = Entries(s)
  BY DEF ErrorPagesFree, Inflating, Deflating, Entries
<1>2. \A s \in Sizes : Entries(s) \in Nat /\ errors[s] \in Nat
  BY <1>0, Numbers
<1>3. \A s \in Sizes : reserved[s] = Entries(s) + errors[s] + (IF s = "small" /\ batchPage THEN 1 ELSE 0)
  BY <1>0, <1>1, <1>2 DEF PagesAreAccountedFor, ErrorPagesFree
<1>4. /\ reserved' = [s \in Sizes |-> reserved[s] - errors[s]] /\ errors' = None
      /\ batchPage' = batchPage
  BY DEF ErrorPagesFree, startVars
<1>5. \A s \in Sizes : /\ reserved'[s] = Entries(s) + (IF s = "small" /\ batchPage THEN 1 ELSE 0)
                       /\ errors'[s] = 0
  BY <1>2, <1>3, <1>4 DEF None
<1>6. PagesAreAccountedFor'
  BY <1>1, <1>2, <1>4, <1>5 DEF PagesAreAccountedFor
<1>7. TypeOK'
  <2>1. reserved' \in [Sizes -> Nat]
    BY <1>2, <1>4, <1>5
  <2>2. errors' \in [Sizes -> 0..ErrorPages]
    BY <1>4, Constants DEF None
  <2> QED
    BY <1>0, <2>1, <2>2, NoLoopType, SMTT(30) DEF TypeOK, ErrorPagesFree, LoopRecords, startVars, monitorVars
<1>8. SizeIsTracked' /\ MonitorAgrees'
  BY <1>1 DEF BooksInv, SizeIsTracked, MonitorAgrees, ErrorPagesFree, Sizes, startVars, monitorVars
<1>9. LoopInv'
  BY DEF LoopInv, ErrorPagesFree, Loops
<1>10. StartInv'
  BY <1>0 DEF StartInv, ErrorPagesFree, Loops, Gone, startVars, monitorVars
<1> QED
  BY <1>6, <1>7, <1>8, <1>9, <1>10 DEF BooksInv

\* Where the loop is after a lock: the batch is empty, whatever became of its pages.
LEMMA LoopAfterLock ==
  ASSUME BooksInv, pc = "lock", NEW success \in BOOLEAN, NEW ts \in SUBSET (Targets \cup {0}),
         AfterLock(success, ts)
  PROVE  /\ loop' \in LoopRecords /\ loop'.n = 0
         /\ loop'.size = "large" => loop.size = "large"
         /\ pc' \in {"inflate", "finish"}
         /\ \A s \in Sizes : /\ Inflating(s)' = 0 /\ Deflating(s)' = 0 /\ Deflating(s) = 0
                             /\ Inflating(s) = IF s = loop.size THEN loop.n ELSE 0
         /\ UNCHANGED <<ops, halfStarted>> => LoopInv'
<1>0. loop \in LoopRecords /\ loop.target \in Targets \cup {0} /\ TypeOK /\ LoopInv
  BY Numbers DEF BooksInv, TypeOK, LoopRecords
<1>1. PICK t \in Targets \cup {0} :
        loop' = IF loop.then = "small" THEN [Smaller(loop) EXCEPT !.target = t]
                ELSE [loop EXCEPT !.n = 0, !.target = t]
  BY <1>0 DEF AfterLock
<1>2. 0 \in 0..BatchEntries
  BY Constants
<1>3. Smaller(loop) \in LoopRecords /\ Smaller(loop).n = 0 /\ Smaller(loop).size = "small"
  BY <1>0, <1>2 DEF Smaller, LoopRecords, Sizes, AllocTypes
<1>4. loop' \in LoopRecords /\ loop'.n = 0 /\ (loop'.size = "large" => loop.size = "large")
  BY <1>0, <1>1, <1>2, <1>3 DEF LoopRecords
<1>5. pc' \in {"inflate", "finish"}
  BY DEF AfterLock
<1>6. \A s \in Sizes : /\ Inflating(s)' = 0 /\ Deflating(s)' = 0 /\ Deflating(s) = 0
                       /\ Inflating(s) = IF s = loop.size THEN loop.n ELSE 0
  BY <1>4, <1>5 DEF Inflating, Deflating
<1>7. ASSUME UNCHANGED <<ops, halfStarted>>
      PROVE  LoopInv'
  <2>1. BatchMax' = BatchMax /\ BatchMax > 0
    BY <1>0, <1>7, Numbers DEF BatchMax
  <2>2. loop.n > 0 /\ loop.n \in Nat
    BY <1>0, Numbers DEF LoopInv
  <2> QED
    BY <1>0, <1>4, <1>5, <1>7, <2>1, <2>2 DEF LoopInv, Loops
<1> QED
  BY <1>4, <1>5, <1>6, <1>7

LEMMA TargetsOfMonitor ==
  ASSUME TypeOK
  PROVE  AnyTarget \in SUBSET (Targets \cup {0}) /\ {loop.target} \in SUBSET (Targets \cup {0})
  BY Numbers DEF AnyTarget, TypeOK

\* Pages that were not locked are freed.
LEMMA LockFailsBooks == ASSUME BooksInv, LockBatchFails \/ LockOneFails PROVE BooksInv'
<1>0. /\ TypeOK /\ StartInv /\ LoopInv /\ PagesAreAccountedFor /\ reserved \in [Sizes -> Nat]
      /\ pc = "lock" /\ loop.size \in Sizes
  BY Numbers DEF BooksInv, TypeOK, LockBatchFails, LockOneFails
<1>1. PICK ts \in SUBSET (Targets \cup {0}) : AfterLock(FALSE, ts)
  BY <1>0, TargetsOfMonitor DEF LockBatchFails, LockOneFails
<1>2. /\ loop' \in LoopRecords /\ loop'.n = 0 /\ pc' \in {"inflate", "finish"} /\ (UNCHANGED <<ops, halfStarted>> => LoopInv')
      /\ \A s \in Sizes : /\ Inflating(s)' = 0 /\ Deflating(s)' = 0 /\ Deflating(s) = 0
                          /\ Inflating(s) = IF s = loop.size THEN loop.n ELSE 0
  BY <1>0, <1>1, LoopAfterLock
<1>3. resetFlag' \in BOOLEAN /\ (resetFlag' => resetFlag \/ monitor # "up")
  <2>1. resetFlag' = resetFlag \/ (monitor # "up" /\ resetFlag' = TRUE)
    BY DEF LockBatchFails, LockOneFails, LockCommandFails
  <2>2. resetFlag \in BOOLEAN
    BY <1>0 DEF TypeOK
  <2>3. CASE resetFlag' = resetFlag
    BY <2>2, <2>3
  <2>4. CASE monitor # "up" /\ resetFlag' = TRUE
    BY <2>4
  <2> QED
    BY <2>1, <2>3, <2>4
<1>4. UNCHANGED <<listVars, nPagesTarget, capabilities, ops, batchPage, halfStarted, fallback,
                  monitorVars, calm>>
  BY DEF LockBatchFails, LockOneFails
<1>5. reserved' = [reserved EXCEPT ![loop.size] = reserved[loop.size] - loop.n]
  <2>1. CASE LockBatchFails
    BY <2>1 DEF LockBatchFails
  <2>2. CASE LockOneFails
    <3>1. ops = "basic"
      BY <2>2 DEF LockOneFails
    <3>2. loop.n = 1 /\ loop.size = "small"
      BY <1>0, <3>1, OneSmallPage
    <3>3. reserved' = [reserved EXCEPT !["small"] = reserved["small"] - 1]
      BY <2>2 DEF LockOneFails
    <3> QED
      BY <3>2, <3>3
  <2> QED
    BY <2>1, <2>2
<1>6. \A s \in Sizes : /\ Entries(s)' = Entries(s)
                       /\ reserved'[s] = reserved[s] - (IF s = loop.size THEN loop.n ELSE 0)
  <2>1. \A s \in Sizes : Entries(s)' = Entries(s)
    BY <1>4 DEF Entries, listVars
  <2>2. \A s \in Sizes : reserved[s] \in Nat
    BY <1>0
  <2> QED
    BY <1>0, <1>5, <2>1, <2>2
<1>7. /\ PagesAreAccountedFor'
      /\ \A s \in Sizes : reserved'[s] \in Nat
  <2>1. errors' = errors /\ batchPage' = batchPage
    BY <1>4 DEF listVars
  <2>2. \A s \in Sizes : Entries(s) \in Nat /\ errors[s] \in Nat /\ loop.n \in Nat
    BY <1>0, Numbers
  <2>3. \A s \in Sizes :
          reserved'[s] = Entries(s) + errors[s] + (IF s = "small" /\ batchPage THEN 1 ELSE 0)
    BY <1>0, <1>2, <1>6, <2>2 DEF PagesAreAccountedFor
  <2> QED
    BY <1>2, <1>6, <2>1, <2>2, <2>3 DEF PagesAreAccountedFor
<1>8. TypeOK'
  <2>1. reserved' \in [Sizes -> Nat]
    BY <1>0, <1>5, <1>7
  <2> QED
    BY <1>0, <1>2, <1>3, <1>4, <2>1 DEF TypeOK, LoopRecords, listVars, monitorVars
<1>9. SizeIsTracked' /\ MonitorAgrees'
  BY <1>0, <1>2, <1>4, <1>6 DEF BooksInv, SizeIsTracked, MonitorAgrees, Sizes, listVars, monitorVars
<1>10. StartInv'
  BY <1>0, <1>2, <1>3, <1>4 DEF StartInv, Loops, Gone, monitorVars, listVars
<1> QED
  BY <1>2, <1>4, <1>7, <1>8, <1>9, <1>10 DEF BooksInv
\* Pages that were locked are in a chunk, and some that were not are on the error list.
LEMMA LockedBooks ==
  ASSUME BooksInv, pc = "lock", AfterLock(TRUE, AnyTarget),
         NEW good \in Nat, NEW kept \in Nat, NEW s \in Sizes, s = loop.size,
         good + kept <= loop.n, kept <= ErrorPages - errors[s],
         chunks' = [chunks EXCEPT ![s] = Stored(s, good)],
         errors' = [errors EXCEPT ![s] = errors[s] + kept],
         NEW more \in Nat, locked' = [locked EXCEPT ![s] = locked[s] + more],
         more = good \/ (more = 0 /\ good = 1 /\ locked[s] > Entries(s)),
         reserved' = [reserved EXCEPT ![s] = reserved[s] - (loop.n - good - kept)],
         nPages' = nPages + good * PagesPerEntry(s),
         UNCHANGED <<drift, nPagesTarget, startVars, fallback, monitor, calm>>,
         s = "large" => ops = "batched"
  PROVE  BooksInv'
<1>0. /\ TypeOK /\ StartInv /\ LoopInv /\ PagesAreAccountedFor /\ SizeIsTracked /\ MonitorAgrees
      /\ reserved \in [Sizes -> Nat] /\ locked \in [Sizes -> Nat]
      /\ errors \in [Sizes -> 0..ErrorPages] /\ chunks \in [Sizes -> Lists] /\ nPages \in Nat
  BY DEF BooksInv, TypeOK, Lists
<1>1. /\ loop' \in LoopRecords /\ loop'.n = 0 /\ pc' \in {"inflate", "finish"} /\ LoopInv'
      /\ \A r \in Sizes : /\ Inflating(r)' = 0 /\ Deflating(r)' = 0 /\ Deflating(r) = 0
                          /\ Inflating(r) = IF r = loop.size THEN loop.n ELSE 0
  <2>1. UNCHANGED <<ops, halfStarted>>
    BY DEF startVars
  <2> QED
    BY <1>0, <2>1, LoopAfterLock, TargetsOfMonitor
<1>2. /\ loop.n \in Nat /\ loop.n <= BatchEntries /\ BatchEntries \in Nat /\ ErrorPages \in Nat
      /\ \A r \in Sizes : Entries(r) \in Nat /\ errors[r] \in Nat /\ reserved[r] \in Nat /\ locked[r] \in Nat
  BY <1>0, Numbers, Constants
<1>3. /\ Stored(s, good) \in Lists
      /\ Cardinality(Slots(Stored(s, good))) = Entries(s) + good
  <2>1. good \in 0..BatchEntries
    BY <1>2
  <2> QED
    BY <1>0, <2>1, PagesStored
<1>4. chunks' \in [Sizes -> Lists] /\ chunks'[s] = Stored(s, good)
      /\ \A r \in Sizes : r # s => chunks'[r] = chunks[r]
  BY <1>0, <1>3
<1>5. Entries(s)' = Entries(s) + good /\ \A r \in Sizes : r # s => Entries(r)' = Entries(r)
  BY <1>3, <1>4 DEF Entries
<1>6. /\ errors'[s] = errors[s] + kept /\ locked'[s] = locked[s] + more
      /\ reserved'[s] = reserved[s] - (loop.n - good - kept)
      /\ \A r \in Sizes : r # s => errors'[r] = errors[r] /\ locked'[r] = locked[r]
                                   /\ reserved'[r] = reserved[r]
  BY <1>0
<1>7. ASSUME NEW r \in Sizes
      PROVE  /\ reserved'[r] = Entries(r)' + Inflating(r)' + Deflating(r)' + errors'[r]
                               + (IF r = "small" /\ batchPage' THEN 1 ELSE 0)
             /\ reserved'[r] \in Nat
  <2> DEFINE x == IF r = "small" /\ batchPage THEN 1 ELSE 0
  <2>1. x \in Nat /\ (IF r = "small" /\ batchPage' THEN 1 ELSE 0) = x
    BY DEF startVars
  <2>2. reserved[r] = Entries(r) + Inflating(r) + Deflating(r) + errors[r] + x
    BY <1>0 DEF PagesAreAccountedFor
  <2> HIDE DEF x
  <2>3. CASE r = s
    BY <1>1, <1>2, <1>5, <1>6, <2>1, <2>2, <2>3
  <2>4. CASE r # s
    BY <1>1, <1>2, <1>5, <1>6, <2>1, <2>2, <2>4
  <2> QED
    BY <2>3, <2>4
<1>8. PagesAreAccountedFor'
  BY <1>7 DEF PagesAreAccountedFor
<1>9. SizeIsTracked' /\ nPages' \in Nat
  <2>1. /\ nPages = Entries("small") + 0 + Large * (Entries("large") + 0) + drift
        /\ Entries("small") \in Nat /\ Entries("large") \in Nat /\ drift \in Nat
        /\ Large \in Nat /\ drift' = drift
    BY <1>0, <1>1, <1>2, Constants DEF SizeIsTracked, TypeOK, Sizes
  <2>2. nPages' = Entries("small")' + 0 + Large * (Entries("large")' + 0) + drift'
    <3>1. CASE s = "small"
      BY <1>5, <2>1, <3>1 DEF PagesPerEntry, Sizes
    <3>2. CASE s = "large"
      <4>1. nPages' = nPages + good * Large
        BY <3>2 DEF PagesPerEntry
      <4>2. Entries("small")' = Entries("small") /\ Entries("large")' = Entries("large") + good
        BY <1>5, <3>2 DEF Sizes
      <4>3. Large * ((Entries("large") + good) + 0) = Large * (Entries("large") + 0) + good * Large
        BY <2>1
      <4> DEFINE a == Large * (Entries("large") + 0)
                 b == good * Large
      <4>4. a \in Nat /\ b \in Nat
        BY <2>1
      <4> HIDE DEF a, b
      <4>5. nPages + b = Entries("small") + 0 + (a + b) + drift
        <5>1. nPages = Entries("small") + 0 + a + drift
          BY <2>1 DEF a
        <5> QED
          BY <2>1, <4>4, <5>1
      <4> QED
        BY <2>1, <4>1, <4>2, <4>3, <4>5 DEF a, b
    <3> QED
      BY <3>1, <3>2 DEF Sizes
  <2>3. SizeIsTracked'
    BY <1>1, <2>2 DEF SizeIsTracked, Sizes
  <2>4. nPages' \in Nat
    <3>1. PagesPerEntry(s) \in Nat
      BY Constants DEF PagesPerEntry
    <3> QED
      BY <1>0, <3>1
  <2> QED
    BY <2>3, <2>4
<1>10. MonitorAgrees' /\ locked' \in [Sizes -> Nat]
  <2>1. locked' \in [Sizes -> Nat]
    BY <1>0, <1>2
  <2>2. ASSUME monitor' = "up", NEW r \in Sizes
        PROVE  /\ locked'[r] >= Entries(r)' + Deflating(r)'
               /\ ~halfStarted' => locked'[r] = Entries(r)' + Deflating(r)'
    <3>0. monitor = "up" /\ pc \notin {"unloaded", "crashed"} /\ Deflating(r) = 0
      BY <1>1, <2>2
    <3>1. /\ locked[r] >= Entries(r) + 0 /\ (~halfStarted => locked[r] = Entries(r) + 0)
          /\ halfStarted' = halfStarted
      BY <1>0, <3>0, Zenon DEF MonitorAgrees, startVars
    <3>2. CASE r = s
      BY <1>1, <1>2, <1>5, <1>6, <3>1, <3>2
    <3>3. CASE r # s
      BY <1>1, <1>2, <1>5, <1>6, <3>1, <3>3
    <3> QED
      BY <3>2, <3>3
  <2> QED
    BY <2>1, <2>2 DEF MonitorAgrees
<1>11. TypeOK'
  <2>1. errors' \in [Sizes -> 0..ErrorPages]
    <3>1. errors[s] + kept \in 0..ErrorPages
      BY <1>2
    <3> QED
      BY <1>0, <3>1
  <2>2. reserved' \in [Sizes -> Nat]
    <3>1. reserved[s] - (loop.n - good - kept) \in Nat
      BY <1>6, <1>7
    <3> QED
      BY <1>0, <3>1
  <2> QED
    BY <1>0, <1>1, <1>4, <1>9, <1>10, <2>1, <2>2, ZenonT(40) DEF TypeOK, LoopRecords, Lists, startVars
<1>12. StartInv'
  <2>1. ops # "batched" => chunks'["large"] = <<>>
    BY <1>0, <1>4 DEF StartInv, Sizes
  <2> QED
    BY <1>0, <1>1, <2>1 DEF StartInv, Loops, Gone, startVars
<1> QED
  BY <1>1, <1>8, <1>9, <1>10, <1>11, <1>12 DEF BooksInv

LEMMA LockBatchBooks == ASSUME BooksInv, LockBatch PROVE BooksInv'
<1>0. TypeOK /\ loop.size \in Sizes /\ loop.n \in Nat /\ errors[loop.size] \in Nat
      /\ errors[loop.size] <= ErrorPages /\ ErrorPages \in Nat
  BY Numbers, Constants DEF BooksInv
<1> DEFINE s == loop.size
           room == ErrorPages - errors[s]
<1>1. PICK good \in 0..loop.n : \E bad \in 0..(loop.n - good) :
        LET kept == IF bad < room THEN bad ELSE room
        IN /\ chunks' = [chunks EXCEPT ![s] = Stored(s, good)]
           /\ errors' = [errors EXCEPT ![s] = @ + kept]
           /\ locked' = [locked EXCEPT ![s] = @ + good]
           /\ nPages' = nPages + CountsLocked(good) * PagesPerEntry(s)
           /\ reserved' = [reserved EXCEPT ![s] = @ - (loop.n - good - kept)]
  BY DEF LockBatch
<1>2. PICK bad \in 0..(loop.n - good) :
        LET kept == IF bad < room THEN bad ELSE room
        IN /\ chunks' = [chunks EXCEPT ![s] = Stored(s, good)]
           /\ errors' = [errors EXCEPT ![s] = @ + kept]
           /\ locked' = [locked EXCEPT ![s] = @ + good]
           /\ nPages' = nPages + CountsLocked(good) * PagesPerEntry(s)
           /\ reserved' = [reserved EXCEPT ![s] = @ - (loop.n - good - kept)]
  BY <1>1
<1> DEFINE kept == IF bad < room THEN bad ELSE room
<1>3. good \in Nat /\ kept \in Nat /\ good + kept <= loop.n /\ kept <= ErrorPages - errors[s]
  BY <1>0
<1>4. /\ chunks' = [chunks EXCEPT ![s] = Stored(s, good)]
      /\ errors' = [errors EXCEPT ![s] = errors[s] + kept]
      /\ locked' = [locked EXCEPT ![s] = locked[s] + good]
      /\ nPages' = nPages + good * PagesPerEntry(s)
      /\ reserved' = [reserved EXCEPT ![s] = reserved[s] - (loop.n - good - kept)]
  BY <1>2 DEF CountsLocked
<1>5. /\ pc = "lock" /\ AfterLock(TRUE, AnyTarget) /\ ops = "batched"
      /\ UNCHANGED <<drift, nPagesTarget, startVars, fallback, monitor, calm>>
  BY DEF LockBatch
<1> HIDE DEF kept, room, s
<1>6. s \in Sizes /\ s = loop.size
  BY <1>0 DEF s
<1> QED
  BY <1>3, <1>4, <1>5, <1>6, LockedBooks

LEMMA LockOneBooks == ASSUME BooksInv, LockOne PROVE BooksInv'
<1>0. TypeOK /\ StartInv /\ LoopInv /\ pc = "lock" /\ ops = "basic" /\ "small" \in Sizes
  BY DEF BooksInv, LockOne, Sizes
<1>1. loop.n = 1 /\ loop.size = "small"
  BY <1>0, OneSmallPage
<1>2. /\ chunks' = [chunks EXCEPT !["small"] = Stored("small", 1)]
      /\ nPages' = nPages + 1 * PagesPerEntry("small")
      /\ AfterLock(TRUE, AnyTarget)
      /\ UNCHANGED <<drift, nPagesTarget, startVars, fallback, monitor, calm>>
  <2>1. nPages' = nPages + 1 /\ PagesPerEntry("small") = 1
    BY DEF LockOne, PagesPerEntry
  <2>2. nPages' = nPages + 1 * PagesPerEntry("small")
    BY <2>1
  <2> QED
    BY <2>2 DEF LockOne
<1>3. errors \in [Sizes -> 0..ErrorPages] /\ reserved \in [Sizes -> Nat] /\ ErrorPages \in Nat
  BY <1>0, Constants DEF TypeOK
<1>4. /\ errors' = [errors EXCEPT !["small"] = errors["small"] + 0]
      /\ reserved' = [reserved EXCEPT !["small"] = reserved["small"] - (loop.n - 1 - 0)]
      /\ 0 <= ErrorPages - errors["small"]
  <2>1. errors' = errors /\ reserved' = reserved
    BY DEF LockOne
  <2>2. errors["small"] + 0 = errors["small"] /\ errors["small"] <= ErrorPages
        /\ reserved["small"] - (loop.n - 1 - 0) = reserved["small"] /\ errors["small"] \in Nat
    BY <1>0, <1>1, <1>3
  <2> QED
    BY <1>3, <2>1, <2>2
<1>5. 1 + 0 <= loop.n /\ 1 \in Nat /\ 0 \in Nat
  BY <1>1
<1>6. CASE locked' = [locked EXCEPT !["small"] = locked["small"] + 1]
  BY <1>0, <1>1, <1>2, <1>4, <1>5, <1>6, LockedBooks
<1>7. CASE locked["small"] > Entries("small") /\ locked' = locked
  <2>1. locked' = [locked EXCEPT !["small"] = locked["small"] + 0]
    <3>1. locked \in [Sizes -> Nat]
      BY <1>0 DEF TypeOK
    <3>2. locked["small"] + 0 = locked["small"]
      BY <1>0, <3>1
    <3> QED
      BY <1>7, <3>1, <3>2
  <2> QED
    BY <1>0, <1>1, <1>2, <1>4, <1>5, <1>7, <2>1, LockedBooks
<1> QED
  BY <1>6, <1>7 DEF LockOne

LEMMA LockOneRefusedBooks == ASSUME BooksInv, LockOneRefused PROVE BooksInv'
<1>0. /\ TypeOK /\ StartInv /\ LoopInv /\ PagesAreAccountedFor /\ pc = "lock" /\ ops = "basic"
      /\ errors \in [Sizes -> 0..ErrorPages] /\ "small" \in Sizes
  BY DEF BooksInv, LockOneRefused, TypeOK, Sizes
<1>1. loop.n = 1 /\ loop.size = "small"
  BY <1>0, OneSmallPage
<1>2. /\ AfterLock(FALSE, AnyTarget) /\ errors["small"] < ErrorPages
      /\ errors' = [errors EXCEPT !["small"] = errors["small"] + 1]
      /\ UNCHANGED <<chunks, nPages, drift, nPagesTarget, startVars, fallback, monitorVars, reserved, calm>>
  BY DEF LockOneRefused
<1>3. /\ loop' \in LoopRecords /\ loop'.n = 0 /\ pc' \in {"inflate", "finish"} /\ LoopInv'
      /\ \A r \in Sizes : /\ Inflating(r)' = 0 /\ Deflating(r)' = 0 /\ Deflating(r) = 0
                          /\ Inflating(r) = IF r = loop.size THEN loop.n ELSE 0
  <2>1. UNCHANGED <<ops, halfStarted>>
    BY <1>2 DEF startVars
  <2> QED
    BY <1>0, <1>2, <2>1, LoopAfterLock, TargetsOfMonitor
<1>4. \A r \in Sizes : Entries(r)' = Entries(r) /\ Entries(r) \in Nat /\ errors[r] \in Nat
  BY <1>0, <1>2, Numbers DEF Entries
<1>5. ErrorPages \in Nat
  BY Constants
<1>6. PagesAreAccountedFor'
  <2> SUFFICES ASSUME NEW r \in Sizes
               PROVE  reserved'[r] = Entries(r)' + Inflating(r)' + Deflating(r)' + errors'[r]
                                     + (IF r = "small" /\ batchPage' THEN 1 ELSE 0)
    BY DEF PagesAreAccountedFor
  <2> DEFINE x == IF r = "small" /\ batchPage THEN 1 ELSE 0
  <2>1. x \in Nat /\ (IF r = "small" /\ batchPage' THEN 1 ELSE 0) = x /\ reserved' = reserved
    BY <1>2 DEF startVars
  <2>2. reserved[r] = Entries(r) + Inflating(r) + Deflating(r) + errors[r] + x
    BY <1>0 DEF PagesAreAccountedFor
  <2>3. /\ r = "small" => errors'[r] = errors[r] + 1
        /\ r # "small" => errors'[r] = errors[r]
    BY <1>0, <1>2
  <2> HIDE DEF x
  <2> QED
    BY <1>1, <1>3, <1>4, <2>1, <2>2, <2>3
<1>7. TypeOK'
  <2>1. errors' \in [Sizes -> 0..ErrorPages]
    <3>1. errors["small"] + 1 \in 0..ErrorPages
      BY <1>2, <1>4, <1>5, <1>0
    <3> QED
      BY <1>0, <1>2, <3>1
  <2> QED
    BY <1>0, <1>2, <1>3, <2>1 DEF TypeOK, LoopRecords, startVars, monitorVars
<1>8. SizeIsTracked' /\ MonitorAgrees'
  BY <1>0, <1>2, <1>3, <1>4 DEF BooksInv, SizeIsTracked, MonitorAgrees, Sizes, startVars, monitorVars
<1>9. StartInv'
  BY <1>0, <1>2, <1>3 DEF StartInv, Loops, Gone, startVars, monitorVars
<1> QED
  BY <1>3, <1>6, <1>7, <1>8, <1>9 DEF BooksInv
(***************************************************************************)
(* BalloonDeflate.                                                         *)
(***************************************************************************)
\* One page leaves its chunk for the batch, and an emptied chunk leaves the list.
LEMMA TakePageBooks == ASSUME BooksInv, TakePage PROVE BooksInv'
<1>s. PICK s \in Sizes : s = loop.size
  BY Numbers DEF BooksInv
<1> DEFINE i == IF loop.cur = 0 THEN 1 ELSE loop.cur
           c == chunks[s]
           new == Taken(c, i)
<1>0. /\ TypeOK /\ StartInv /\ LoopInv /\ PagesAreAccountedFor /\ SizeIsTracked /\ MonitorAgrees
      /\ pc = "deflate" /\ chunks \in [Sizes -> Lists] /\ loop \in LoopRecords
      /\ c \in Lists /\ c # <<>>
  BY <1>s DEF BooksInv, TakePage, DeflateMore, TypeOK, Lists, LoopRecords
<1>1. /\ loop.n \in Nat /\ loop.n < BatchMax /\ BatchMax \in Nat /\ BatchMax <= BatchEntries
      /\ BatchEntries \in Nat /\ loop.cur \in Nat /\ loop.cur <= Len(c) /\ Len(c) \in Nat
  BY <1>s, <1>0, Numbers, Constants, ListMember DEF LoopInv
<1>2. i \in 1..Len(c) /\ c[i] \in 1..ChunkEntries /\ i \in Nat /\ ChunkEntries \in Nat
  <2>1. Len(c) # 0
    BY <1>0 DEF Lists
  <2>2. i \in 1..Len(c)
    BY <1>1, <2>1
  <2> QED
    BY <1>0, <2>2, ListMember, Constants
<1>3. /\ new \in Lists /\ Cardinality(Slots(new)) = Entries(s) - 1
      /\ c[i] # 1 => Len(new) = Len(c)
  <2>0. Entries(s) = Cardinality(Slots(c)) /\ Entries(s) \in Nat
    BY <1>0, Numbers DEF Entries
  <2>1. CASE c[i] = 1
    <3>1. /\ Unlinked(c, i) \in Lists
          /\ Cardinality(Slots(c)) = Cardinality(Slots(Unlinked(c, i))) + c[i]
      BY <1>0, <1>2, ChunkUnlinked
    <3>2. Cardinality(Slots(Unlinked(c, i))) \in Nat
      BY <3>1, SlotsFinite
    <3>3. new = Unlinked(c, i)
      BY <2>1 DEF Taken
    <3> HIDE DEF new
    <3> QED
      BY <2>0, <2>1, <3>1, <3>2, <3>3
  <2>2. CASE c[i] # 1
    <3>1. c[i] - 1 \in 1..ChunkEntries
      BY <1>2, <2>2
    <3>2. /\ [c EXCEPT ![i] = c[i] - 1] \in Lists /\ Len([c EXCEPT ![i] = c[i] - 1]) = Len(c)
          /\ Cardinality(Slots([c EXCEPT ![i] = c[i] - 1])) = Cardinality(Slots(c)) - c[i] + (c[i] - 1)
      BY <1>0, <1>2, <3>1, ChunkChanges
    <3>3. new = [c EXCEPT ![i] = c[i] - 1]
      BY <2>2 DEF Taken
    <3> HIDE DEF new
    <3> QED
      BY <1>2, <2>0, <2>2, <3>2, <3>3
  <2> QED
    BY <2>1, <2>2
<1>4. /\ chunks' = [chunks EXCEPT ![s] = new]
      /\ fallback' \in BOOLEAN
      /\ pc' \in IF loop.n + 1 = BatchMax THEN {"unlock"} ELSE {"deflate", "unlock"}
      /\ loop' = [loop EXCEPT !.n = loop.n + 1, !.cur = IF c[i] = 1 THEN 0 ELSE i,
                              !.then = IF pc' = "unlock" /\ loop.n + 1 < BatchMax THEN "done" ELSE "loop"]
      /\ UNCHANGED <<errors, nPages, drift, nPagesTarget, startVars, monitorVars, reserved, calm>>
  <2>1. fallback \in BOOLEAN /\ (fallback' = (fallback \/ c[i] = 1))
    BY <1>s, <1>0 DEF TakePage, TypeOK
  <2>2. fallback' \in BOOLEAN
    BY <2>1
  <2>3. chunks' = [chunks EXCEPT ![s] = new]
    BY <1>s DEF TakePage
  <2>4. pc' \in IF loop.n + 1 = BatchMax THEN {"unlock"} ELSE {"deflate", "unlock"}
    BY DEF TakePage
  <2>5. loop' = [loop EXCEPT !.n = loop.n + 1, !.cur = IF c[i] = 1 THEN 0 ELSE i,
                             !.then = IF pc' = "unlock" /\ loop.n + 1 < BatchMax THEN "done" ELSE "loop"]
    BY <1>s DEF TakePage
  <2>6. UNCHANGED <<errors, nPages, drift, nPagesTarget, startVars, monitorVars, reserved, calm>>
    BY DEF TakePage
  <2> QED
    BY <2>2, <2>3, <2>4, <2>5, <2>6
<1> HIDE DEF new
<1>5. /\ chunks' \in [Sizes -> Lists] /\ chunks'[s] = new
      /\ \A r \in Sizes : r # s => chunks'[r] = chunks[r]
  BY <1>0, <1>3, <1>4
<1>6. /\ loop' \in LoopRecords /\ loop'.n = loop.n + 1 /\ loop'.size = s
      /\ loop'.cur = IF c[i] = 1 THEN 0 ELSE i
  <2> DEFINE next == IF c[i] = 1 THEN 0 ELSE i
             done == IF pc' = "unlock" /\ loop.n + 1 < BatchMax THEN "done" ELSE "loop"
  <2>1. loop.n + 1 \in 0..BatchEntries
    BY <1>1
  <2>2. next \in Nat /\ done \in {"loop", "small", "done"}
    BY <1>2
  <2>3. loop' = [loop EXCEPT !.n = loop.n + 1, !.cur = next, !.then = done]
    BY <1>4
  <2> HIDE DEF next, done
  <2>4. /\ loop' \in LoopRecords /\ loop'.n = loop.n + 1 /\ loop'.size = s /\ loop'.cur = next
    BY <1>s, <1>0, <2>1, <2>2, <2>3 DEF LoopRecords
  <2> QED
    BY <2>4 DEF next
<1>7. Entries(s)' = Entries(s) - 1 /\ \A r \in Sizes : r # s => Entries(r)' = Entries(r)
  BY <1>3, <1>5 DEF Entries
<1>8. pc' \in {"deflate", "unlock"} /\ (pc' = "deflate" => loop.n + 1 # BatchMax)
  BY <1>4
<1> HIDE DEF i, c
<1>9. ASSUME NEW r \in Sizes
      PROVE  /\ Entries(r)' + Deflating(r)' = Entries(r) + Deflating(r)
             /\ Inflating(r)' = 0 /\ Inflating(r) = 0
             /\ Entries(r) \in Nat /\ Deflating(r) \in Nat /\ Entries(r)' \in Nat /\ Deflating(r)' \in Nat
  <2>1. Inflating(r)' = 0 /\ Inflating(r) = 0
    BY <1>0, <1>8 DEF Inflating
  <2>2. Deflating(r) = (IF r = s THEN loop.n ELSE 0) /\ Deflating(r)' = (IF r = s THEN loop.n + 1 ELSE 0)
    BY <1>s, <1>0, <1>6, <1>8 DEF Deflating
  <2>3. Entries(r) \in Nat
    BY <1>0, Numbers
  <2>4. Entries(r)' \in Nat
    BY <1>5, SlotsFinite DEF Entries
  <2> QED
    BY <1>1, <1>7, <2>1, <2>2, <2>3, <2>4
<1>10. PagesAreAccountedFor'
  <2> SUFFICES ASSUME NEW r \in Sizes
               PROVE  reserved'[r] = Entries(r)' + Inflating(r)' + Deflating(r)' + errors'[r]
                                     + (IF r = "small" /\ batchPage' THEN 1 ELSE 0)
    BY DEF PagesAreAccountedFor
  <2> DEFINE x == IF r = "small" /\ batchPage THEN 1 ELSE 0
  <2>1. /\ x \in Nat /\ (IF r = "small" /\ batchPage' THEN 1 ELSE 0) = x
        /\ reserved' = reserved /\ errors' = errors
    BY <1>4 DEF startVars
  <2>2. reserved[r] = Entries(r) + Inflating(r) + Deflating(r) + errors[r] + x
    BY <1>0 DEF PagesAreAccountedFor
  <2>3. errors[r] \in Nat
    BY <1>0, Numbers
  <2> HIDE DEF x
  <2> QED
    BY <1>9, <2>1, <2>2, <2>3
<1>11. SizeIsTracked'
  <2>1. nPages = Entries("small") + Deflating("small") + Large * (Entries("large") + Deflating("large")) + drift
    BY <1>0 DEF SizeIsTracked
  <2>2. /\ Entries("small")' + Deflating("small")' = Entries("small") + Deflating("small")
        /\ Entries("large")' + Deflating("large")' = Entries("large") + Deflating("large")
    BY <1>9 DEF Sizes
  <2>3. nPages' = nPages /\ drift' = drift
    BY <1>4
  <2>4. nPages' = (Entries("small")' + Deflating("small")')
                  + Large * (Entries("large")' + Deflating("large")') + drift'
    BY <2>1, <2>2, <2>3
  <2> QED
    BY <2>4 DEF SizeIsTracked
<1>12. MonitorAgrees'
  BY <1>0, <1>4, <1>9 DEF MonitorAgrees, startVars, monitorVars
<1>13. TypeOK'
  BY <1>0, <1>4, <1>5, <1>6, <1>8, SMTT(40) DEF TypeOK, LoopRecords, Lists, startVars, monitorVars
<1>14. s = "large" => ops = "batched"
  BY <1>0 DEF StartInv, c
<1>15. LoopInv'
  <2>1. BatchMax' = BatchMax /\ ops' = ops /\ batchPage' = batchPage
    BY <1>4 DEF BatchMax, startVars
  <2>5. /\ ops = "batched" => batchPage
        /\ ops # "batched" => ops = "basic" /\ loop.size = "small" /\ loop.n = 0
    BY DEF TakePage, AddPageIsSafe
  <2>2. loop'.n < BatchMax \/ pc' = "unlock"
    BY <1>1, <1>6, <1>8
  <2>3. loop'.n \in 1..BatchMax
    BY <1>1, <1>6
  <2>4. loop'.cur <= Len(chunks'[loop'.size])
    <3>1. Len(new) \in Nat
      BY <1>3, ListMember
    <3>2. chunks'[loop'.size] = new
      BY <1>5, <1>6
    <3> QED
      BY <1>2, <1>3, <1>6, <3>1, <3>2
  <2> QED
    BY <1>s, <1>6, <1>8, <2>1, <2>2, <2>3, <2>4, <2>5 DEF LoopInv, Loops
<1>16. StartInv'
  <2>1. ops # "batched" => chunks'["large"] = <<>>
    BY <1>0, <1>5, <1>14 DEF StartInv, Sizes
  <2> QED
    BY <1>0, <1>4, <1>8, <2>1 DEF StartInv, Loops, Gone, startVars, monitorVars
<1> QED
  BY <1>10, <1>11, <1>12, <1>13, <1>15, <1>16 DEF BooksInv
\* Where the loop is after an unlock, and that its chunk is still on the list then.
LEMMA LoopAfterUnlock ==
  ASSUME BooksInv, pc = "unlock", NEW success \in BOOLEAN, NEW shift \in {0, 1},
         AfterUnlock(success, shift)
  PROVE  /\ loop' \in LoopRecords /\ loop'.n = 0 /\ pc' \in {"deflate", "idle"}
         /\ \/ loop'.cur = 0
            \/ success /\ loop'.size = loop.size /\ loop'.cur = loop.cur + shift
<1>0. loop \in LoopRecords /\ TypeOK /\ nPagesTarget \in Targets \cup {0} /\ loop.cur \in Nat
  BY Numbers DEF BooksInv, TypeOK, LoopRecords
<1> DEFINE cur == IF loop.cur = 0 THEN 0 ELSE loop.cur + shift
<1>1. cur \in Nat /\ 0 \in 0..BatchEntries
  BY <1>0, Constants
<1>2. ASSUME success, pc' = "deflate", NEW t \in AnyTarget,
             loop' = [[loop EXCEPT !.n = 0, !.cur = cur] EXCEPT !.target = t]
      PROVE  /\ loop' \in LoopRecords /\ loop'.n = 0
             /\ loop'.cur = cur /\ loop'.size = loop.size
  <2>1. t \in Targets \cup {0}
    BY <1>0, TargetsOfMonitor
  <2> HIDE DEF cur
  <2> QED
    BY <1>0, <1>1, <1>2, <2>1 DEF LoopRecords
<1>3. /\ NextList(loop) \in LoopRecords /\ NextList(loop).n = 0 /\ NextList(loop).cur = 0
      /\ NextList(loop).size = "large"
  BY <1>0, NoLoopType DEF NextList, LoopRecords, Sizes
<1>4. \/ /\ success /\ pc' = "deflate"
         /\ \E t \in AnyTarget : loop' = [[loop EXCEPT !.n = 0, !.cur = cur] EXCEPT !.target = t]
      \/ pc' = "deflate" /\ loop' = NextList(loop)
      \/ pc' = "idle" /\ loop' = NoLoop
  BY DEF AfterUnlock
<1>5. CASE pc' = "deflate" /\ loop' = NextList(loop)
  BY <1>3, <1>5
<1>6. CASE pc' = "idle" /\ loop' = NoLoop
  BY <1>6, NoLoopType
<1>7. CASE /\ success /\ pc' = "deflate"
           /\ \E t \in AnyTarget : loop' = [[loop EXCEPT !.n = 0, !.cur = cur] EXCEPT !.target = t]
  <2>1. loop' \in LoopRecords /\ loop'.n = 0 /\ loop'.cur = cur /\ loop'.size = loop.size
    BY <1>2, <1>7
  <2> QED
    BY <1>7, <2>1
<1> QED
  BY <1>4, <1>5, <1>6, <1>7

LEMMA UnlockBooks == ASSUME BooksInv, Unlock PROVE BooksInv'
<1>s. PICK s \in Sizes : s = loop.size
  BY Numbers DEF BooksInv
<1>0. /\ TypeOK /\ StartInv /\ LoopInv /\ PagesAreAccountedFor /\ SizeIsTracked /\ MonitorAgrees
      /\ pc = "unlock" /\ chunks \in [Sizes -> Lists] /\ locked \in [Sizes -> Nat]
      /\ reserved \in [Sizes -> Nat] /\ resetFlag \in BOOLEAN
  BY DEF BooksInv, Unlock, TypeOK, Lists
<1>1. PICK kept \in 0..loop.n :
        /\ \/ /\ monitor = "up" /\ resetFlag' = resetFlag
              /\ AfterUnlock(TRUE, IF NeedsChunk(s, kept) THEN 1 ELSE 0)
           \/ LockCommandFails /\ AfterUnlock(FALSE, 0)
        /\ chunks' = [chunks EXCEPT ![s] = Stored(s, kept)]
        /\ locked' = IF monitor = "up" THEN [locked EXCEPT ![s] = locked[s] - (loop.n - kept)] ELSE locked
        /\ reserved' = [reserved EXCEPT ![s] = reserved[s] - (loop.n - kept)]
        /\ nPages' = nPages - (loop.n - kept) * PagesPerEntry(s)
  BY <1>s DEF Unlock, PutsBack
<1>2. /\ fallback' = FALSE
      /\ UNCHANGED <<errors, drift, nPagesTarget, capabilities, ops, batchPage, halfStarted, monitor, calm>>
  BY DEF Unlock
<1>3. /\ loop.n \in Nat /\ loop.n <= BatchEntries /\ BatchEntries \in Nat /\ kept \in Nat /\ kept <= loop.n
      /\ \A r \in Sizes : Entries(r) \in Nat /\ errors[r] \in Nat
      /\ chunks[s] \in Lists
  BY <1>0, Numbers, Constants
<1>4. /\ Stored(s, kept) \in Lists
      /\ Cardinality(Slots(Stored(s, kept))) = Entries(s) + kept
      /\ Len(Stored(s, kept)) = Len(chunks[s]) + (IF NeedsChunk(s, kept) THEN 1 ELSE 0)
  <2>1. kept \in 0..BatchEntries
    BY <1>3
  <2> QED
    BY <1>3, <2>1, PagesStored
<1>5. /\ chunks' \in [Sizes -> Lists] /\ chunks'[s] = Stored(s, kept)
      /\ \A r \in Sizes : r # s => chunks'[r] = chunks[r]
  BY <1>0, <1>1, <1>4
<1>6. Entries(s)' = Entries(s) + kept /\ \A r \in Sizes : r # s => Entries(r)' = Entries(r)
  BY <1>4, <1>5 DEF Entries
<1>7. /\ resetFlag' \in BOOLEAN /\ (resetFlag' => resetFlag \/ monitor # "up")
  <2>1. CASE resetFlag' = resetFlag
    BY <1>0, <2>1
  <2>2. CASE monitor # "up" /\ resetFlag' = TRUE
    BY <2>2
  <2> QED
    BY <1>1, <2>1, <2>2 DEF LockCommandFails
<1>8. /\ loop' \in LoopRecords /\ loop'.n = 0 /\ pc' \in {"deflate", "idle"}
      /\ \/ loop'.cur = 0
         \/ loop'.size = s /\ loop'.cur = loop.cur + (IF NeedsChunk(s, kept) THEN 1 ELSE 0)
  <2> DEFINE shift == IF NeedsChunk(s, kept) THEN 1 ELSE 0
  <2>1. shift \in {0, 1} /\ 0 \in {0, 1}
    OBVIOUS
  <2>2. AfterUnlock(TRUE, shift) \/ AfterUnlock(FALSE, 0)
    BY <1>1
  <2> HIDE DEF shift
  <2>3. CASE AfterUnlock(TRUE, shift)
    <3>1. /\ loop' \in LoopRecords /\ loop'.n = 0 /\ pc' \in {"deflate", "idle"}
          /\ \/ loop'.cur = 0
             \/ TRUE /\ loop'.size = loop.size /\ loop'.cur = loop.cur + shift
      BY <1>0, <2>1, <2>3, LoopAfterUnlock
    <3> QED
      BY <1>s, <3>1 DEF shift
  <2>4. CASE AfterUnlock(FALSE, 0)
    <3>1. /\ loop' \in LoopRecords /\ loop'.n = 0 /\ pc' \in {"deflate", "idle"}
          /\ \/ loop'.cur = 0
             \/ FALSE /\ loop'.size = loop.size /\ loop'.cur = loop.cur + 0
      BY <1>0, <2>1, <2>4, LoopAfterUnlock
    <3> QED
      BY <3>1
  <2> QED
    BY <2>2, <2>3, <2>4
<1>9. \A r \in Sizes : /\ Inflating(r) = 0 /\ Inflating(r)' = 0 /\ Deflating(r)' = 0
                       /\ Deflating(r) = IF r = s THEN loop.n ELSE 0
  BY <1>s, <1>0, <1>8 DEF Inflating, Deflating
<1>10. /\ reserved'[s] = reserved[s] - (loop.n - kept)
       /\ \A r \in Sizes : r # s => reserved'[r] = reserved[r]
       /\ DOMAIN reserved' = Sizes
  BY <1>0, <1>1
<1>11. ASSUME NEW r \in Sizes
       PROVE  /\ reserved'[r] = Entries(r)' + Inflating(r)' + Deflating(r)' + errors'[r]
                                + (IF r = "small" /\ batchPage' THEN 1 ELSE 0)
              /\ reserved'[r] \in Nat
  <2> DEFINE x == IF r = "small" /\ batchPage THEN 1 ELSE 0
  <2>1. x \in Nat /\ (IF r = "small" /\ batchPage' THEN 1 ELSE 0) = x /\ errors' = errors
    BY <1>2
  <2>2. reserved[r] = Entries(r) + Inflating(r) + Deflating(r) + errors[r] + x
    BY <1>0 DEF PagesAreAccountedFor
  <2> HIDE DEF x
  <2>3. CASE r = s
    BY <1>3, <1>6, <1>9, <1>10, <2>1, <2>2, <2>3
  <2>4. CASE r # s
    BY <1>3, <1>6, <1>9, <1>10, <2>1, <2>2, <2>4
  <2> QED
    BY <2>3, <2>4
<1>12. PagesAreAccountedFor'
  BY <1>11 DEF PagesAreAccountedFor
<1>13. SizeIsTracked' /\ nPages' \in Nat
  <2>1. /\ nPages = Entries("small") + Deflating("small")
                    + Large * (Entries("large") + Deflating("large")) + drift
        /\ Entries("small") \in Nat /\ Entries("large") \in Nat /\ drift \in Nat
        /\ Large \in Nat /\ drift' = drift
    BY <1>0, <1>2, <1>3, Constants DEF SizeIsTracked, TypeOK, Sizes
  <2>2. nPages' = Entries("small")' + 0 + Large * (Entries("large")' + 0) + drift' /\ nPages' \in Nat
    <3>1. CASE s = "small"
      <4>1. Deflating("small") = loop.n /\ Deflating("large") = 0 /\ PagesPerEntry(s) = 1
        BY <1>9, <3>1 DEF PagesPerEntry, Sizes
      <4>2. Entries("small")' = Entries("small") + kept /\ Entries("large")' = Entries("large")
        BY <1>6, <3>1 DEF Sizes
      <4>3. nPages' = nPages - (loop.n - kept)
        BY <1>1, <1>3, <4>1
      <4> DEFINE a == Large * (Entries("large") + 0)
      <4>4. a \in Nat /\ nPages = Entries("small") + loop.n + a + drift
        BY <2>1, <4>1
      <4> HIDE DEF a
      <4>5. nPages' = Entries("small") + kept + a + drift /\ nPages' \in Nat
        BY <1>3, <2>1, <4>3, <4>4
      <4> QED
        BY <1>3, <2>1, <4>2, <4>4, <4>5 DEF a
    <3>2. CASE s = "large"
      <4>1. Deflating("small") = 0 /\ Deflating("large") = loop.n /\ PagesPerEntry(s) = Large
        BY <1>9, <3>2 DEF PagesPerEntry, Sizes
      <4>2. Entries("small")' = Entries("small") /\ Entries("large")' = Entries("large") + kept
        BY <1>6, <3>2 DEF Sizes
      <4> DEFINE a == Large * (Entries("large") + kept + 0)
                 b == (loop.n - kept) * Large
      <4>3. a \in Nat /\ b \in Nat /\ Large * (Entries("large") + loop.n) = a + b
        <5>1. loop.n - kept \in Nat
          BY <1>3
        <5>2. a \in Nat /\ b \in Nat
          BY <1>3, <2>1, <5>1
        <5>3. Large * (Entries("large") + loop.n) = a + b
          BY <1>3, <2>1
        <5> QED
          BY <5>2, <5>3
      <4>4. nPages' = nPages - b
        BY <1>1, <4>1
      <4>5. nPages = Entries("small") + 0 + Large * (Entries("large") + loop.n) + drift
        BY <2>1, <4>1
      <4> HIDE DEF a, b
      <4>6. nPages' = Entries("small") + 0 + a + drift /\ nPages' \in Nat
        BY <2>1, <4>3, <4>4, <4>5
      <4> QED
        BY <2>1, <4>2, <4>6 DEF a
    <3> QED
      BY <3>1, <3>2 DEF Sizes
  <2> QED
    BY <1>9, <2>2 DEF SizeIsTracked, Sizes
<1>14. MonitorAgrees' /\ locked' \in [Sizes -> Nat]
  <2>1. CASE monitor = "up"
    <3>1. \A r \in Sizes : /\ locked[r] \in Nat /\ locked[r] >= Entries(r) + Deflating(r)
                           /\ ~halfStarted => locked[r] = Entries(r) + Deflating(r)
      <4>1. pc \notin {"unloaded", "crashed"} /\ \A r \in Sizes : locked[r] \in Nat
        BY <1>0
      <4> QED
        BY <1>0, <2>1, <4>1, Zenon DEF MonitorAgrees
    <3>2. /\ locked'[s] = locked[s] - (loop.n - kept)
          /\ \A r \in Sizes : r # s => locked'[r] = locked[r]
      BY <1>0, <1>1, <2>1
    <3>3. ASSUME NEW r \in Sizes
          PROVE  /\ locked'[r] \in Nat /\ locked'[r] >= Entries(r)' + Deflating(r)'
                 /\ ~halfStarted => locked'[r] = Entries(r)' + Deflating(r)'
      <4>1. CASE r = s
        BY <1>3, <1>6, <1>9, <3>1, <3>2, <4>1
      <4>2. CASE r # s
        BY <1>3, <1>6, <1>9, <3>1, <3>2, <4>2
      <4> QED
        BY <4>1, <4>2
    <3>4. locked' \in [Sizes -> Nat]
      <4>1. locked[s] - (loop.n - kept) \in Nat
        BY <3>2, <3>3
      <4> QED
        BY <1>0, <1>1, <2>1, <4>1
    <3> QED
      BY <1>2, <3>3, <3>4 DEF MonitorAgrees
  <2>2. CASE monitor # "up"
    BY <1>0, <1>1, <1>2, <2>2 DEF MonitorAgrees
  <2> QED
    BY <2>1, <2>2
<1>15. TypeOK'
  <2>1. reserved' \in [Sizes -> Nat]
    <3>1. reserved[s] - (loop.n - kept) \in Nat
      BY <1>10, <1>11
    <3> QED
      BY <1>0, <1>1, <3>1
  <2> QED
    BY <1>0, <1>2, <1>5, <1>7, <1>8, <1>13, <1>14, <2>1 DEF TypeOK, LoopRecords, Lists
<1>16. LoopInv'
  <2>1. BatchMax' = BatchMax /\ BatchMax \in Nat /\ BatchMax > 0
    BY <1>0, <1>2, Numbers DEF BatchMax
  <2>2. loop'.size \in Sizes /\ Len(chunks'[loop'.size]) \in Nat
    <3>1. loop'.size \in Sizes
      BY <1>8 DEF LoopRecords
    <3> QED
      BY <1>5, <3>1, ListMember
  <2>3. loop.cur <= Len(chunks[s]) /\ loop.cur \in Nat /\ Len(chunks[s]) \in Nat
    BY <1>s, <1>0, <1>3, Numbers, ListMember DEF LoopInv
  <2>4. loop'.cur <= Len(chunks'[loop'.size])
    <3> DEFINE shift == IF NeedsChunk(s, kept) THEN 1 ELSE 0
    <3>1. /\ shift \in Nat /\ Len(chunks'[s]) = Len(chunks[s]) + shift
          /\ loop'.cur = 0 \/ (loop'.size = s /\ loop'.cur = loop.cur + shift)
      BY <1>4, <1>5, <1>8
    <3> HIDE DEF shift
    <3>2. CASE loop'.cur = 0
      BY <2>2, <3>2
    <3>3. CASE loop'.size = s /\ loop'.cur = loop.cur + shift
      BY <2>3, <3>1, <3>3
    <3> QED
      BY <3>1, <3>2, <3>3
  <2> QED
    BY <1>8, <2>1, <2>4 DEF LoopInv, Loops
<1>17. StartInv'
  <2>1. ops # "batched" => chunks'["large"] = <<>>
    <3>1. ops # "batched" => s # "large"
      BY <1>s, <1>0, OneSmallPage
    <3> QED
      BY <1>0, <1>5, <3>1 DEF StartInv, Sizes
  <2> QED
    BY <1>0, <1>2, <1>7, <1>8, <2>1 DEF StartInv, Loops, Gone
<1> QED
  BY <1>12, <1>13, <1>14, <1>15, <1>16, <1>17 DEF BooksInv

(***************************************************************************)
(* The theorems.                                                           *)
(***************************************************************************)
LEMMA NextBooks == BooksInv /\ [Next]_vars => BooksInv'
<1> SUFFICES ASSUME BooksInv, [Next]_vars
             PROVE  BooksInv'
  OBVIOUS
<1>1. CASE CalmsDown \/ UNCHANGED vars
  BY <1>1, CalmsDownBooks
<1>2. CASE Step
  BY <1>2, PollBooks, ResetBooks, GetTargetBooks, GetTargetFailsBooks, AllocPageBooks,
     AllocFailsBooks, InflateDoneBooks, FinishLockBooks, ErrorPagesFreeBooks, LockFailsBooks,
     LockBatchBooks, LockOneRefusedBooks, LockOneBooks, TakePageBooks, DeflateDoneBooks,
     UnlockBooks, CrashBooks DEF Step
<1>3. CASE Cleanup \/ MonitorResets
  BY <1>3, ResetBooks, MonitorResetsBooks
<1> QED
  BY <1>1, <1>2, <1>3 DEF Next

\* The driver's books are right at every step of the poll, whatever the monitor refuses and
\* whenever it forgets the balloon: the inductive invariant of the balloon.
THEOREM BooksAreCorrect == Spec => []BooksInv
  BY InitBooks, NextBooks, PTL DEF Spec

LEMMA BooksSuffice == BooksInv => BalloonInv /\ MonitorAgrees
<1> SUFFICES ASSUME BooksInv
             PROVE  OperationsAreReady
  BY DEF BooksInv, BalloonInv
<1>0. TypeOK /\ LoopInv /\ StartInv
  BY DEF BooksInv
<1>1. loop.size \in {"small", "large"} /\ loop.n \in Nat /\ (loop.n < 1 => loop.n = 0)
  BY <1>0, Numbers DEF Sizes
<1>2. ASSUME pc \in {"inflate", "lock", "deflate", "unlock"}, ~halfStarted
      PROVE  OpsReady
  BY <1>0, <1>1, <1>2 DEF StartInv, LoopInv, Loops, OpsReady
<1>3. ASSUME (pc = "inflate" /\ InflateMore) \/ (pc = "deflate" /\ DeflateMore), ~halfStarted
      PROVE  AddPageIsSafe
  <2>1. CASE ops = "batched"
    BY <1>0, <1>3, <2>1 DEF StartInv, Loops, AddPageIsSafe
  <2>2. CASE ops # "batched"
    <3>1. ops = "basic"
      BY <1>0, <1>2, <1>3, <2>2 DEF TypeOK, OpsReady
    <3>2. loop.n = 0
      BY <1>0, <1>1, <1>3, <2>2 DEF LoopInv, BatchMax
    <3>3. loop.size = "small"
      BY <1>0, <1>1, <1>3, <2>2 DEF LoopInv, StartInv, Loops, DeflateMore
    <3> QED
      BY <3>1, <3>2, <3>3 DEF AddPageIsSafe
  <2> QED
    BY <2>1, <2>2
<1>4. ASSUME pc \in {"lock", "unlock"}, halfStarted
      PROVE  ops = "basic" /\ loop.size = "small" /\ loop.n = 1
  <2>1. loop.n > 0
    BY <1>0, <1>4, Numbers DEF LoopInv
  <2>2. ops # "none" /\ ops # "batched"
    BY <1>0, <1>4, <2>1 DEF LoopInv, StartInv, Loops
  <2> QED
    BY <1>0, <1>4, <2>2, OneSmallPage DEF TypeOK
<1> QED
  BY <1>2, <1>3, <1>4 DEF OperationsAreReady

\* No page of the guest is lost or freed twice, nPages is the size of the balloon but for what
\* resets with large pages leave behind, and the operations in use have what they need; if
\* the second start of BalloonReset failed, every page locked or unlocked is one small page
\* of the basic operations.
THEOREM BalloonIsCorrect == Spec => []BalloonInv
  BY BooksAreCorrect, BooksSuffice, PTL

\* A page is locked in the monitor exactly while the driver tracks it as ballooned; after a
\* second start that failed, at least while it does.
THEOREM MonitorIsInStep == Spec => []MonitorAgrees
  BY BooksAreCorrect, BooksSuffice, PTL
=============================================================================
