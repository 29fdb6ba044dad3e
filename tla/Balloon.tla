------------------------------- MODULE Balloon -------------------------------
(***************************************************************************)
(* The memory balloon, modules/shared/vmmemctl/vmballoon.c with            *)
(* backdoor_balloon.c.  Once a second Balloon_QueryAndExecute asks the     *)
(* monitor for a target and allocates pages, which it locks in the         *)
(* monitor, or unlocks and frees some.  Pages are counted, not named.      *)
(*                                                                         *)
(* The monitor is on the other side of the backdoor: it may refuse         *)
(* commands and single pages, change its target with every answer, and     *)
(* forget the balloon and ask for a reset at any time.  The rates limit    *)
(* how many pages one poll handles; here a poll may take its break after   *)
(* any page, as the rates are never zero.                                  *)
(***************************************************************************)
EXTENDS Integers, Sequences, FiniteSets

CONSTANTS Large,        \* OS_LARGE_2_SMALL_PAGES
          ChunkEntries, \* BALLOON_CHUNK_ENTRIES
          BatchEntries, \* BALLOON_BATCH_MAX_ENTRIES
          ErrorPages,   \* BALLOON_ERROR_PAGES
          Targets,      \* targets that the monitor may ask for
          Memory        \* bound: free pages of the guest, by size

Sizes == {"small", "large"}

ASSUME BalloonAssumption ==
  /\ Large \in Nat \ {0, 1}
  /\ BatchEntries \in Nat \ {0} /\ ChunkEntries \in Nat /\ BatchEntries < ChunkEntries
  /\ ErrorPages \in Nat \ {0}
  /\ Targets \subseteq Nat
  /\ Memory \in [Sizes -> Nat]

VARIABLES pc,           \* where Balloon_QueryAndExecute is
          loop,         \* the local variables of BalloonInflate and BalloonDeflateInt
          chunks,       \* b->pages: entries of each chunk, the head of the list first
          errors,       \* b->errors: number of non-balloonable pages
          nPages,       \* b->nPages, in small pages
          nPagesTarget, \* b->nPagesTarget
          resetFlag,    \* b->resetFlag
          capabilities, \* b->hypervisorCapabilities
          ops,          \* b->balloonOps
          batchPage,    \* the batch page is allocated and mapped
          halfStarted,  \* history: the monitor started batching, the driver could not, and
                        \* the command that takes it back failed
          fallback,     \* b->fallbackChunk is there
          monitor,      \* what the monitor knows: "down", "null" (no capabilities), "up"
          locked,       \* pages that are locked in the monitor, by size
          reserved,     \* pages that the driver has from the guest, by size
          drift,        \* pages that BalloonPageFree forgot to subtract from nPages
          calm          \* the monitor and the guest's memory cause no more trouble

listVars == <<chunks, errors, nPages, drift>>
startVars == <<resetFlag, capabilities, ops, batchPage, halfStarted>>
monitorVars == <<monitor, locked>>
vars == <<pc, loop, listVars, nPagesTarget, startVars, fallback, monitorVars, reserved, calm>>

\* Entries of the small and of the large chunk list, and how many small pages each stands for.
Slots(list) == UNION {{i} \X (1..list[i]) : i \in DOMAIN list}
Entries(s) == Cardinality(Slots(chunks[s]))
PagesPerEntry(s) == IF s = "large" THEN Large ELSE 1
None == [s \in Sizes |-> 0]

Capabilities == {{"basic"}, {"basic", "batched"}, {"basic", "batched", "2m"}}
AllocTypes == {"lpage", "nosleep", "cansleep"}
NoLoop == [size |-> "small", type |-> "nosleep", n |-> 0, target |-> 0, some |-> FALSE,
           cur |-> 0, then |-> "loop"]

TypeOK ==
  /\ pc \in {"idle", "reset", "query", "inflate", "lock", "finish", "deflate", "unlock",
             "unloaded", "crashed"}
  /\ loop \in [size : Sizes, type : AllocTypes, n : 0..BatchEntries, target : Targets \cup {0},
               some : BOOLEAN, cur : Nat, then : {"loop", "small", "done"}]
  /\ chunks \in [Sizes -> Seq(1..ChunkEntries)]
  /\ errors \in [Sizes -> 0..ErrorPages]
  /\ nPages \in Nat /\ drift \in Nat
  /\ nPagesTarget \in Targets \cup {0}
  /\ resetFlag \in BOOLEAN /\ batchPage \in BOOLEAN /\ halfStarted \in BOOLEAN
  /\ fallback \in BOOLEAN /\ calm \in BOOLEAN
  /\ capabilities \in Capabilities \cup {{}}
  /\ ops \in {"none", "basic", "batched"}
  /\ monitor \in {"down", "null", "up"}
  /\ locked \in [Sizes -> Nat]
  /\ reserved \in [Sizes -> Nat]

\* Balloon_Init.
Init ==
  /\ pc = "idle" /\ loop = NoLoop
  /\ chunks = [s \in Sizes |-> <<>>] /\ errors = None /\ nPages = 0 /\ drift = 0
  /\ nPagesTarget = 0
  /\ resetFlag = TRUE /\ capabilities = {} /\ ops = "none" /\ batchPage = FALSE
  /\ halfStarted = FALSE
  /\ fallback = FALSE
  /\ monitor = "down" /\ locked = None
  /\ reserved = None
  /\ calm = FALSE

(***************************************************************************)
(* Chunks.  A page goes to the first chunk; when that is full, or there is *)
(* none, to a new one in front of it.                                      *)
(***************************************************************************)
NeedsChunk(s, m) ==
  m > 0 /\ (IF chunks[s] = <<>> THEN TRUE ELSE Head(chunks[s]) + m > ChunkEntries)

StoredInHead(s, m) ==           \* mutant: the page that fills the chunk goes to it, too
  IF m = 0 THEN chunks[s]
  ELSE IF chunks[s] = <<>> THEN <<m>>
  ELSE IF Head(chunks[s]) <= ChunkEntries THEN [chunks[s] EXCEPT ![1] = @ + m]
  ELSE <<m>> \o chunks[s]
Stored(s, m) ==
  IF ~NeedsChunk(s, m) THEN (IF m = 0 THEN chunks[s] ELSE [chunks[s] EXCEPT ![1] = @ + m])
  ELSE IF chunks[s] = <<>> THEN <<m>>
  ELSE <<m - (ChunkEntries - Head(chunks[s]))>> \o [chunks[s] EXCEPT ![1] = ChunkEntries]

(***************************************************************************)
(* The poll and the reset.                                                 *)
(***************************************************************************)
Poll ==
  /\ pc = "idle"
  /\ pc' = IF resetFlag THEN "reset" ELSE "query"
  /\ UNCHANGED <<loop, listVars, nPagesTarget, startVars, fallback, monitorVars, reserved, calm>>

\* What BalloonPageFree subtracts from nPages: one for a page of either size.
PagesFreed == Entries("small") + Entries("large")

\* Balloon_Deallocate.  keep tells which pages the caller has allocated again.
ForgetsLarge == chunks' = [chunks EXCEPT !["small"] = <<>>]   \* mutant: the other list stays
AllFreed == chunks' = [s \in Sizes |-> <<>>]

Deallocate(keep) ==
  /\ AllFreed
  /\ nPages' = nPages - PagesFreed
  /\ drift' = drift + (Large - 1) * Entries("large")
  /\ reserved' = [s \in Sizes |-> reserved[s] - Entries(s)
                                  - (IF s = "small" /\ batchPage THEN 1 ELSE 0)
                                  + (IF s = "small" THEN keep ELSE 0)]
  /\ UNCHANGED errors

\* BalloonReset: Backdoor_MonitorStart fails.
ResetFails ==
  /\ pc = "reset" /\ ~calm
  /\ Deallocate(0)
  /\ batchPage' = FALSE
  /\ pc' = "query"
  /\ UNCHANGED <<loop, nPagesTarget, resetFlag, capabilities, ops, halfStarted, fallback, monitorVars,
                 calm>>

\* BalloonInitBatching fails: the monitor is told of it with a start without capabilities.
\* Nobody looks at the result of that second start.  If it fails the monitor stays started
\* with the capabilities of the first one, or asks for a reset.
ResetWithoutBatchPage ==
  /\ pc = "reset" /\ ~calm
  /\ Deallocate(0)
  /\ batchPage' = FALSE
  /\ \/ capabilities' \in {{}, {"basic"}} /\ monitor' = "null" /\ halfStarted' = FALSE
     \/ /\ capabilities' \in {c \in Capabilities : "batched" \in c}
        /\ monitor' \in {"up", "down"} /\ halfStarted' = TRUE
  /\ locked' = None
  /\ pc' = "query"
  /\ UNCHANGED <<loop, nPagesTarget, resetFlag, ops, fallback, calm>>

FirstOpsFor(c) ==               \* mutant: the operations are chosen at the first start only
  IF ops # "none" THEN ops ELSE IF "batched" \in c THEN "batched" ELSE "basic"
OpsFor(c) == IF "batched" \in c THEN "batched" ELSE "basic"

\* The reset succeeds.  The report of the guest type may be answered with another reset.
ResetStarts ==
  /\ pc = "reset"
  /\ \E c \in Capabilities :
       /\ Deallocate(IF "batched" \in c THEN 1 ELSE 0)
       /\ capabilities' = c
       /\ batchPage' = ("batched" \in c)
       /\ ops' = OpsFor(c)
  /\ halfStarted' = FALSE
  /\ \/ resetFlag' = FALSE /\ monitor' = "up"
     \/ ~calm /\ resetFlag' = TRUE /\ monitor' = "down"
  /\ locked' = None
  /\ pc' = "query"
  /\ UNCHANGED <<loop, nPagesTarget, fallback, calm>>

\* BalloonAdjustSize.
AdjustSizeExactly(t) ==         \* mutant: no slack for large pages
  IF nPages < t THEN "inflate" ELSE IF nPages > t THEN "deflate" ELSE "idle"
AdjustSize(t) ==
  IF nPages < t THEN "inflate"
  ELSE IF t = 0 \/ nPages > t + Large - 1 THEN "deflate" ELSE "idle"

FirstLoop(t) ==
  IF AdjustSize(t) = "inflate" /\ "2m" \in capabilities
  THEN [NoLoop EXCEPT !.size = "large", !.type = "lpage", !.target = t]
  ELSE [NoLoop EXCEPT !.target = t]

\* Targets that come with an answer of the monitor.
AnyTarget == IF calm THEN {nPagesTarget} ELSE Targets

GetTarget ==
  /\ pc = "query" /\ monitor = "up"
  /\ \E t \in AnyTarget :
       /\ nPagesTarget' = t
       /\ loop' = FirstLoop(t)
       /\ pc' = AdjustSize(t)
  /\ UNCHANGED <<listVars, startVars, fallback, monitorVars, reserved, calm>>

\* The monitor asks for a reset; or another error, or the limit does not fit into 32 bits.
GetTargetFails ==
  /\ pc = "query"
  /\ \/ monitor # "up" /\ resetFlag' = TRUE
     \/ ~calm /\ resetFlag' = resetFlag
  /\ pc' = "idle"
  /\ UNCHANGED <<loop, listVars, nPagesTarget, capabilities, ops, batchPage, halfStarted, fallback,
                 monitorVars, reserved, calm>>

(***************************************************************************)
(* BalloonInflate.                                                         *)
(***************************************************************************)
InflateMore ==
  nPages < loop.target /\ loop.n * PagesPerEntry(loop.size) < loop.target - nPages

\* b->batchMaxEntries, which BalloonInitBatching sets before it can fail.
BatchMax == IF ops = "batched" \/ halfStarted THEN BatchEntries ELSE 1

\* b->balloonOps->addPage: the operations are there, the batched ones write to the batch
\* page, and the basic ones take one small page at a time.
AddPageIsSafe ==
  IF ops = "batched" THEN batchPage ELSE ops = "basic" /\ loop.size = "small" /\ loop.n = 0

AllocPage ==
  /\ pc = "inflate" /\ InflateMore /\ reserved[loop.size] < Memory[loop.size]
  /\ AddPageIsSafe
  /\ reserved' = [reserved EXCEPT ![loop.size] = @ + 1]
  /\ loop' = [loop EXCEPT !.n = @ + 1, !.some = TRUE]
  /\ pc' \in IF loop.n + 1 = BatchMax THEN {"lock"} ELSE {"inflate", "finish"}
  /\ UNCHANGED <<listVars, nPagesTarget, startVars, fallback, monitorVars, calm>>

\* No large page: lock those that are there and go on with small ones.
Smaller(l) == [l EXCEPT !.size = "small", !.type = "nosleep", !.n = 0, !.then = "loop"]

AllocFails ==
  /\ pc = "inflate" /\ InflateMore
  /\ calm => loop.size = "large"
  /\ \/ /\ loop.type = "lpage" /\ loop.n > 0
        /\ loop' = [loop EXCEPT !.then = "small"]
        /\ pc' = "lock"
     \/ /\ loop.type = "lpage" /\ loop.n = 0
        /\ loop' = Smaller(loop)
        /\ pc' \in IF loop.some THEN {"inflate", "finish"} ELSE {"inflate"}
     \/ /\ loop.type = "nosleep"
        /\ loop' = [loop EXCEPT !.type = "cansleep"]
        /\ pc' \in IF loop.some THEN {"inflate", "finish"} ELSE {"inflate"}
     \/ /\ loop.type = "cansleep"
        /\ loop' = loop
        /\ pc' = "finish"
  /\ UNCHANGED <<listVars, nPagesTarget, startVars, fallback, monitorVars, reserved, calm>>

InflateDone ==
  /\ pc = "inflate" /\ ~InflateMore
  /\ pc' = "finish"
  /\ UNCHANGED <<loop, listVars, nPagesTarget, startVars, fallback, monitorVars, reserved, calm>>

\* After the loop: a last, partial batch; then BalloonErrorPagesFree.
FinishLock ==
  /\ pc = "finish" /\ loop.n > 0
  /\ loop' = [loop EXCEPT !.then = "done"]
  /\ pc' = "lock"
  /\ UNCHANGED <<listVars, nPagesTarget, startVars, fallback, monitorVars, reserved, calm>>

ErrorPagesFree ==
  /\ pc = "finish" /\ loop.n = 0
  /\ reserved' = [s \in Sizes |-> reserved[s] - errors[s]]
  /\ errors' = None
  /\ pc' = "idle" /\ loop' = NoLoop
  /\ UNCHANGED <<chunks, nPages, drift, nPagesTarget, startVars, fallback, monitorVars, calm>>

\* How the loop goes on after a lock with status success or not.  The target is an output
\* of the command even when it fails.
AfterLock(success, ts) ==
  /\ \E t \in (IF loop.then = "done" THEN {loop.target} ELSE ts) :
       loop' = IF loop.then = "small" THEN [Smaller(loop) EXCEPT !.target = t]
               ELSE [loop EXCEPT !.n = 0, !.target = t]
  /\ pc' \in IF loop.then = "small" \/ (loop.then = "loop" /\ success)
             THEN {"inflate", "finish"} ELSE {"finish"}

\* A lock command that fails as a whole: reset requested, or another error.
LockCommandFails ==
  \/ monitor # "up" /\ resetFlag' = TRUE
  \/ ~calm /\ resetFlag' = resetFlag

\* BalloonLockBatched, with no memory for the fallback chunk or a failed command.
LockBatchFails ==
  /\ pc = "lock" /\ ops = "batched"
  /\ \/ ~calm /\ resetFlag' = resetFlag /\ AfterLock(FALSE, {loop.target})
     \/ LockCommandFails /\ AfterLock(FALSE, AnyTarget)
  /\ reserved' = [reserved EXCEPT ![loop.size] = @ - loop.n]
  /\ UNCHANGED <<listVars, nPagesTarget, capabilities, ops, batchPage, halfStarted, fallback,
                 monitorVars, calm>>

\* How many pages of a batch are locked, and how many are refused as pinned or invalid.
CountsAll(good) == loop.n         \* mutant: refused pages are counted, too
CountsLocked(good) == good

LockBatch ==
  /\ pc = "lock" /\ ops = "batched" /\ monitor = "up"
  /\ \E good \in 0..loop.n : \E bad \in 0..(loop.n - good) :
       LET s == loop.size
           room == ErrorPages - errors[s]
           kept == IF bad < room THEN bad ELSE room
       IN /\ calm => good = loop.n
          /\ chunks' = [chunks EXCEPT ![s] = Stored(s, good)]
          /\ errors' = [errors EXCEPT ![s] = @ + kept]
          /\ locked' = [locked EXCEPT ![s] = @ + good]
          /\ nPages' = nPages + CountsLocked(good) * PagesPerEntry(s)
          /\ reserved' = [reserved EXCEPT ![s] = @ - (loop.n - good - kept)]
  /\ AfterLock(TRUE, AnyTarget)
  /\ UNCHANGED <<drift, nPagesTarget, startVars, fallback, monitor, calm>>

\* BalloonLock.  A refused page goes to the error list if there is room, unless the monitor
\* asks for a reset or does not need the page.
LockOneFails ==
  /\ pc = "lock" /\ ops = "basic"
  /\ \/ /\ ~calm /\ NeedsChunk("small", 1) /\ resetFlag' = resetFlag
        /\ AfterLock(FALSE, {loop.target})
     \/ LockCommandFails /\ AfterLock(FALSE, AnyTarget)
  /\ reserved' = [reserved EXCEPT !["small"] = @ - 1]
  /\ UNCHANGED <<listVars, nPagesTarget, capabilities, ops, batchPage, halfStarted, fallback,
                 monitorVars, calm>>

LockOneRefused ==
  /\ pc = "lock" /\ ops = "basic" /\ ~calm /\ errors["small"] < ErrorPages
  /\ errors' = [errors EXCEPT !["small"] = @ + 1]
  /\ AfterLock(FALSE, AnyTarget)
  /\ UNCHANGED <<chunks, nPages, drift, nPagesTarget, startVars, fallback, monitorVars, reserved, calm>>

\* The page may be one that the monitor still takes for locked.
LockOne ==
  /\ pc = "lock" /\ ops = "basic" /\ monitor = "up"
  /\ chunks' = [chunks EXCEPT !["small"] = Stored("small", 1)]
  /\ \/ locked["small"] < Memory["small"] /\ locked' = [locked EXCEPT !["small"] = @ + 1]
     \/ locked["small"] > Entries("small") /\ UNCHANGED locked
  /\ nPages' = nPages + 1
  /\ AfterLock(TRUE, AnyTarget)
  /\ UNCHANGED <<errors, drift, nPagesTarget, startVars, fallback, monitor, reserved, calm>>

(***************************************************************************)
(* BalloonDeflate: BalloonDeflateInt for small pages, then for large ones. *)
(***************************************************************************)
DeflateMore ==
  /\ chunks[loop.size] # <<>>
  /\ nPages > loop.target /\ loop.n < nPages - loop.target

\* The list without its i-th chunk.
Unlinked(list, i) == [j \in 1..(Len(list) - 1) |-> list[IF j < i THEN j ELSE j + 1]]

\* The list with one entry less in its i-th chunk.
Taken(list, i) ==
  IF list[i] = 1 THEN Unlinked(list, i) ELSE [list EXCEPT ![i] = list[i] - 1]

\* The chunk that the loop takes from stays the same until it is empty.  An emptied chunk is
\* kept for the case that the unlock fails.
TakePage ==
  LET s == loop.size
      i == IF loop.cur = 0 THEN 1 ELSE loop.cur
      last == chunks[s][i] = 1
  IN /\ pc = "deflate" /\ DeflateMore /\ AddPageIsSafe
     /\ chunks' = [chunks EXCEPT ![s] = Taken(chunks[s], i)]
     /\ fallback' = (fallback \/ last)
     /\ pc' \in IF loop.n + 1 = BatchMax THEN {"unlock"} ELSE {"deflate", "unlock"}
     /\ loop' = [loop EXCEPT !.n = @ + 1, !.cur = IF last THEN 0 ELSE i,
                             !.then = IF pc' = "unlock" /\ loop.n + 1 < BatchMax THEN "done" ELSE "loop"]
     /\ UNCHANGED <<errors, nPages, drift, nPagesTarget, startVars, monitorVars, reserved, calm>>

\* Otherwise the driver calls through a null pointer, writes through one, or stops at an
\* assertion of BalloonAddPage or BalloonLock; a build without assertions loses the page.
AddPageFails ==
  /\ \/ pc = "inflate" /\ InflateMore /\ reserved[loop.size] < Memory[loop.size]
     \/ pc = "deflate" /\ DeflateMore
  /\ ~AddPageIsSafe
  /\ pc' = "crashed"
  /\ UNCHANGED <<loop, listVars, nPagesTarget, startVars, fallback, monitorVars, reserved, calm>>

\* The second list is deflated towards the target of the query.
NextList(l) == [NoLoop EXCEPT !.size = "large", !.target = nPagesTarget]

DeflateDone ==
  /\ pc = "deflate" /\ ~DeflateMore
  /\ \/ loop.n > 0 /\ pc' = "unlock" /\ loop' = [loop EXCEPT !.then = "done"]
     \/ loop.n = 0 /\ loop.size = "small" /\ pc' = "deflate" /\ loop' = NextList(loop)
     \/ loop.n = 0 /\ loop.size = "large" /\ pc' = "idle" /\ loop' = NoLoop
  /\ UNCHANGED <<listVars, nPagesTarget, startVars, fallback, monitorVars, reserved, calm>>

\* How the loop goes on after an unlock; shift chunks were put in front of the list.
AfterUnlock(success, shift) ==
  LET next == [loop EXCEPT !.n = 0, !.cur = IF @ = 0 THEN 0 ELSE @ + shift]
      stop == \/ loop.size = "small" /\ pc' = "deflate" /\ loop' = NextList(loop)
              \/ loop.size = "large" /\ pc' = "idle" /\ loop' = NoLoop
  IN \/ /\ success /\ loop.then = "loop"
        /\ pc' = "deflate"
        /\ \E t \in AnyTarget : loop' = [next EXCEPT !.target = t]
     \/ stop

\* BalloonUnlockBatched and BalloonUnlock: the pages that stay locked go back to the list.
DropsRefused(kept) == chunks[loop.size]      \* mutant: a refused page is forgotten
PutsBack(kept) == Stored(loop.size, kept)

Unlock ==
  /\ pc = "unlock"
  /\ \E kept \in 0..loop.n :
       LET s == loop.size
           gone == loop.n - kept
       IN /\ \/ monitor = "up" /\ (calm \/ ops = "basic" => kept = 0) /\ resetFlag' = resetFlag
                /\ AfterUnlock(TRUE, IF NeedsChunk(s, kept) THEN 1 ELSE 0)
             \/ kept = loop.n /\ LockCommandFails
                /\ AfterUnlock(FALSE, 0)
          /\ chunks' = [chunks EXCEPT ![s] = PutsBack(kept)]
          /\ locked' = IF monitor = "up" THEN [locked EXCEPT ![s] = @ - gone] ELSE locked
          /\ reserved' = [reserved EXCEPT ![s] = @ - gone]
          /\ nPages' = nPages - gone * PagesPerEntry(s)
  /\ fallback' = FALSE
  /\ UNCHANGED <<errors, drift, nPagesTarget, capabilities, ops, batchPage, halfStarted, monitor, calm>>

\* No memory for a chunk, and no fallback chunk: the assertion of BalloonGetChunkOrFallback.
UnlockCrashes ==
  /\ pc = "unlock" /\ ~calm /\ ~fallback
  /\ \E kept \in 1..loop.n :
       /\ NeedsChunk(loop.size, kept)
       /\ ops = "basic" \/ monitor # "up" => kept = loop.n
  /\ pc' = "crashed"
  /\ UNCHANGED <<loop, listVars, nPagesTarget, startVars, fallback, monitorVars, reserved, calm>>

(***************************************************************************)
(* Balloon_Cleanup, and the surroundings.                                  *)
(***************************************************************************)
Cleanup ==
  /\ pc = "idle" /\ ~calm
  /\ Deallocate(0)
  /\ batchPage' = FALSE
  /\ \/ monitor' = "up" /\ locked' = None
     \/ UNCHANGED monitorVars
  /\ pc' = "unloaded"
  /\ UNCHANGED <<loop, nPagesTarget, resetFlag, capabilities, ops, halfStarted, fallback, calm>>

\* The monitor forgets the balloon, as after a restore: every command asks for a reset.
MonitorResets ==
  /\ monitor = "up" /\ ~calm /\ pc \notin {"unloaded", "crashed"}
  /\ monitor' = "down" /\ locked' = None
  /\ UNCHANGED <<pc, loop, listVars, nPagesTarget, startVars, fallback, reserved, calm>>

\* From now on the monitor wants one target, refuses nothing, and there is memory.
CalmsDown ==
  /\ ~calm /\ calm' = TRUE
  /\ UNCHANGED <<pc, loop, listVars, nPagesTarget, startVars, fallback, monitorVars, reserved>>

Step ==
  \/ Poll \/ ResetFails \/ ResetWithoutBatchPage \/ ResetStarts \/ GetTarget \/ GetTargetFails
  \/ AllocPage \/ AllocFails \/ InflateDone \/ FinishLock \/ ErrorPagesFree
  \/ LockBatchFails \/ LockBatch \/ LockOneFails \/ LockOneRefused \/ LockOne
  \/ TakePage \/ AddPageFails \/ DeflateDone \/ Unlock \/ UnlockCrashes

Next == Step \/ Cleanup \/ MonitorResets \/ CalmsDown

Spec == Init /\ [][Next]_vars

\* The driver is polled again and again, and what it calls returns.
FairSpec == Spec /\ WF_vars(Step)

(***************************************************************************)
(* Properties.                                                             *)
(***************************************************************************)
\* Pages on their way from the guest to the monitor, and back.
Inflating(s) == IF pc \in {"inflate", "lock", "finish"} /\ loop.size = s THEN loop.n ELSE 0
Deflating(s) == IF pc \in {"deflate", "unlock"} /\ loop.size = s THEN loop.n ELSE 0

\* No page is lost and none is freed twice, whatever the monitor refuses: what the driver
\* has from the guest is in a chunk, in a batch, on the error list, or is the batch page.
PagesAreAccountedFor ==
  pc # "crashed" =>
    \A s \in Sizes :
      reserved[s] = Entries(s) + Inflating(s) + Deflating(s) + errors[s]
                    + (IF s = "small" /\ batchPage THEN 1 ELSE 0)

\* A page is locked in the monitor exactly while the driver tracks it as ballooned, so that
\* the guest never uses a page that the monitor has taken away.  Only a driver whose second
\* start failed may have freed pages that the monitor still takes for locked: it resets
\* itself although the monitor has not forgotten them, and its next start may fail, too.
MonitorAgrees ==
  monitor = "up" /\ pc \notin {"unloaded", "crashed"} =>
    \A s \in Sizes : /\ locked[s] >= Entries(s) + Deflating(s)
                     /\ ~halfStarted => locked[s] = Entries(s) + Deflating(s)

\* nPages is the size of the balloon, but for what resets with large pages leave behind.
SizeIsTracked ==
  pc # "crashed" =>
    nPages = Entries("small") + Deflating("small")
             + Large * (Entries("large") + Deflating("large")) + drift

\* The operations that are in use have what they need: the batched ones a batch page, the
\* basic ones small pages only.
OpsReady ==
  /\ ops # "none"
  /\ ops = "batched" <=> batchPage
  /\ ops = "basic" => loop.size = "small" \/ loop.n = 0

\* The driver only inflates or deflates with operations that are ready, and never gets to a
\* call of addPage that is not safe, unless the second start of BalloonReset failed; then
\* at least what it locks and unlocks is one small page, by the basic operations.
OperationsAreReady ==
  /\ pc \in {"inflate", "lock", "deflate", "unlock"} => OpsReady \/ halfStarted
  /\ (pc = "inflate" /\ InflateMore) \/ (pc = "deflate" /\ DeflateMore)
       => AddPageIsSafe \/ halfStarted
  /\ pc \in {"lock", "unlock"} /\ halfStarted => ops = "basic" /\ loop.size = "small" /\ loop.n = 1

\* The driver's own books: its pages, its count of them, and the operations that keep both.
BalloonInv == TypeOK /\ PagesAreAccountedFor /\ SizeIsTracked /\ OperationsAreReady

\* When monitor and memory cause no more trouble, the balloon gets to its target, up to a
\* large page too much, and stays there: no "constant balloon, unballoon loop".
TargetIsHeld ==
  <>calm => <>[](\/ nPages \in nPagesTarget..(nPagesTarget + Large - 1)
                 \/ drift > 0 \/ pc \in {"unloaded", "crashed"})

\* BalloonReset: "Resets balloon "b" to empty state."
ResetEmpties == [][pc = "reset" /\ pc' = "query" => nPages' = 0]_vars

\* BalloonGetChunkOrFallback: "ASSERT(b->fallbackChunk != NULL)".  The other way to crash
\* needs a failed second start.
FallbackIsThere == pc = "crashed" => halfStarted

\* BalloonReset: "We failed to initialize the batching in the guest, inform the monitor about
\* that by sending a null capability."  The driver does not go on as if it had started.
NullStartIsHeeded == pc \in {"inflate", "lock", "deflate", "unlock"} => OpsReady
=============================================================================
