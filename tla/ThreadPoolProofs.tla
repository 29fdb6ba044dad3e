-------------------------- MODULE ThreadPoolProofs --------------------------
(***************************************************************************)
(* The thread pool, for any number of workers, standalone threads and      *)
(* tasks and any width of the task numbers: every queued task has a        *)
(* request, the shutdown leaves nothing behind, and, as long as GLib can   *)
(* create threads and standalone threads do not cancel, every task has one *)
(* owner.  The inductive invariant says where the main thread and the      *)
(* thread inside cancel can be, that a task that is not destroyed yet is   *)
(* with somebody, and how the numbers of recent tasks follow from the last.*)
(***************************************************************************)
EXTENDS ThreadPool, FiniteSetTheorems, TLAPS

Held(t) == \E w \in Workers : wpc[w] = "run" /\ wtask[w] = t
Dispatched(t) == mpc = "idle" /\ mtask = t
Cancelled(t) == canceller # Nobody /\ cancelled = t
Submitted == 1..submitted

\* Tasks that are somewhere were submitted.
TasksAreSubmitted ==
  /\ \A i \in DOMAIN workQueue : workQueue[i] \in Submitted
  /\ \A w \in Workers : wpc[w] = "run" => wtask[w] \in Submitted
  /\ canceller # Nobody => cancelled \in Submitted
  /\ canceller = Nobody => cancelled = 0
  /\ srcId \subseteq Submitted
  /\ Alive => IF mpc = "idle" THEN mtask \in srcId ELSE mtask = 0

\* The stages of the shutdown, and the thread that is inside cancel.
Stages ==
  /\ Alive => (active = 1 <=> mpc \in {"loop", "idle"})
  /\ Alive /\ canceller # Nobody =>
       \/ canceller = Main /\ mpc \in {"loop", "idle"}
       \/ canceller \in Workers /\ wpc[canceller] = "run"
       \/ canceller \in Standalone /\ tpc[canceller] = "run"
  /\ mpc \in {"poolWait", "join", "down"} => tokens = 0
  /\ mpc \in {"join", "down"} => PoolIsIdle
  /\ mpc = "down" => workQueue = <<>>

\* Standalone threads are listed until they have ended, and joined after that.
ThreadsInv ==
  /\ \A s \in Standalone : tpc[s] \in {"run", "done"} => s \in threads
  /\ \A s \in joined \cup ended : tpc[s] = "ended"
  /\ WaitsForInterruptedOnly
  /\ mpc = "down" => \A s \in Standalone : tpc[s] \in {"none", "ended"}

\* A task that was not destroyed is with somebody who will do it.
TasksAreKept ==
  Alive =>
    /\ \A t \in Submitted : freed[t] > 0 \/ InQueue(t) \/ Held(t) \/ Dispatched(t) \/ Cancelled(t)
    /\ \A t \in srcId \ sources : freed[t] > 0 \/ Dispatched(t)

\* The numbers of the last UINT_MAX tasks count down from the last one, and wrap around.
NumbersInv ==
  /\ nextWorkId < UINT_MAX
  /\ \A t \in Submitted :
       submitted - t < UINT_MAX =>
         id[t] = nextWorkId - (submitted - t) + (IF submitted - t < nextWorkId THEN 0 ELSE UINT_MAX)

PoolInv ==
  /\ TypeOK /\ TasksAreSubmitted /\ Stages /\ ThreadsInv /\ TasksAreKept /\ NumbersInv
  /\ IdsAreDistinct /\ EveryTaskHasToken

\* Where the tasks are as long as GLib can create threads: with workers or with sources.
ModesInv ==
  /\ IF SingleThreaded THEN tokens = 0 /\ PoolIsIdle ELSE srcId = {}
  /\ Alive /\ SingleThreaded =>
       \A t \in Submitted :
         /\ InQueue(t) \/ Dispatched(t) \/ Cancelled(t) => t \in sources
         /\ mpc # "down" /\ t \in sources => InQueue(t) \/ Dispatched(t) \/ Cancelled(t)

\* No task is in two places, and one that is somewhere is not destroyed.
PlacesExclude ==
  /\ \A i, j \in DOMAIN workQueue : workQueue[i] = workQueue[j] => i = j
  /\ \A v, w \in Workers : wpc[v] = "run" /\ wpc[w] = "run" /\ wtask[v] = wtask[w] => v = w
  /\ \A t \in Tasks \ Submitted : runs[t] = 0 /\ freed[t] = 0
  /\ Alive =>
       \A t \in Submitted :
         /\ InQueue(t) => runs[t] = 0 /\ ~Held(t) /\ ~Dispatched(t) /\ ~Cancelled(t)
         /\ Held(t) => ~Dispatched(t) /\ ~Cancelled(t)
         /\ Dispatched(t) => ~Cancelled(t)
         /\ InQueue(t) \/ Held(t) \/ Dispatched(t) \/ Cancelled(t) => freed[t] = 0
         /\ freed[t] <= 1

OwnersInv == PoolInv /\ ModesInv /\ PlacesExclude

-----------------------------------------------------------------------------
(***************************************************************************)
(* The queue.                                                              *)
(***************************************************************************)
In(q, t) == \E i \in DOMAIN q : q[i] = t
Distinct(q) == \A i, j \in DOMAIN q : q[i] = q[j] => i = j

LEMMA AppendIn ==
  ASSUME NEW S, NEW q \in Seq(S), NEW x \in S
  PROVE  /\ Append(q, x) \in Seq(S) /\ Len(Append(q, x)) = Len(q) + 1
         /\ \A t : In(Append(q, x), t) <=> In(q, t) \/ t = x
         /\ Distinct(q) /\ ~In(q, x) => Distinct(Append(q, x))
<1> DEFINE n == Len(q)
           r == Append(q, x)
<1>1. /\ n \in Nat /\ DOMAIN q = 1..n /\ DOMAIN r = 1..(n + 1) /\ r[n + 1] = x
      /\ \A i \in 1..n : r[i] = q[i]
  OBVIOUS
<1>2. r \in Seq(S) /\ Len(r) = n + 1
  OBVIOUS
<1> HIDE DEF n, r
<1>3. /\ \A i \in 1..(n + 1) : i \in 1..n \/ i = n + 1
      /\ \A i \in 1..n : i \in 1..(n + 1)
      /\ n + 1 \in 1..(n + 1)
  BY <1>1
<1>4. \A t : In(r, t) <=> In(q, t) \/ t = x
  BY <1>1, <1>3 DEF In
<1>5. Distinct(q) /\ ~In(q, x) => Distinct(r)
  BY <1>1, <1>3 DEF In, Distinct
<1> QED
  BY <1>2, <1>4, <1>5 DEF n, r

LEMMA TailIn ==
  ASSUME NEW S, NEW q \in Seq(S), q # <<>>
  PROVE  /\ Tail(q) \in Seq(S) /\ Len(Tail(q)) = Len(q) - 1 /\ Head(q) \in S
         /\ \A t : In(q, t) <=> t = Head(q) \/ In(Tail(q), t)
         /\ Distinct(q) => Distinct(Tail(q)) /\ ~In(Tail(q), Head(q))
<1> DEFINE n == Len(q)
           r == Tail(q)
           h == Head(q)
<1>1. /\ n \in Nat /\ n # 0 /\ DOMAIN q = 1..n /\ DOMAIN r = 1..(n - 1) /\ h = q[1]
      /\ \A i \in 1..(n - 1) : r[i] = q[i + 1]
  OBVIOUS
<1>2. r \in Seq(S) /\ Len(r) = n - 1 /\ h \in S
  OBVIOUS
<1> HIDE DEF n, r, h
<1>3. /\ \A i \in 1..n : i = 1 \/ (i - 1 \in 1..(n - 1) /\ (i - 1) + 1 = i)
      /\ \A i \in 1..(n - 1) : i + 1 \in 1..n /\ i + 1 # 1
      /\ \A i, j \in 1..(n - 1) : i + 1 = j + 1 => i = j
      /\ 1 \in 1..n
  BY <1>1
<1>4. \A i \in 1..n : i # 1 => q[i] = r[i - 1]
  BY <1>1, <1>3
<1>5. \A t : In(q, t) <=> t = h \/ In(r, t)
  <2>1. \A t : In(q, t) => t = h \/ In(r, t)
    <3> SUFFICES ASSUME NEW i \in 1..n, i # 1
                 PROVE  In(r, q[i])
      BY <1>1 DEF In
    <3>1. i - 1 \in 1..(n - 1) /\ r[i - 1] = q[i]
      BY <1>3, <1>4
    <3> QED
      BY <1>1, <3>1 DEF In
  <2>2. In(q, h)
    BY <1>1, <1>3 DEF In
  <2>3. \A t : In(r, t) => In(q, t)
    BY <1>1, <1>3 DEF In
  <2> QED
    BY <2>1, <2>2, <2>3
<1>6. Distinct(q) => Distinct(r)
  <2> SUFFICES ASSUME Distinct(q), NEW i \in 1..(n - 1), NEW j \in 1..(n - 1), r[i] = r[j]
               PROVE  i = j
    BY <1>1 DEF Distinct
  <2>1. q[i + 1] = q[j + 1] /\ i + 1 \in 1..n /\ j + 1 \in 1..n
    BY <1>1, <1>3
  <2>2. i + 1 = j + 1
    BY <1>1, <2>1 DEF Distinct
  <2> QED
    BY <1>3, <2>2
<1>7. Distinct(q) => ~In(r, h)
  BY <1>1, <1>3 DEF Distinct, In
<1> QED
  BY <1>2, <1>5, <1>6, <1>7 DEF n, r, h

\* g_queue_remove.
LEMMA WithoutIn ==
  ASSUME NEW S, workQueue \in Seq(S), NEW t
  PROVE  /\ WithoutTask(t) \in Seq(S) /\ Len(WithoutTask(t)) <= Len(workQueue)
         /\ \A u : In(WithoutTask(t), u) => InQueue(u)
         /\ \A u : InQueue(u) => u = t \/ In(WithoutTask(t), u)
         /\ Distinct(workQueue) => Distinct(WithoutTask(t)) /\ ~In(WithoutTask(t), t)
<1>1. CASE ~InQueue(t)
  <2>1. WithoutTask(t) = workQueue
    BY <1>1 DEF WithoutTask
  <2>2. Len(workQueue) \in Nat
    OBVIOUS
  <2> QED
    BY <1>1, <2>1, <2>2 DEF InQueue, In
<1>2. CASE InQueue(t)
  <2> DEFINE q == workQueue
             n == Len(q)
             r == WithoutTask(t)
             at == CHOOSE i \in DOMAIN workQueue : workQueue[i] = t
  <2>1. at \in DOMAIN q /\ q[at] = t
    BY <1>2 DEF InQueue
  <2>2. r = [i \in 1..(n - 1) |-> q[IF i < at THEN i ELSE i + 1]]
    BY <1>2 DEF WithoutTask
  <2>3. n \in Nat /\ DOMAIN q = 1..n /\ \A i \in 1..n : q[i] \in S
    OBVIOUS
  <2> HIDE DEF q, n, r, at
  <2>4. at \in 1..n /\ n - 1 \in Nat
    BY <2>1, <2>3
  <2> DEFINE to(i) == IF i < at THEN i ELSE i + 1
             from(i) == IF i < at THEN i ELSE i - 1
  <2>5. \A i \in 1..(n - 1) : to(i) \in 1..n /\ to(i) # at
    BY <2>3, <2>4
  <2>6. \A i, j \in 1..(n - 1) : to(i) = to(j) => i = j
    BY <2>3, <2>4
  <2>7. \A i \in 1..n : i # at => from(i) \in 1..(n - 1) /\ to(from(i)) = i
    BY <2>3, <2>4
  <2>8. DOMAIN r = 1..(n - 1) /\ \A i \in 1..(n - 1) : r[i] = q[to(i)]
    BY <2>2
  <2> HIDE DEF to, from
  <2>9. r \in Seq(S) /\ Len(r) = n - 1
    <3>1. \A i \in 1..(n - 1) : r[i] \in S
      BY <2>3, <2>5, <2>8
    <3>2. r = [i \in 1..(n - 1) |-> r[i]]
      BY <2>2
    <3> QED
      BY <2>4, <2>8, <3>1, <3>2
  <2>10. n - 1 <= n
    BY <2>3
  <2>11. \A u : In(r, u) => In(q, u)
    BY <2>3, <2>5, <2>8 DEF In
  <2>12. \A u : In(q, u) => u = t \/ In(r, u)
    BY <2>1, <2>3, <2>7, <2>8 DEF In
  <2>13. Distinct(q) => Distinct(r)
    BY <2>3, <2>5, <2>6, <2>8 DEF Distinct
  <2>14. Distinct(q) => ~In(r, t)
    BY <2>1, <2>3, <2>5, <2>8 DEF Distinct, In
  <2> QED
    BY <2>9, <2>10, <2>11, <2>12, <2>13, <2>14 DEF InQueue, In, q, n, r
<1> QED
  BY <1>1, <1>2

-----------------------------------------------------------------------------
(***************************************************************************)
(* Every step keeps PoolInv.                                               *)
(***************************************************************************)
USE ThreadsAssumption, NumbersAssumption

LEMMA QuietNumbers ==
  ASSUME NumbersInv, IdsAreDistinct, UNCHANGED <<nextWorkId, submitted, id>>
  PROVE  NumbersInv' /\ IdsAreDistinct'
BY DEF NumbersInv, IdsAreDistinct, Submitted

LEMMA QuietThreads ==
  ASSUME ThreadsInv, UNCHANGED <<mpc, tpc, threads, ended, interrupted, joined>>
  PROVE  ThreadsInv'
BY DEF ThreadsInv, WaitsForInterruptedOnly

\* Steps of standalone threads, and the steps that join them.
LEMMA ThreadSteps ==
  ASSUME PoolInv, NEW s \in Standalone,
         Start(s) \/ ThreadReturns(s) \/ ThreadEnds(s) \/ Reap(s) \/ Join(s)
  PROVE  PoolInv'
<1>0. TypeOK /\ TasksAreSubmitted /\ Stages /\ ThreadsInv /\ TasksAreKept
  BY DEF PoolInv
<1>1. UNCHANGED <<active, workQueue, tokens, sources, pool, nextWorkId, submitted, id, srcId, pushErrors,
                  wpc, wtask, mpc, mtask, canceller, cancelled, runs, freed>>
  BY DEF Start, ThreadReturns, ThreadEnds, Reap, Join, queueVars, taskVars, workerVars, cancelVars, tallies
<1>2. TypeOK'
  <2>1. tpc' \in [Standalone -> {"none", "run", "done", "ended"}]
    BY <1>0 DEF TypeOK, Start, ThreadReturns, ThreadEnds, Reap, Join
  <2>2. /\ threads' \subseteq Standalone /\ ended' \subseteq Standalone
        /\ interrupted' \subseteq Standalone /\ joined' \subseteq Standalone
    BY <1>0 DEF TypeOK, Start, ThreadReturns, ThreadEnds, Reap, Join
  <2> QED
    BY <1>0, <1>1, <2>1, <2>2 DEF TypeOK
<1>3. TasksAreSubmitted' /\ TasksAreKept'
  BY <1>0, <1>1 DEF TasksAreSubmitted, TasksAreKept, Submitted, Alive, InQueue, Held, Dispatched, Cancelled
<1>4. NumbersInv' /\ IdsAreDistinct'
  BY <1>1, QuietNumbers DEF PoolInv
<1>5. EveryTaskHasToken'
  BY <1>1 DEF PoolInv, EveryTaskHasToken, Popping, Alive, SingleThreaded
<1>6. /\ DOMAIN tpc = Standalone
      /\ \A u \in Standalone : u # s => tpc'[u] = tpc[u]
      /\ canceller = s /\ tpc[s] = "run" => tpc'[s] = "run"
  BY <1>0 DEF TypeOK, Start, ThreadReturns, ThreadEnds, Reap, Join
<1>7. Stages'
  <2>1. ASSUME Alive, canceller # Nobody
        PROVE  \/ canceller = Main /\ mpc \in {"loop", "idle"}
               \/ canceller \in Workers /\ wpc[canceller] = "run"
               \/ canceller \in Standalone /\ tpc'[canceller] = "run"
    BY <1>0, <1>6, <2>1 DEF Stages
  <2> QED
    BY <1>0, <1>1, <2>1 DEF Stages, Alive, PoolIsIdle
<1>8. ThreadsInv'
  <2>1. CASE Start(s)
    <3>1. mpc \in {"loop", "idle"} /\ tpc[s] = "none" /\ tpc' = [tpc EXCEPT ![s] = "run"]
          /\ threads' = threads \cup {s} /\ UNCHANGED <<ended, interrupted, joined>>
      BY <1>0, <2>1 DEF Start, Stages, MayStart, Calling
    <3> QED
      BY <1>0, <1>1, <1>6, <3>1 DEF ThreadsInv, WaitsForInterruptedOnly
  <2>2. CASE ThreadReturns(s)
    <3>1. /\ tpc[s] = "run" /\ tpc' = [tpc EXCEPT ![s] = "done"]
          /\ UNCHANGED <<threads, ended, interrupted, joined>>
      BY <2>2 DEF ThreadReturns
    <3> QED
      BY <1>0, <1>1, <1>6, <3>1 DEF ThreadsInv, WaitsForInterruptedOnly
  <2>3. CASE ThreadEnds(s)
    <3>1. /\ tpc[s] = "done" /\ tpc' = [tpc EXCEPT ![s] = "ended"]
          /\ ended' \subseteq ended \cup {s} /\ threads \subseteq threads' \cup {s}
          /\ UNCHANGED <<interrupted, joined>>
      BY <2>3 DEF ThreadEnds
    <3> QED
      BY <1>0, <1>1, <1>6, <3>1 DEF ThreadsInv, WaitsForInterruptedOnly
  <2>4. CASE Reap(s) \/ Join(s)
    <3>1. UNCHANGED <<tpc, threads, interrupted>> /\ tpc[s] = "ended" /\ ended' \subseteq ended
          /\ joined' = joined \cup {s}
      BY <1>0, <2>4 DEF Reap, Join, ThreadsInv
    <3> QED
      BY <1>0, <1>1, <3>1 DEF ThreadsInv, WaitsForInterruptedOnly
  <2> QED
    BY <2>1, <2>2, <2>3, <2>4
<1> QED
  BY <1>2, <1>3, <1>4, <1>5, <1>7, <1>8 DEF PoolInv

\* The shutdown up to the point where it joins the threads, and crashes.
LEMMA StopSteps ==
  ASSUME PoolInv,
         Shutdown \/ InterruptAndStop \/ PoolFreed \/ UsesFreed \/ \E w \in Workers : PopsNull(w)
  PROVE  PoolInv'
<1>0. TypeOK /\ TasksAreSubmitted /\ Stages /\ ThreadsInv /\ TasksAreKept
  BY DEF PoolInv
<1>1. /\ UNCHANGED <<workQueue, sources, pool, nextWorkId, submitted, id, srcId, pushErrors,
                     wpc, wtask, mtask, canceller, cancelled, runs, freed, tpc, threads, ended, joined>>
      /\ \/ /\ mpc = "loop" /\ canceller # Main /\ mpc' = "interrupt" /\ active' = 0
            /\ UNCHANGED <<tokens, interrupted>>
         \/ /\ mpc = "interrupt" /\ mpc' = "poolWait" /\ tokens' = 0 /\ active' = active
            /\ interrupted' = interrupted \cup {s \in threads : tpc[s] = "run"}
         \/ mpc = "poolWait" /\ PoolIsIdle /\ mpc' = "join" /\ UNCHANGED <<active, tokens, interrupted>>
         \/ mpc' = "crashed" /\ UNCHANGED <<active, tokens, interrupted>>
  BY DEF Shutdown, InterruptAndStop, PoolFreed, UsesFreed, PopsNull, Crash, InLoop, queueVars, taskVars,
         workerVars, cancelVars, tallies, threadVars
<1>2. TypeOK'
  BY <1>0, <1>1 DEF TypeOK, MainSteps
<1>3. TasksAreSubmitted' /\ TasksAreKept'
  BY <1>0, <1>1 DEF TasksAreSubmitted, TasksAreKept, Submitted, Alive, InQueue, Held, Dispatched, Cancelled
<1>4. NumbersInv' /\ IdsAreDistinct'
  BY <1>1, QuietNumbers DEF PoolInv
<1>5. EveryTaskHasToken'
  BY <1>0, <1>1 DEF PoolInv, Stages, EveryTaskHasToken, Popping, Alive, SingleThreaded
<1>6. Stages'
  BY <1>0, <1>1 DEF Stages, Alive, PoolIsIdle
<1>7. ThreadsInv'
  BY <1>0, <1>1 DEF ThreadsInv, WaitsForInterruptedOnly
<1> QED
  BY <1>2, <1>3, <1>4, <1>5, <1>6, <1>7 DEF PoolInv

\* The counter that gives tasks their numbers.
LEMMA NumberStep ==
  ASSUME TypeOK, NumbersInv, IdsAreDistinct, submitted < MaxTasks, submitted' = submitted + 1,
         Number(submitted + 1)
  PROVE  /\ NumbersInv' /\ IdsAreDistinct'
         /\ nextWorkId' \in 0..UINT_MAX /\ id' \in [Tasks -> 0..UINT_MAX]
<1> DEFINE k == submitted
           n == nextWorkId
           m == nextWorkId'
<1>0. k \in Nat /\ n \in Nat /\ UINT_MAX \in Nat /\ UINT_MAX # 0 /\ n < UINT_MAX /\ MaxTasks \in Nat
  BY DEF TypeOK, NumbersInv
<1>1. m = IF n + 1 = UINT_MAX THEN 0 ELSE n + 1
  BY DEF Number
<1>2. k + 1 \in Tasks /\ \A t \in 1..k : t \in Tasks
  BY <1>0 DEF Tasks
<1>3. id'[k + 1] = n + 1 /\ \A t \in 1..k : id'[t] = id[t]
  <2>1. \A t \in 1..k : t # k + 1
    BY <1>0
  <2> QED
    BY <1>2, <2>1 DEF Number, TypeOK
<1>4. id' \in [Tasks -> 0..UINT_MAX] /\ m \in 0..UINT_MAX /\ m < UINT_MAX
  <2>1. n + 1 \in 0..UINT_MAX
    BY <1>0
  <2>2. m \in 0..UINT_MAX /\ m < UINT_MAX
    BY <1>0, <1>1
  <2> QED
    BY <2>1, <2>2 DEF Number, TypeOK
<1>5. \A t \in 1..k :
        k - t < UINT_MAX => id[t] = n - (k - t) + (IF k - t < n THEN 0 ELSE UINT_MAX)
  BY DEF NumbersInv, Submitted
<1>6. \A t \in 1..k :
        /\ id[t] # 0
        /\ \A u \in 1..k : u < t /\ t - u < UINT_MAX => id[u] # id[t]
  BY DEF IdsAreDistinct
<1>7. submitted' = k + 1
  OBVIOUS
<1> HIDE DEF k, n, m
<1>8. \A t \in 1..(k + 1) : t \in 1..k \/ t = k + 1
  BY <1>0
<1>9. ASSUME NEW t \in 1..(k + 1), (k + 1) - t < UINT_MAX
      PROVE  id'[t] = m - ((k + 1) - t) + (IF (k + 1) - t < m THEN 0 ELSE UINT_MAX)
  <2>1. CASE t = k + 1
    BY <1>0, <1>1, <1>3, <2>1
  <2>2. CASE t \in 1..k
    <3>1. k - t < UINT_MAX /\ t \in Nat
      BY <1>0, <1>9, <2>2
    <3>2. id'[t] = n - (k - t) + (IF k - t < n THEN 0 ELSE UINT_MAX)
      BY <1>3, <1>5, <2>2, <3>1
    <3> QED
      BY <1>0, <1>1, <1>9, <2>2, <3>1, <3>2
  <2> QED
    BY <1>8, <2>1, <2>2
<1>10. ASSUME NEW u \in 1..k, (k + 1) - u < UINT_MAX
       PROVE  id[u] # n + 1
  <2>1. id[u] = n - (k - u) + (IF k - u < n THEN 0 ELSE UINT_MAX)
    <3>1. k - u < UINT_MAX
      BY <1>0, <1>10
    <3> QED
      BY <1>5, <3>1
  <2> QED
    BY <1>0, <1>10, <2>1
<1>11. NumbersInv'
  BY <1>4, <1>7, <1>9 DEF NumbersInv, Submitted, m
<1>12. ASSUME NEW t \in 1..(k + 1)
       PROVE  /\ id'[t] # 0
              /\ \A u \in 1..(k + 1) : u < t /\ t - u < UINT_MAX => id'[u] # id'[t]
  <2>1. CASE t = k + 1
    <3>1. id'[t] # 0
      BY <1>0, <1>3, <2>1
    <3>2. \A u \in 1..(k + 1) : u < t => u \in 1..k
      BY <1>0, <2>1
    <3> QED
      BY <1>3, <1>10, <2>1, <3>1, <3>2
  <2>2. CASE t \in 1..k
    <3>1. \A u \in 1..(k + 1) : u < t => u \in 1..k
      BY <1>0, <2>2
    <3> QED
      BY <1>3, <1>6, <2>2, <3>1
  <2> QED
    BY <1>8, <2>1, <2>2
<1>13. IdsAreDistinct'
  BY <1>7, <1>12 DEF IdsAreDistinct
<1> QED
  BY <1>4, <1>11, <1>13 DEF m

LEMMA SubmitStep ==
  ASSUME PoolInv, Submit
  PROVE  PoolInv'
<1>0. /\ TypeOK /\ TasksAreSubmitted /\ Stages /\ ThreadsInv /\ TasksAreKept /\ NumbersInv
      /\ IdsAreDistinct /\ EveryTaskHasToken
  BY DEF PoolInv
<1> DEFINE t == submitted + 1
<1>1. /\ active = 1 /\ submitted < MaxTasks /\ mpc \in {"loop", "idle"}
      /\ submitted' = t /\ Number(t) /\ workQueue' = Append(workQueue, t)
      /\ UNCHANGED <<active, pool, wpc, wtask, mpc, mtask, canceller, cancelled, runs, freed,
                     tpc, threads, ended, interrupted, joined>>
      /\ \/ ~SingleThreaded /\ tokens' = tokens + 1 /\ UNCHANGED <<srcId, sources, pushErrors>>
         \/ /\ \/ SingleThreaded /\ UNCHANGED <<tokens, pushErrors>>
               \/ ~SingleThreaded /\ pushErrors < MaxPushErrors /\ pushErrors' = pushErrors + 1 
                    /\ tokens' = tokens + 1
            /\ srcId' = srcId \cup {t} /\ sources' = sources \cup {t}
  <2>1. Alive
    BY DEF Submit, Calling
  <2> QED
    BY <1>0, <2>1 DEF Submit, Push, Stages, workerVars, cancelVars, tallies, threadVars
<1>2. NumbersInv' /\ IdsAreDistinct' /\ nextWorkId' \in 0..UINT_MAX /\ id' \in [Tasks -> 0..UINT_MAX]
  BY <1>0, <1>1, NumberStep
<1>3. /\ t \in Tasks /\ t \in 0..MaxTasks /\ submitted \in Nat /\ Submitted' = Submitted \cup {t}
      /\ t \notin Submitted
  BY <1>0, <1>1, SMTT(40) DEF TypeOK, Tasks, Submitted
<1>4. /\ workQueue' \in Seq(Tasks) /\ Len(workQueue') = Len(workQueue) + 1
      /\ \A u : In(workQueue', u) <=> In(workQueue, u) \/ u = t
  BY <1>0, <1>1, <1>3, AppendIn DEF TypeOK
<1> HIDE DEF t
<1>5. TypeOK'
  <2>1. tokens' \in Nat /\ pushErrors' \in 0..MaxPushErrors
    BY <1>0, <1>1 DEF TypeOK
  <2>2. srcId' \subseteq Tasks /\ sources' \subseteq srcId'
    BY <1>0, <1>1, <1>3 DEF TypeOK
  <2> QED
    BY <1>0, <1>1, <1>2, <1>3, <1>4, <2>1, <2>2 DEF TypeOK
<1>6. TasksAreSubmitted'
  <2>1. \A i \in DOMAIN workQueue' : workQueue'[i] \in Submitted'
    BY <1>0, <1>3, <1>4 DEF TasksAreSubmitted, In
  <2> QED
    BY <1>0, <1>1, <1>3, <2>1 DEF TasksAreSubmitted, Alive
<1>7. TasksAreKept'
  <2>1. /\ \A u : (Held(u)' <=> Held(u)) /\ (Dispatched(u)' <=> Dispatched(u))
                   /\ (Cancelled(u)' <=> Cancelled(u))
        /\ \A u : InQueue(u)' <=> InQueue(u) \/ u = t
    BY <1>1, <1>4 DEF Held, Dispatched, Cancelled, InQueue, In
  <2> QED
    BY <1>0, <1>1, <1>3, <2>1 DEF TasksAreKept, Alive
<1>8. Stages'
  BY <1>0, <1>1 DEF Stages, Alive, PoolIsIdle
<1>9. ThreadsInv'
  BY <1>0, <1>1, QuietThreads
<1>10. EveryTaskHasToken'
  <2>1. Popping' = Popping /\ (Alive' <=> Alive) /\ (SingleThreaded' <=> SingleThreaded)
    BY <1>1 DEF Popping, Alive, SingleThreaded
  <2>2. IsFiniteSet(Popping) /\ Cardinality(Popping) \in Nat
    BY FS_Subset, FS_CardinalityType DEF Popping
  <2>3. Len(workQueue) \in Nat /\ tokens \in Nat
    BY <1>0 DEF TypeOK
  <2> QED
    BY <1>0, <1>1, <1>4, <2>1, <2>2, <2>3 DEF EveryTaskHasToken
<1> QED
  BY <1>2, <1>5, <1>6, <1>7, <1>8, <1>9, <1>10 DEF PoolInv

\* A worker between two tasks.
LEMMA WorkerSteps ==
  ASSUME PoolInv, NEW w \in Workers, TakeToken(w) \/ PopWork(w) \/ FinishWork(w)
  PROVE  PoolInv'
<1>0. /\ TypeOK /\ TasksAreSubmitted /\ Stages /\ ThreadsInv /\ TasksAreKept /\ EveryTaskHasToken
      /\ wpc \in [Workers -> {"idle", "pop", "run"}] /\ wtask \in [Workers -> 0..MaxTasks]
  BY DEF PoolInv, TypeOK
<1>1. /\ Alive
      /\ UNCHANGED <<active, sources, pool, nextWorkId, submitted, id, srcId, pushErrors, mpc, mtask,
                     canceller, cancelled, tpc, threads, ended, interrupted, joined>>
      /\ \/ /\ wpc[w] = "idle" /\ tokens > 0 /\ tokens' = tokens - 1
            /\ wpc' = [wpc EXCEPT ![w] = "pop"] /\ UNCHANGED <<workQueue, wtask, runs, freed>>
         \/ /\ wpc[w] = "pop" /\ workQueue # <<>> /\ workQueue' = Tail(workQueue)
            /\ wtask' = [wtask EXCEPT ![w] = Head(workQueue)] /\ wpc' = [wpc EXCEPT ![w] = "run"]
            /\ runs' = [runs EXCEPT ![Head(workQueue)] = @ + 1] /\ UNCHANGED <<tokens, freed>>
         \/ /\ wpc[w] = "run" /\ canceller # w /\ freed' = [freed EXCEPT ![wtask[w]] = @ + 1]
            /\ wpc' = [wpc EXCEPT ![w] = "idle"] /\ wtask' = [wtask EXCEPT ![w] = 0]
            /\ UNCHANGED <<workQueue, tokens, runs>>
  BY DEF TakeToken, PopWork, FinishWork, queueVars, taskVars, cancelVars, threadVars, tallies
<1>2. /\ \A v \in Workers : v # w => wpc'[v] = wpc[v] /\ wtask'[v] = wtask[v]
      /\ Submitted' = Submitted /\ Submitted \subseteq Tasks
  <2>1. \A v \in Workers : v # w => wpc'[v] = wpc[v] /\ wtask'[v] = wtask[v]
    BY <1>0, <1>1
  <2>2. submitted' = submitted /\ submitted \in 0..MaxTasks
    BY <1>0, <1>1 DEF TypeOK
  <2> QED
    BY <2>1, <2>2 DEF Submitted, Tasks
<1>3. workQueue # <<>> =>
        /\ Tail(workQueue) \in Seq(Tasks) /\ Len(Tail(workQueue)) = Len(workQueue) - 1
        /\ Head(workQueue) \in Tasks
        /\ \A u : In(workQueue, u) <=> u = Head(workQueue) \/ In(Tail(workQueue), u)
  BY <1>0, TailIn DEF TypeOK
<1>4. TypeOK'
  <2>1. workQueue' \in Seq(Tasks) /\ tokens' \in Nat
    <3>1. workQueue' = workQueue \/ (workQueue # <<>> /\ workQueue' = Tail(workQueue))
      BY <1>1
    <3>2. tokens' = tokens \/ (tokens > 0 /\ tokens' = tokens - 1)
      BY <1>1
    <3>3. workQueue \in Seq(Tasks) /\ tokens \in Nat
      BY <1>0 DEF TypeOK
    <3>4. tokens' \in Nat
      BY <3>2, <3>3
    <3> QED
      BY <1>3, <3>1, <3>3, <3>4
  <2>2. wtask' \in [Workers -> 0..MaxTasks] /\ wpc' \in [Workers -> {"idle", "pop", "run"}]
    <3>1. Head(workQueue) \in Tasks => Head(workQueue) \in 0..MaxTasks
      BY DEF Tasks
    <3>2. 0 \in 0..MaxTasks
      OBVIOUS
    <3>3. \/ wtask' = wtask \/ wtask' = [wtask EXCEPT ![w] = 0]
          \/ workQueue # <<>> /\ wtask' = [wtask EXCEPT ![w] = Head(workQueue)]
      BY <1>1
    <3>4. wtask' \in [Workers -> 0..MaxTasks]
      BY <1>0, <1>3, <3>1, <3>2, <3>3
    <3>5. wpc' \in [Workers -> {"idle", "pop", "run"}]
      BY <1>0, <1>1
    <3> QED
      BY <3>4, <3>5
  <2>3. runs' \in [Tasks -> Nat] /\ freed' \in [Tasks -> Nat]
    <3>1. \A t \in Tasks : runs[t] + 1 \in Nat /\ freed[t] + 1 \in Nat
      BY <1>0 DEF TypeOK
    <3>2. runs \in [Tasks -> Nat] /\ freed \in [Tasks -> Nat]
      BY <1>0 DEF TypeOK
    <3>3. wpc[w] = "run" => wtask[w] \in Tasks
      BY <1>0, <1>2 DEF TasksAreSubmitted
    <3> QED
      BY <1>1, <1>3, <3>1, <3>2, <3>3, ZenonT(40)
  <2> QED
    BY <1>0, <1>1, <2>1, <2>2, <2>3 DEF TypeOK
<1>5. \A i \in DOMAIN workQueue : workQueue[i] \in Submitted
  BY <1>0 DEF TasksAreSubmitted
<1>6. TasksAreSubmitted'
  <2>1. \A u : In(workQueue, u) => u \in Submitted
    BY <1>5 DEF In
  <2>2. \A i \in DOMAIN workQueue' : workQueue'[i] \in Submitted
    <3>1. \A i \in DOMAIN workQueue' : In(workQueue', workQueue'[i])
      BY DEF In
    <3>2. workQueue' = workQueue \/ (workQueue # <<>> /\ workQueue' = Tail(workQueue))
      BY <1>1
    <3> QED
      BY <1>3, <2>1, <3>1, <3>2
  <2>3. wpc'[w] = "run" => wtask'[w] \in Submitted
    BY <1>0, <1>1, <1>3, <2>1
  <2>4. \A v \in Workers : wpc'[v] = "run" => wtask'[v] \in Submitted
    BY <1>0, <1>2, <2>3 DEF TasksAreSubmitted
  <2> QED
    BY <1>0, <1>1, <1>2, <2>2, <2>4 DEF TasksAreSubmitted, Alive
<1>7. TasksAreKept'
  <2>1. \A u : (Dispatched(u)' <=> Dispatched(u)) /\ (Cancelled(u)' <=> Cancelled(u))
    BY <1>1 DEF Dispatched, Cancelled
  <2>2. \A u \in Tasks : freed[u] \in Nat
    BY <1>0 DEF TypeOK
  <2>3. \A u \in Tasks : freed[u] > 0 => freed'[u] > 0
    <3>1. freed \in [Tasks -> Nat] /\ (freed' = freed \/ freed' = [freed EXCEPT ![wtask[w]] = @ + 1])
      BY <1>0, <1>1 DEF TypeOK
    <3>2. \A u \in Tasks : freed'[u] = freed[u] \/ freed'[u] = freed[u] + 1
      BY <3>1
    <3> QED
      BY <2>2, <3>2
  <2>4. \A u : InQueue(u) <=> In(workQueue, u)
    BY DEF InQueue, In
  <2>5. \A u : InQueue(u)' <=> In(workQueue', u)
    BY DEF InQueue, In
  <2>6. \A u : InQueue(u) => InQueue(u)' \/ Held(u)'
    <3>1. CASE workQueue' = workQueue
      BY <2>4, <2>5, <3>1
    <3>2. CASE workQueue # <<>> /\ workQueue' = Tail(workQueue) /\ wtask'[w] = Head(workQueue) /\ wpc'[w] = "run"
      <4>1. \A u : u = Head(workQueue) => Held(u)'
        BY <3>2 DEF Held
      <4> QED
        BY <1>3, <2>4, <2>5, <3>2, <4>1
    <3> QED
      BY <1>0, <1>1, <3>1, <3>2
  <2>7. \A u \in Tasks : Held(u) => Held(u)' \/ freed'[u] > 0
    <3> SUFFICES ASSUME NEW u \in Tasks, NEW v \in Workers, wpc[v] = "run", wtask[v] = u
                 PROVE  Held(u)' \/ freed'[u] > 0
      BY DEF Held
    <3>1. CASE v # w
      BY <1>2, <3>1 DEF Held
    <3>2. CASE v = w
      <4>1. freed'[u] = freed[u] + 1
        BY <1>0, <1>1, <3>2 DEF TypeOK
      <4> QED
        BY <2>2, <4>1
    <3> QED
      BY <3>1, <3>2
  <2>8. srcId \subseteq Tasks
    BY <1>0 DEF TypeOK
  <2> QED
    BY <1>0, <1>1, <1>2, <2>1, <2>3, <2>6, <2>7, <2>8 DEF TasksAreKept
<1>8. Stages'
  <2>1. mpc \in {"poolWait", "join", "down"} => tokens' = 0
    BY <1>0, <1>1 DEF Stages
  <2>2. mpc \notin {"join", "down"}
    BY <1>0, <1>1 DEF Stages, PoolIsIdle
  <2>3. canceller \in Workers /\ wpc[canceller] = "run" => wpc'[canceller] = "run"
    BY <1>1, <1>2
  <2> QED
    BY <1>0, <1>1, <2>1, <2>2, <2>3 DEF Stages, Alive
<1>9. ThreadsInv'
  BY <1>0, <1>1, QuietThreads
<1>10. NumbersInv' /\ IdsAreDistinct'
  BY <1>1, QuietNumbers DEF PoolInv
<1>11. EveryTaskHasToken'
  <2>1. (Alive' <=> Alive) /\ (SingleThreaded' <=> SingleThreaded)
    BY <1>1 DEF Alive, SingleThreaded
  <2>2. IsFiniteSet(Popping) /\ Cardinality(Popping) \in Nat
    BY FS_Subset, FS_CardinalityType DEF Popping
  <2>3. Len(workQueue) \in Nat /\ tokens \in Nat
    BY <1>0 DEF TypeOK
  <2>4. CASE TakeToken(w)
    <3>1. Popping' = Popping \cup {w} /\ w \notin Popping
      BY <1>0, <2>4 DEF TakeToken, Popping
    <3>2. Cardinality(Popping') = Cardinality(Popping) + 1
      BY <2>2, <3>1, FS_AddElement
    <3>3. workQueue' = workQueue /\ tokens' = tokens - 1 /\ active' = active
      BY <2>4 DEF TakeToken
    <3> QED
      BY <1>0, <2>1, <2>2, <2>3, <3>2, <3>3 DEF EveryTaskHasToken
  <2>5. CASE PopWork(w)
    <3>1. Popping' = Popping \ {w} /\ w \in Popping
      BY <1>0, <2>5 DEF PopWork, Popping
    <3>2. Cardinality(Popping') = Cardinality(Popping) - 1
      BY <2>2, <3>1, FS_RemoveElement
    <3>3. Len(workQueue') = Len(workQueue) - 1 /\ tokens' = tokens /\ active' = active
      BY <1>3, <2>5 DEF PopWork
    <3> QED
      BY <1>0, <2>1, <2>2, <2>3, <3>2, <3>3 DEF EveryTaskHasToken
  <2>6. CASE FinishWork(w)
    <3>1. Popping' = Popping
      BY <1>0, <2>6 DEF FinishWork, Popping
    <3>2. workQueue' = workQueue /\ tokens' = tokens /\ active' = active
      BY <2>6 DEF FinishWork, queueVars
    <3> QED
      BY <1>0, <2>1, <3>1, <3>2 DEF EveryTaskHasToken
  <2> QED
    BY <2>4, <2>5, <2>6
<1> QED
  BY <1>4, <1>6, <1>7, <1>8, <1>9, <1>10, <1>11 DEF PoolInv

\* The main loop dispatches an idle source.
LEMMA IdleSteps ==
  ASSUME PoolInv, (\E t \in Tasks : RunIdle(t)) \/ FinishIdle
  PROVE  PoolInv'
<1>0. /\ TypeOK /\ TasksAreSubmitted /\ Stages /\ ThreadsInv /\ TasksAreKept /\ EveryTaskHasToken
      /\ sources \subseteq srcId /\ srcId \subseteq Submitted /\ Submitted \subseteq Tasks
      /\ workQueue \in Seq(Tasks) /\ runs \in [Tasks -> Nat] /\ freed \in [Tasks -> Nat]
      /\ \A u \in Tasks : runs[u] + 1 \in Nat /\ freed[u] + 1 \in Nat
  <2>1. /\ TypeOK /\ TasksAreSubmitted /\ Stages /\ ThreadsInv /\ TasksAreKept /\ EveryTaskHasToken
    BY DEF PoolInv
  <2>2. /\ sources \subseteq srcId /\ submitted \in 0..MaxTasks
        /\ workQueue \in Seq(Tasks) /\ runs \in [Tasks -> Nat] /\ freed \in [Tasks -> Nat]
    BY <2>1 DEF TypeOK
  <2>3. srcId \subseteq Submitted /\ Submitted \subseteq Tasks
    BY <2>1, <2>2 DEF TasksAreSubmitted, Submitted, Tasks
  <2>4. \A u \in Tasks : runs[u] + 1 \in Nat /\ freed[u] + 1 \in Nat
    BY <2>2
  <2> QED
    BY <2>1, <2>2, <2>3, <2>4
<1>1. UNCHANGED <<active, tokens, pool, nextWorkId, submitted, id, srcId, pushErrors, wpc, wtask,
                  canceller, cancelled, tpc, threads, ended, interrupted, joined>>
  BY DEF RunIdle, FinishIdle, taskVars, workerVars, cancelVars, threadVars
<1>2. /\ Submitted' = Submitted /\ mpc \in {"loop", "idle"} /\ mpc' \in {"loop", "idle"} /\ canceller # Main
      /\ \A u : (Held(u)' <=> Held(u)) /\ (Cancelled(u)' <=> Cancelled(u))
  BY <1>1 DEF RunIdle, FinishIdle, InLoop, Submitted, Held, Cancelled
<1>3. ASSUME NEW q \in Seq(Tasks), workQueue' = q, Len(q) <= Len(workQueue), \A u : In(q, u) => In(workQueue, u)
      PROVE  /\ EveryTaskHasToken'
             /\ \A i \in DOMAIN workQueue' : workQueue'[i] \in Submitted'
  <2>1. Popping' = Popping /\ active' = active /\ tokens' = tokens /\ (SingleThreaded' <=> SingleThreaded)
        /\ Alive
    BY <1>1, <1>2 DEF Popping, SingleThreaded, Alive
  <2>2. IsFiniteSet(Popping) /\ Cardinality(Popping) \in Nat
    BY FS_Subset, FS_CardinalityType DEF Popping
  <2>3. Len(workQueue) \in Nat /\ tokens \in Nat /\ Len(q) \in Nat
    BY <1>0, <1>3 DEF TypeOK
  <2>4. EveryTaskHasToken'
    BY <1>0, <1>3, <2>1, <2>2, <2>3 DEF EveryTaskHasToken
  <2>5. \A u : In(workQueue, u) => u \in Submitted
    BY <1>0 DEF In, TasksAreSubmitted
  <2>6. \A i \in DOMAIN q : In(q, q[i])
    BY DEF In
  <2> QED
    BY <1>2, <1>3, <2>4, <2>5, <2>6
<1>4. ASSUME NEW t \in Tasks, RunIdle(t)
      PROVE  TypeOK' /\ TasksAreSubmitted' /\ TasksAreKept' /\ EveryTaskHasToken'
  <2>1. /\ t \in sources /\ mpc = "loop" /\ mpc' = "idle" /\ mtask' = t
        /\ workQueue' = IF SingleThreaded THEN WithoutTask(t) ELSE workQueue
        /\ runs' = [runs EXCEPT ![t] = runs[t] + 1] /\ UNCHANGED <<sources, freed>>
    BY <1>4 DEF RunIdle, InLoop
  <2>2. /\ WithoutTask(t) \in Seq(Tasks) /\ Len(WithoutTask(t)) <= Len(workQueue)
        /\ \A u : In(WithoutTask(t), u) => InQueue(u)
        /\ \A u : InQueue(u) => u = t \/ In(WithoutTask(t), u)
    BY <1>0, WithoutIn
  <2>3. Len(workQueue) \in Nat /\ \A u : InQueue(u) <=> In(workQueue, u)
    BY <1>0 DEF InQueue, In
  <2>4. PICK q \in Seq(Tasks) :
          /\ workQueue' = q /\ Len(q) <= Len(workQueue)
          /\ \A u : In(q, u) => In(workQueue, u)
          /\ \A u : InQueue(u) => u = t \/ In(q, u)
    BY <1>0, <2>1, <2>2, <2>3
  <2>5. TypeOK'
    <3>1. t \in 0..MaxTasks
      BY DEF Tasks
    <3>2. runs' \in [Tasks -> Nat]
      BY <1>0, <2>1
    <3> QED
      BY <1>0, <1>1, <2>1, <2>4, <3>1, <3>2 DEF TypeOK, MainSteps
  <2>6. EveryTaskHasToken' /\ \A i \in DOMAIN workQueue' : workQueue'[i] \in Submitted'
    BY <1>3, <2>4
  <2>7. TasksAreSubmitted'
    BY <1>0, <1>1, <1>2, <2>1, <2>6 DEF TasksAreSubmitted, Alive
  <2>8. TasksAreKept'
    <3>1. \A u : InQueue(u)' <=> In(workQueue', u)
      BY DEF InQueue, In
    <3>2. \A u : (Dispatched(u)' <=> u = t) /\ ~Dispatched(u)
      BY <2>1 DEF Dispatched
    <3>3. Alive
      BY <2>1 DEF Alive
    <3> QED
      BY <1>0, <1>1, <1>2, <2>1, <2>4, <3>1, <3>2, <3>3 DEF TasksAreKept
  <2> QED
    BY <2>5, <2>6, <2>7, <2>8
<1>5. ASSUME FinishIdle
      PROVE  TypeOK' /\ TasksAreSubmitted' /\ TasksAreKept' /\ EveryTaskHasToken'
  <2>1. /\ mpc = "idle" /\ mpc' = "loop" /\ mtask' = 0 /\ sources' = sources \ {mtask}
        /\ freed' = [freed EXCEPT ![mtask] = freed[mtask] + 1] /\ UNCHANGED <<workQueue, runs>>
    BY <1>5 DEF FinishIdle
  <2>2. mtask \in srcId /\ mtask \in Tasks /\ Alive
    BY <1>0, <2>1 DEF TasksAreSubmitted, Alive
  <2>3. \A u \in Tasks : freed'[u] = IF u = mtask THEN freed[u] + 1 ELSE freed[u]
    BY <1>0, <2>1
  <2>4. TypeOK'
    <3>1. freed' \in [Tasks -> Nat] /\ 0 \in 0..MaxTasks
      BY <1>0, <2>1, <2>2
    <3> QED
      BY <1>0, <1>1, <2>1, <3>1 DEF TypeOK, MainSteps
  <2>5. Len(workQueue) \in Nat
    BY <1>0
  <2>6. EveryTaskHasToken' /\ \A i \in DOMAIN workQueue' : workQueue'[i] \in Submitted'
    BY <1>0, <1>3, <2>1, <2>5
  <2>7. TasksAreSubmitted'
    BY <1>0, <1>1, <1>2, <2>1, <2>6 DEF TasksAreSubmitted, Alive
  <2>8. TasksAreKept'
    <3>1. \A u : (InQueue(u)' <=> InQueue(u)) /\ (Dispatched(u) <=> u = mtask)
      BY <2>1 DEF InQueue, Dispatched
    <3>2. \A u \in Tasks : freed[u] \in Nat
      BY <1>0
    <3>3. \A u \in Tasks : u = mtask \/ freed[u] > 0 => freed'[u] > 0
      BY <2>3, <3>2
    <3> QED
      BY <1>0, <1>1, <1>2, <2>1, <2>2, <3>1, <3>3 DEF TasksAreKept
  <2> QED
    BY <2>4, <2>6, <2>7, <2>8
<1>6. Stages'
  <2>1. Stages /\ UNCHANGED <<active, wpc, tpc, canceller>>
    BY <1>0, <1>1
  <2> QED
    BY <1>2, <2>1 DEF Stages, Alive
<1>7. ThreadsInv'
  BY <1>0, <1>1, <1>2 DEF ThreadsInv, WaitsForInterruptedOnly
<1>8. NumbersInv' /\ IdsAreDistinct'
  BY <1>1, QuietNumbers DEF PoolInv
<1> QED
  BY <1>4, <1>5, <1>6, <1>7, <1>8 DEF PoolInv

\* ToolsCorePoolCancel takes a task off the queue.
LEMMA CancelFindStep ==
  ASSUME PoolInv, NEW thread \in Cancellers, CancelFind(thread)
  PROVE  PoolInv'
<1>0. /\ TypeOK /\ TasksAreSubmitted /\ Stages /\ ThreadsInv /\ TasksAreKept /\ EveryTaskHasToken
      /\ workQueue \in Seq(Tasks)
  BY DEF PoolInv, TypeOK
<1>1. /\ UNCHANGED <<active, tokens, sources, pool, nextWorkId, submitted, id, srcId, pushErrors, wpc, wtask,
                     mpc, mtask, runs, freed, tpc, threads, ended, interrupted, joined>>
      /\ canceller = Nobody /\ canceller' = thread /\ thread # Nobody /\ Calling(thread)
  BY DEF CancelFind, taskVars, workerVars, tallies, threadVars
<1>2. PICK t \in Submitted : InQueue(t) /\ cancelled' = t /\ workQueue' = WithoutTask(t)
  BY <1>0 DEF CancelFind, InQueue, TasksAreSubmitted
<1>3. /\ WithoutTask(t) \in Seq(Tasks) /\ Len(WithoutTask(t)) <= Len(workQueue)
      /\ \A u : In(WithoutTask(t), u) => InQueue(u)
      /\ \A u : InQueue(u) => u = t \/ In(WithoutTask(t), u)
  BY <1>0, WithoutIn
<1>4. Submitted' = Submitted /\ Submitted \subseteq 0..MaxTasks
  BY <1>0, <1>1 DEF Submitted, TypeOK
<1>5. TypeOK'
  BY <1>0, <1>1, <1>2, <1>3, <1>4 DEF TypeOK
<1>6. TasksAreSubmitted'
  <2>1. \A u : InQueue(u) => u \in Submitted
    BY <1>0 DEF InQueue, TasksAreSubmitted
  <2>2. \A i \in DOMAIN WithoutTask(t) : In(WithoutTask(t), WithoutTask(t)[i])
    BY DEF In
  <2>3. \A i \in DOMAIN workQueue' : workQueue'[i] \in Submitted
    BY <1>2, <1>3, <2>1, <2>2
  <2> QED
    BY <1>0, <1>1, <1>2, <1>4, <2>3 DEF TasksAreSubmitted, Alive
<1>7. TasksAreKept'
  <2>1. /\ \A u : (Held(u)' <=> Held(u)) /\ (Dispatched(u)' <=> Dispatched(u))
        /\ \A u : ~Cancelled(u) /\ (Cancelled(u)' <=> u = t)
        /\ \A u : InQueue(u) => u = t \/ InQueue(u)'
    BY <1>1, <1>2, <1>3 DEF Held, Dispatched, Cancelled, InQueue, In
  <2> QED
    BY <1>0, <1>1, <1>4, <2>1 DEF TasksAreKept, Alive
<1>8. Stages'
  <2>1. workQueue # <<>>
    BY <1>0, <1>2 DEF InQueue
  <2> QED
    BY <1>0, <1>1, <2>1 DEF Stages, Calling, Alive, PoolIsIdle
<1>9. ThreadsInv'
  BY <1>0, <1>1, QuietThreads
<1>10. NumbersInv' /\ IdsAreDistinct'
  BY <1>1, QuietNumbers DEF PoolInv
<1>11. EveryTaskHasToken'
  <2>1. Popping' = Popping /\ (Alive' <=> Alive) /\ (SingleThreaded' <=> SingleThreaded)
    BY <1>1 DEF Popping, Alive, SingleThreaded
  <2>2. IsFiniteSet(Popping) /\ Cardinality(Popping) \in Nat
    BY FS_Subset, FS_CardinalityType DEF Popping
  <2>3. Len(workQueue) \in Nat /\ tokens \in Nat /\ Len(workQueue') \in Nat /\ Len(workQueue') <= Len(workQueue)
    BY <1>0, <1>2, <1>3 DEF TypeOK
  <2> QED
    BY <1>0, <1>1, <2>1, <2>2, <2>3 DEF EveryTaskHasToken
<1> QED
  BY <1>5, <1>6, <1>7, <1>8, <1>9, <1>10, <1>11 DEF PoolInv

\* It destroys the task, unless its source did or will do so.
LEMMA CancelFinishStep ==
  ASSUME PoolInv, CancelFinish
  PROVE  PoolInv'
<1>0. /\ TypeOK /\ TasksAreSubmitted /\ Stages /\ ThreadsInv /\ TasksAreKept /\ EveryTaskHasToken
      /\ freed \in [Tasks -> Nat] /\ Submitted \subseteq Tasks /\ srcId \subseteq Submitted
  BY SMTT(30) DEF PoolInv, TypeOK, Submitted, Tasks, TasksAreSubmitted
<1>1. /\ UNCHANGED <<active, workQueue, tokens, pool, nextWorkId, submitted, id, srcId, pushErrors, wpc, wtask,
                     mpc, mtask, runs, tpc, threads, ended, interrupted, joined>>
      /\ Alive /\ canceller # Nobody /\ canceller' = Nobody /\ cancelled' = 0
      /\ sources' = sources \ {cancelled}
      /\ freed' = IF cancelled \in srcId /\ (cancelled \notin sources \/ mtask = cancelled)
                  THEN freed ELSE [freed EXCEPT ![cancelled] = freed[cancelled] + 1]
  BY DEF CancelFinish, taskVars, workerVars, threadVars
<1>2. cancelled \in Submitted /\ cancelled \in Tasks /\ cancelled # 0 /\ Submitted' = Submitted
  BY <1>0, <1>1 DEF TasksAreSubmitted, Submitted, Tasks
<1>3. \A u \in Tasks : freed[u] \in Nat /\ freed[u] + 1 \in Nat
  BY <1>0
<1>4. \A u \in Tasks :
        /\ freed[u] > 0 => freed'[u] > 0
        /\ u = cancelled /\ ~(u \in srcId /\ (u \notin sources \/ mtask = u)) => freed'[u] > 0
  <2>1. \A u \in Tasks : u # cancelled => freed'[u] = freed[u]
    BY <1>0, <1>1
  <2>2. freed'[cancelled] = IF cancelled \in srcId /\ (cancelled \notin sources \/ mtask = cancelled)
                            THEN freed[cancelled] ELSE freed[cancelled] + 1
    BY <1>0, <1>1, <1>2
  <2> QED
    BY <1>2, <1>3, <2>1, <2>2
<1>5. TypeOK'
  <2>1. freed' \in [Tasks -> Nat] /\ 0 \in 0..MaxTasks
    BY <1>0, <1>1, <1>2, <1>3
  <2> QED
    BY <1>0, <1>1, <2>1 DEF TypeOK
<1>6. TasksAreSubmitted'
  BY <1>0, <1>1, <1>2 DEF TasksAreSubmitted, Alive
<1>7. TasksAreKept'
  <2>1. /\ \A u : (Held(u)' <=> Held(u)) /\ (Dispatched(u)' <=> Dispatched(u)) /\ (InQueue(u)' <=> InQueue(u))
        /\ \A u : Cancelled(u) <=> u = cancelled
    BY <1>1 DEF Held, Dispatched, Cancelled, InQueue
  <2>2. mtask = cancelled => Dispatched(cancelled)
    BY <1>0, <1>1, <1>2 DEF TasksAreSubmitted, Dispatched
  <2>3. /\ \A u \in Submitted : freed[u] > 0 \/ InQueue(u) \/ Held(u) \/ Dispatched(u) \/ u = cancelled
        /\ \A u \in srcId \ sources : freed[u] > 0 \/ Dispatched(u)
    <3>1. /\ \A u \in Submitted : freed[u] > 0 \/ InQueue(u) \/ Held(u) \/ Dispatched(u) \/ Cancelled(u)
          /\ \A u \in srcId \ sources : freed[u] > 0 \/ Dispatched(u)
      BY <1>0, <1>1 DEF TasksAreKept
    <3> QED
      BY <2>1, <3>1
  <2>4. freed'[cancelled] > 0 \/ Dispatched(cancelled)
    <3>1. CASE cancelled \in srcId /\ cancelled \notin sources
      BY <1>2, <1>4, <2>3, <3>1
    <3>2. CASE ~(cancelled \in srcId /\ cancelled \notin sources)
      BY <1>2, <1>4, <2>2, <3>2
    <3> QED
      BY <3>1, <3>2
  <2>5. \A u \in Tasks : freed[u] > 0 => freed'[u] > 0
    BY <1>4
  <2>6. Submitted \subseteq Tasks /\ srcId' \subseteq Tasks /\ srcId' = srcId
    BY <1>0, <1>1
  <2>7. \A u \in Submitted : freed'[u] > 0 \/ InQueue(u)' \/ Held(u)' \/ Dispatched(u)' \/ Cancelled(u)'
    BY <2>1, <2>3, <2>4, <2>5, <2>6
  <2>8. \A u \in srcId' \ sources' : freed'[u] > 0 \/ Dispatched(u)'
    <3>1. sources' = sources \ {cancelled}
      BY <1>1
    <3> QED
      BY <2>1, <2>3, <2>4, <2>5, <2>6, <3>1
  <2> QED
    BY <1>2, <2>7, <2>8 DEF TasksAreKept
<1>8. Stages'
  BY <1>0, <1>1 DEF Stages, Alive, PoolIsIdle
<1>9. ThreadsInv'
  BY <1>0, <1>1, QuietThreads
<1>10. NumbersInv' /\ IdsAreDistinct'
  BY <1>1, QuietNumbers DEF PoolInv
<1>11. EveryTaskHasToken'
  BY <1>0, <1>1 DEF EveryTaskHasToken, Popping, Alive, SingleThreaded
<1> QED
  BY <1>5, <1>6, <1>7, <1>8, <1>9, <1>10, <1>11 DEF PoolInv

LEMMA DrainStep ==
  ASSUME PoolInv, Drain
  PROVE  PoolInv'
<1>0. /\ TypeOK /\ TasksAreSubmitted /\ Stages /\ ThreadsInv /\ TasksAreKept
      /\ freed \in [Tasks -> Nat] /\ Submitted \subseteq Tasks /\ srcId \subseteq Submitted
  BY SMTT(30) DEF PoolInv, TypeOK, Submitted, Tasks, TasksAreSubmitted
<1>1. /\ UNCHANGED <<active, tokens, sources, pool, nextWorkId, submitted, id, srcId, pushErrors, wpc, wtask,
                     mtask, canceller, cancelled, runs, tpc, ended, interrupted, joined>>
      /\ mpc = "join" /\ mpc' = "down" /\ threads \subseteq joined /\ threads' = {} /\ workQueue' = <<>>
      /\ freed' = [t \in Tasks |-> FreesQueued(t)]
  BY DEF Drain, taskVars, workerVars, cancelVars
<1>2. \A s \in Standalone : tpc[s] \in {"none", "ended"}
  <2>1. \A s \in Standalone : tpc[s] \in {"none", "run", "done", "ended"}
    BY <1>0 DEF TypeOK
  <2> QED
    BY <1>0, <1>1, <2>1 DEF ThreadsInv
<1>3. canceller = Nobody /\ active # 1 /\ \A w \in Workers : wpc[w] = "idle"
  BY <1>0, <1>1, <1>2 DEF Stages, Alive, PoolIsIdle
<1>4. \A u \in Tasks : freed'[u] \in Nat /\ (freed[u] > 0 \/ InQueue(u) => freed'[u] > 0)
  BY <1>0, <1>1 DEF FreesQueued
<1>5. TypeOK'
  <2>1. freed' \in [Tasks -> Nat] /\ <<>> \in Seq(Tasks)
    BY <1>1, <1>4
  <2> QED
    BY <1>0, <1>1, <2>1 DEF TypeOK, MainSteps
<1>6. TasksAreSubmitted'
  <2>1. DOMAIN workQueue' = {} /\ Submitted' = Submitted
    BY <1>1 DEF Submitted
  <2> QED
    BY <1>0, <1>1, <2>1 DEF TasksAreSubmitted, Alive
<1>7. TasksAreKept'
  <2>1. \A u : ~Held(u) /\ ~Dispatched(u) /\ ~Cancelled(u)
    BY <1>1, <1>3 DEF Held, Dispatched, Cancelled
  <2>2. \A u \in Submitted : freed'[u] > 0
    BY <1>0, <1>1, <1>4, <2>1 DEF TasksAreKept, Alive
  <2>3. Submitted' = Submitted
    BY <1>1 DEF Submitted
  <2> QED
    BY <1>0, <1>1, <2>2, <2>3 DEF TasksAreKept
<1>8. Stages'
  BY <1>0, <1>1, <1>3 DEF Stages, Alive, PoolIsIdle
<1>9. ThreadsInv'
  BY <1>0, <1>1, <1>2 DEF ThreadsInv, WaitsForInterruptedOnly
<1>10. NumbersInv' /\ IdsAreDistinct'
  BY <1>1, QuietNumbers DEF PoolInv
<1>11. EveryTaskHasToken'
  BY <1>1, <1>3 DEF EveryTaskHasToken
<1> QED
  BY <1>5, <1>6, <1>7, <1>8, <1>9, <1>10, <1>11 DEF PoolInv

LEMMA PoolInvInit == Init => PoolInv
<1> SUFFICES ASSUME Init
             PROVE  PoolInv
  OBVIOUS
<1>1. TypeOK
  BY DEF Init, TypeOK, MainSteps
<1>2. Submitted = {} /\ submitted = 0
  BY DEF Init, Submitted
<1>3. TasksAreSubmitted /\ TasksAreKept
  BY <1>2 DEF Init, TasksAreSubmitted, TasksAreKept, Alive
<1>4. Stages
  BY DEF Init, Stages, Alive
<1>5. ThreadsInv
  BY DEF Init, ThreadsInv, WaitsForInterruptedOnly
<1>6. NumbersInv /\ IdsAreDistinct
  BY <1>2 DEF Init, NumbersInv, IdsAreDistinct, Submitted
<1>7. EveryTaskHasToken
  <2>1. Popping = {} /\ Len(workQueue) = 0 /\ tokens = 0
    BY DEF Init, Popping
  <2>2. Cardinality({}) = 0
    BY FS_EmptySet
  <2> QED
    BY <2>1, <2>2 DEF EveryTaskHasToken
<1> QED
  BY <1>1, <1>3, <1>4, <1>5, <1>6, <1>7 DEF PoolInv

LEMMA PoolInvStep == PoolInv /\ [Next]_vars => PoolInv'
<1> SUFFICES ASSUME PoolInv, [Next]_vars
             PROVE  PoolInv'
  OBVIOUS
<1>1. CASE UNCHANGED vars
  <2>1. UNCHANGED <<active, workQueue, tokens, sources, pool, nextWorkId, submitted, id, srcId, pushErrors,
                    wpc, wtask, mpc, mtask, canceller, cancelled, runs, freed,
                    tpc, threads, ended, interrupted, joined>>
    BY <1>1 DEF vars, queueVars, taskVars, workerVars, cancelVars, tallies, threadVars
  <2>2. TypeOK'
    BY <2>1 DEF PoolInv, TypeOK
  <2>3. TasksAreSubmitted' /\ TasksAreKept' /\ Stages'
    BY <2>1 DEF PoolInv, TasksAreSubmitted, TasksAreKept, Stages, Submitted, Alive, InQueue, Held, Dispatched,
                Cancelled, PoolIsIdle
  <2>4. ThreadsInv' /\ NumbersInv' /\ IdsAreDistinct'
    BY <2>1, QuietThreads, QuietNumbers DEF PoolInv
  <2>5. EveryTaskHasToken'
    BY <2>1 DEF PoolInv, EveryTaskHasToken, Popping, Alive, SingleThreaded
  <2> QED
    BY <2>2, <2>3, <2>4, <2>5 DEF PoolInv
<1>2. CASE Submit
  BY <1>2, SubmitStep
<1>3. ASSUME NEW w \in Workers, Work(w)
      PROVE  PoolInv'
  BY <1>3, WorkerSteps, StopSteps DEF Work
<1>4. CASE Idle
  BY <1>4, IdleSteps DEF Idle
<1>5. CASE (\E thread \in Cancellers : CancelFind(thread)) \/ CancelFinish
  BY <1>5, CancelFindStep, CancelFinishStep
<1>6. ASSUME NEW s \in Standalone, Start(s) \/ ThreadReturns(s) \/ ThreadEnds(s) \/ Reap(s)
      PROVE  PoolInv'
  BY <1>6, ThreadSteps
<1>7. CASE Shutdown \/ Stop \/ UsesFreed
  BY <1>7, StopSteps, ThreadSteps, DrainStep DEF Stop
<1> QED
  BY <1>1, <1>2, <1>3, <1>4, <1>5, <1>6, <1>7 DEF Next

LEMMA PoolIsCorrect == Spec => []PoolInv
<1> QED
  BY PoolInvInit, PoolInvStep, PTL DEF Spec

-----------------------------------------------------------------------------
(***************************************************************************)
(* Owners, as long as GLib can create threads and no standalone thread     *)
(* cancels tasks.                                                          *)
(***************************************************************************)
Sheltered == MaxPushErrors = 0 /\ Cancellers \cap Standalone = {}

LEMMA OwnerFacts ==
  ASSUME OwnersInv
  PROVE  /\ TypeOK /\ TasksAreSubmitted /\ Stages /\ ModesInv /\ PlacesExclude
         /\ freed \in [Tasks -> Nat] /\ runs \in [Tasks -> Nat] /\ workQueue \in Seq(Tasks)
         /\ sources \subseteq srcId /\ srcId \subseteq Submitted /\ Submitted \subseteq Tasks
         /\ Distinct(workQueue)
         /\ \A u : InQueue(u) <=> In(workQueue, u)
         /\ \A u : InQueue(u)' <=> In(workQueue', u)
         /\ \A u : InQueue(u) => u \in Submitted
<1>1. TypeOK /\ TasksAreSubmitted /\ Stages /\ ModesInv /\ PlacesExclude
  BY DEF OwnersInv, PoolInv
<1>2. /\ freed \in [Tasks -> Nat] /\ runs \in [Tasks -> Nat] /\ workQueue \in Seq(Tasks)
      /\ sources \subseteq srcId /\ submitted \in 0..MaxTasks
  BY <1>1 DEF TypeOK
<1>3. srcId \subseteq Submitted /\ Submitted \subseteq Tasks
  BY <1>1, <1>2 DEF TasksAreSubmitted, Submitted, Tasks
<1>4. Distinct(workQueue)
  BY <1>1 DEF PlacesExclude, Distinct
<1>5. /\ \A u : InQueue(u) <=> In(workQueue, u)
      /\ \A u : InQueue(u)' <=> In(workQueue', u)
      /\ \A u : InQueue(u) => u \in Submitted
  BY <1>1 DEF InQueue, In, TasksAreSubmitted
<1> QED
  BY <1>1, <1>2, <1>3, <1>4, <1>5

\* The places of the tasks.
places == <<pool, workQueue, sources, submitted, srcId, wpc, wtask, mtask, canceller, cancelled, runs, freed>>

LEMMA PlacesStay ==
  ASSUME OwnersInv, UNCHANGED places, SingleThreaded => tokens' = 0,
         \/ mpc' = mpc \/ mpc' = "crashed"
         \/ mpc # "idle" /\ mpc # "down" /\ mpc' # "idle" /\ Alive
  PROVE  ModesInv' /\ PlacesExclude'
<1>0. ModesInv /\ PlacesExclude
  BY OwnerFacts
<1>1. UNCHANGED <<pool, workQueue, sources, submitted, srcId, wpc, wtask, mtask, canceller, cancelled, runs, freed>>
  BY DEF places
<1>2. /\ \A u : (InQueue(u)' <=> InQueue(u)) /\ (Held(u)' <=> Held(u)) /\ (Cancelled(u)' <=> Cancelled(u))
      /\ Submitted' = Submitted /\ (SingleThreaded' <=> SingleThreaded) /\ (PoolIsIdle' <=> PoolIsIdle)
      /\ Alive' => Alive /\ (\A u : Dispatched(u)' <=> Dispatched(u)) /\ (mpc' # "down" => mpc # "down")
  BY <1>1 DEF InQueue, Held, Dispatched, Cancelled, Submitted, SingleThreaded, PoolIsIdle, Alive
<1>3. ModesInv'
  BY <1>0, <1>1, <1>2 DEF ModesInv
<1>4. PlacesExclude'
  <2>1. \A i, j \in DOMAIN workQueue' : workQueue'[i] = workQueue'[j] => i = j
    BY <1>0, <1>1 DEF PlacesExclude
  <2>2. \A v, w \in Workers : wpc'[v] = "run" /\ wpc'[w] = "run" /\ wtask'[v] = wtask'[w] => v = w
    BY <1>0, <1>1 DEF PlacesExclude
  <2>3. \A t \in Tasks \ Submitted' : runs'[t] = 0 /\ freed'[t] = 0
    BY <1>0, <1>1, <1>2 DEF PlacesExclude
  <2>4. ASSUME Alive', NEW t \in Submitted'
        PROVE  /\ InQueue(t)' => runs'[t] = 0 /\ ~Held(t)' /\ ~Dispatched(t)' /\ ~Cancelled(t)'
               /\ Held(t)' => ~Dispatched(t)' /\ ~Cancelled(t)'
               /\ Dispatched(t)' => ~Cancelled(t)'
               /\ InQueue(t)' \/ Held(t)' \/ Dispatched(t)' \/ Cancelled(t)' => freed'[t] = 0
               /\ freed'[t] <= 1
    BY <1>0, <1>1, <1>2, <2>4 DEF PlacesExclude
  <2> QED
    BY <2>1, <2>2, <2>3, <2>4 DEF PlacesExclude
<1> QED
  BY <1>3, <1>4

LEMMA OwnersOfSubmit ==
  ASSUME OwnersInv, Sheltered, Submit
  PROVE  ModesInv' /\ PlacesExclude'
<1>0. /\ TypeOK /\ TasksAreSubmitted /\ Stages /\ ModesInv /\ PlacesExclude
      /\ workQueue \in Seq(Tasks) /\ Submitted \subseteq Tasks /\ Distinct(workQueue)
      /\ sources \subseteq srcId /\ srcId \subseteq Submitted
      /\ \A u : InQueue(u) <=> In(workQueue, u)
      /\ \A u : InQueue(u)' <=> In(workQueue', u)
      /\ \A u : InQueue(u) => u \in Submitted
  BY OwnerFacts
<1> DEFINE t == submitted + 1
<1>1. /\ submitted < MaxTasks /\ submitted' = t /\ workQueue' = Append(workQueue, t)
      /\ UNCHANGED <<pool, wpc, wtask, mpc, mtask, canceller, cancelled, runs, freed>>
      /\ \/ ~SingleThreaded /\ tokens' = tokens + 1 /\ UNCHANGED <<srcId, sources>>
         \/ SingleThreaded /\ tokens' = tokens /\ srcId' = srcId \cup {t} /\ sources' = sources \cup {t}
  <2>1. ~(pushErrors < MaxPushErrors)
    BY <1>0 DEF TypeOK, Sheltered
  <2> QED
    BY <2>1 DEF Submit, Push, workerVars, cancelVars, tallies
<1>2. t \in Tasks /\ t \notin Submitted /\ Submitted' = Submitted \cup {t}
  <2>1. submitted \in Nat /\ submitted < MaxTasks /\ submitted' = submitted + 1
    BY <1>0, <1>1 DEF TypeOK
  <2> QED
    BY <2>1 DEF Tasks, Submitted
<1> HIDE DEF t
<1>3. /\ \A u : In(workQueue', u) <=> In(workQueue, u) \/ u = t
      /\ Distinct(workQueue')
  BY <1>0, <1>1, <1>2, AppendIn
<1>4. /\ \A u : InQueue(u)' <=> InQueue(u) \/ u = t
      /\ \A u : (Held(u)' <=> Held(u)) /\ (Dispatched(u)' <=> Dispatched(u)) /\ (Cancelled(u)' <=> Cancelled(u))
      /\ (SingleThreaded' <=> SingleThreaded) /\ (PoolIsIdle' <=> PoolIsIdle) /\ (Alive' <=> Alive)
  BY <1>0, <1>1, <1>3 DEF Held, Dispatched, Cancelled, SingleThreaded, PoolIsIdle, Alive
<1>5. Alive => ~Held(t) /\ ~Dispatched(t) /\ ~Cancelled(t) /\ ~InQueue(t) /\ freed[t] = 0 /\ runs[t] = 0
  BY <1>0, <1>2 DEF TasksAreSubmitted, Held, Dispatched, Cancelled, PlacesExclude
<1>6. ModesInv'
  <2>1. IF SingleThreaded' THEN tokens' = 0 /\ PoolIsIdle' ELSE srcId' = {}
    BY <1>0, <1>1, <1>4 DEF ModesInv
  <2>2. ASSUME Alive, SingleThreaded, NEW u \in Submitted'
        PROVE  /\ InQueue(u)' \/ Dispatched(u)' \/ Cancelled(u)' => u \in sources'
               /\ mpc' # "down" /\ u \in sources' => InQueue(u)' \/ Dispatched(u)' \/ Cancelled(u)'
    <3>1. CASE u = t
      BY <1>1, <1>4, <2>2, <3>1
    <3>2. CASE u \in Submitted
      BY <1>0, <1>1, <1>2, <1>4, <2>2, <3>2 DEF ModesInv
    <3> QED
      BY <1>2, <3>1, <3>2
  <2> QED
    BY <1>4, <2>1, <2>2 DEF ModesInv
<1>7. PlacesExclude'
  <2>1. \A u \in Tasks \ Submitted' : runs'[u] = 0 /\ freed'[u] = 0
    BY <1>0, <1>1, <1>2 DEF PlacesExclude
  <2>2. \A i, j \in DOMAIN workQueue' : workQueue'[i] = workQueue'[j] => i = j
    BY <1>3 DEF Distinct
  <2>3. \A v, w \in Workers : wpc'[v] = "run" /\ wpc'[w] = "run" /\ wtask'[v] = wtask'[w] => v = w
    BY <1>0, <1>1 DEF PlacesExclude
  <2>4. ASSUME Alive, NEW u \in Submitted'
        PROVE  /\ InQueue(u)' => runs'[u] = 0 /\ ~Held(u)' /\ ~Dispatched(u)' /\ ~Cancelled(u)'
               /\ Held(u)' => ~Dispatched(u)' /\ ~Cancelled(u)'
               /\ Dispatched(u)' => ~Cancelled(u)'
               /\ InQueue(u)' \/ Held(u)' \/ Dispatched(u)' \/ Cancelled(u)' => freed'[u] = 0
               /\ freed'[u] <= 1
    <3>1. CASE u = t
      BY <1>1, <1>4, <1>5, <2>4, <3>1
    <3>2. CASE u \in Submitted
      BY <1>0, <1>1, <1>2, <1>4, <2>4, <3>2 DEF PlacesExclude
    <3> QED
      BY <1>2, <3>1, <3>2
  <2> QED
    BY <1>4, <2>1, <2>2, <2>3, <2>4 DEF PlacesExclude
<1> QED
  BY <1>6, <1>7

LEMMA OwnersOfWorkers ==
  ASSUME OwnersInv, NEW w \in Workers, TakeToken(w) \/ PopWork(w) \/ FinishWork(w)
  PROVE  ModesInv' /\ PlacesExclude'
<1>0. /\ TypeOK /\ TasksAreSubmitted /\ Stages /\ ModesInv /\ PlacesExclude
      /\ workQueue \in Seq(Tasks) /\ Submitted \subseteq Tasks /\ Distinct(workQueue)
      /\ sources \subseteq srcId /\ srcId \subseteq Submitted
      /\ freed \in [Tasks -> Nat] /\ runs \in [Tasks -> Nat]
      /\ \A u : InQueue(u) <=> In(workQueue, u)
      /\ \A u : InQueue(u)' <=> In(workQueue', u)
      /\ \A u : InQueue(u) => u \in Submitted
  BY OwnerFacts
<1>1. /\ Alive /\ UNCHANGED <<sources, pool, submitted, srcId, mpc, mtask, canceller, cancelled>>
      /\ tokens > 0 \/ wpc[w] # "idle"
  BY DEF TakeToken, PopWork, FinishWork, queueVars, taskVars, cancelVars
<1>2. ~SingleThreaded /\ srcId = {}
  <2>1. SingleThreaded => tokens = 0 /\ wpc[w] = "idle"
    BY <1>0 DEF ModesInv, PoolIsIdle
  <2>2. ~SingleThreaded
    BY <1>1, <2>1
  <2> QED
    BY <1>0, <2>2 DEF ModesInv
<1>3. ModesInv'
  BY <1>1, <1>2 DEF ModesInv, SingleThreaded
<1>4. Submitted' = Submitted /\ Alive' /\ \A u : ~Dispatched(u) /\ ~Dispatched(u)' /\ (Cancelled(u)' <=> Cancelled(u))
  BY <1>0, <1>1, <1>2 DEF Submitted, Alive, Dispatched, Cancelled, TasksAreSubmitted
<1>5. wpc \in [Workers -> {"idle", "pop", "run"}] /\ wtask \in [Workers -> 0..MaxTasks]
  BY <1>0 DEF TypeOK
<1>6. CASE TakeToken(w)
  <2>1. /\ wpc[w] = "idle" /\ wpc' = [wpc EXCEPT ![w] = "pop"]
        /\ UNCHANGED <<workQueue, wtask, runs, freed>>
    BY <1>6 DEF TakeToken, tallies
  <2>2. /\ \A v \in Workers : wpc'[v] = "run" <=> wpc[v] = "run"
        /\ \A u : (Held(u)' <=> Held(u)) /\ (InQueue(u)' <=> InQueue(u))
    BY <1>5, <2>1 DEF Held, InQueue
  <2>3. \A v, x \in Workers : wpc'[v] = "run" /\ wpc'[x] = "run" /\ wtask'[v] = wtask'[x] => v = x
    BY <1>0, <2>1, <2>2 DEF PlacesExclude
  <2>4. \A u \in Tasks \ Submitted' : runs'[u] = 0 /\ freed'[u] = 0
    BY <1>0, <1>4, <2>1 DEF PlacesExclude
  <2>5. ASSUME NEW u \in Submitted
        PROVE  /\ InQueue(u)' => runs'[u] = 0 /\ ~Held(u)' /\ ~Dispatched(u)' /\ ~Cancelled(u)'
               /\ Held(u)' => ~Dispatched(u)' /\ ~Cancelled(u)'
               /\ InQueue(u)' \/ Held(u)' \/ Dispatched(u)' \/ Cancelled(u)' => freed'[u] = 0
               /\ freed'[u] <= 1
    BY <1>0, <1>1, <1>4, <2>1, <2>2 DEF PlacesExclude
  <2>6. PlacesExclude'
    BY <1>0, <1>4, <2>1, <2>3, <2>4, <2>5 DEF PlacesExclude
  <2> QED
    BY <1>3, <2>6
<1>7. CASE PopWork(w)
  <2> DEFINE h == Head(workQueue)
  <2>1. /\ wpc[w] = "pop" /\ workQueue # <<>> /\ workQueue' = Tail(workQueue)
        /\ wtask' = [wtask EXCEPT ![w] = h] /\ wpc' = [wpc EXCEPT ![w] = "run"]
        /\ runs' = [runs EXCEPT ![h] = @ + 1] /\ freed' = freed
    BY <1>7 DEF PopWork
  <2>2. /\ \A u : In(workQueue, u) <=> u = h \/ In(workQueue', u)
        /\ Distinct(workQueue') /\ ~In(workQueue', h)
    BY <1>0, <2>1, TailIn
  <2>3. h \in Submitted /\ InQueue(h) /\ ~Held(h) /\ ~Cancelled(h) /\ freed[h] = 0
    <3>1. h \in Submitted /\ InQueue(h)
      BY <1>0, <2>2
    <3> QED
      BY <1>0, <1>1, <3>1 DEF PlacesExclude
  <2> HIDE DEF h
  <2>4. /\ wpc'[w] = "run" /\ wtask'[w] = h
        /\ \A v \in Workers : v # w => wpc'[v] = wpc[v] /\ wtask'[v] = wtask[v]
    BY <1>5, <2>1
  <2>5. /\ \A u : InQueue(u)' <=> InQueue(u) /\ u # h
        /\ \A u : Held(u)' <=> Held(u) \/ u = h
    <3>1. \A u : Held(u)' <=> Held(u) \/ u = h
      BY <2>1, <2>4 DEF Held
    <3> QED
      BY <1>0, <2>2, <3>1
  <2>6. \A v, x \in Workers : wpc'[v] = "run" /\ wpc'[x] = "run" /\ wtask'[v] = wtask'[x] => v = x
    <3>1. \A v \in Workers : v # w /\ wpc'[v] = "run" => wtask'[v] # h
      BY <2>3, <2>4 DEF Held
    <3> QED
      BY <1>0, <2>4, <3>1 DEF PlacesExclude
  <2>7. \A u \in Tasks : u # h => runs'[u] = runs[u]
    BY <1>0, <2>1
  <2>8. \A u \in Tasks \ Submitted' : runs'[u] = 0 /\ freed'[u] = 0
    BY <1>0, <1>4, <2>1, <2>3, <2>7 DEF PlacesExclude
  <2>9. ASSUME NEW u \in Submitted
        PROVE  /\ InQueue(u)' => runs'[u] = 0 /\ ~Held(u)' /\ ~Dispatched(u)' /\ ~Cancelled(u)'
               /\ Held(u)' => ~Dispatched(u)' /\ ~Cancelled(u)'
               /\ InQueue(u)' \/ Held(u)' \/ Dispatched(u)' \/ Cancelled(u)' => freed'[u] = 0
               /\ freed'[u] <= 1
    BY <1>0, <1>1, <1>4, <2>1, <2>3, <2>5, <2>7 DEF PlacesExclude
  <2>10. \A i, j \in DOMAIN workQueue' : workQueue'[i] = workQueue'[j] => i = j
    BY <2>2 DEF Distinct
  <2>11. PlacesExclude'
    BY <1>4, <2>6, <2>8, <2>9, <2>10 DEF PlacesExclude
  <2> QED
    BY <1>3, <2>11
<1>8. CASE FinishWork(w)
  <2> DEFINE h == wtask[w]
  <2>1. /\ wpc[w] = "run" /\ wpc' = [wpc EXCEPT ![w] = "idle"] /\ wtask' = [wtask EXCEPT ![w] = 0]
        /\ freed' = [freed EXCEPT ![h] = freed[h] + 1] /\ UNCHANGED <<workQueue, runs>>
    BY <1>8 DEF FinishWork, queueVars
  <2>2. h \in Submitted /\ Held(h)
    BY <1>0, <2>1 DEF TasksAreSubmitted, Held
  <2>3. freed[h] = 0 /\ ~InQueue(h) /\ ~Cancelled(h)
    BY <1>0, <1>1, <2>2 DEF PlacesExclude
  <2>4. wpc'[w] = "idle" /\ \A v \in Workers : v # w => wpc'[v] = wpc[v] /\ wtask'[v] = wtask[v]
    BY <1>5, <2>1
  <2>5. \A v \in Workers : v # w /\ wpc[v] = "run" => wtask[v] # h
    BY <1>0, <2>1 DEF PlacesExclude
  <2> HIDE DEF h
  <2>6. /\ \A u : InQueue(u)' <=> InQueue(u)
        /\ \A u : Held(u)' => Held(u) /\ u # h
    BY <1>0, <2>1, <2>4, <2>5 DEF Held
  <2>7. freed'[h] = 1 /\ \A u \in Tasks : u # h => freed'[u] = freed[u]
    BY <1>0, <2>1, <2>2, <2>3
  <2>8. \A v, x \in Workers : wpc'[v] = "run" /\ wpc'[x] = "run" /\ wtask'[v] = wtask'[x] => v = x
    BY <1>0, <2>4, SMTT(30) DEF PlacesExclude
  <2>9. \A u \in Tasks \ Submitted' : runs'[u] = 0 /\ freed'[u] = 0
    BY <1>0, <1>4, <2>1, <2>2, <2>7 DEF PlacesExclude
  <2>10. ASSUME NEW u \in Submitted
         PROVE  /\ InQueue(u)' => runs'[u] = 0 /\ ~Held(u)' /\ ~Dispatched(u)' /\ ~Cancelled(u)'
                /\ Held(u)' => ~Dispatched(u)' /\ ~Cancelled(u)'
                /\ InQueue(u)' \/ Held(u)' \/ Dispatched(u)' \/ Cancelled(u)' => freed'[u] = 0
                /\ freed'[u] <= 1
    BY <1>0, <1>1, <1>4, <2>1, <2>3, <2>6, <2>7 DEF PlacesExclude
  <2>11. PlacesExclude'
    BY <1>0, <1>4, <2>1, <2>8, <2>9, <2>10 DEF PlacesExclude
  <2> QED
    BY <1>3, <2>11
<1> QED
  BY <1>6, <1>7, <1>8

\* An idle source can only be dispatched while the main thread is not inside cancel, and no
\* other thread is in single threaded mode.
LEMMA OwnersOfRunIdle ==
  ASSUME OwnersInv, Sheltered, NEW t \in Tasks, RunIdle(t)
  PROVE  ModesInv' /\ PlacesExclude' /\ InQueue(t) /\ canceller = Nobody
<1>0. /\ TypeOK /\ TasksAreSubmitted /\ Stages /\ ModesInv /\ PlacesExclude
      /\ workQueue \in Seq(Tasks) /\ Submitted \subseteq Tasks /\ Distinct(workQueue)
      /\ sources \subseteq srcId /\ srcId \subseteq Submitted /\ runs \in [Tasks -> Nat]
      /\ \A u : InQueue(u) <=> In(workQueue, u)
      /\ \A u : InQueue(u)' <=> In(workQueue', u)
  BY OwnerFacts
<1>1. /\ t \in sources /\ mpc = "loop" /\ mpc' = "idle" /\ mtask' = t /\ canceller # Main
      /\ workQueue' = IF SingleThreaded THEN WithoutTask(t) ELSE workQueue
      /\ runs' = [runs EXCEPT ![t] = runs[t] + 1]
      /\ UNCHANGED <<tokens, sources, freed, pool, submitted, srcId, wpc, wtask, canceller, cancelled>>
  BY DEF RunIdle, InLoop, taskVars, workerVars, cancelVars
<1>2. SingleThreaded /\ PoolIsIdle /\ t \in Submitted /\ Alive /\ Alive'
  BY <1>0, <1>1 DEF ModesInv, Alive
<1>3. canceller = Nobody
  <2>1. canceller \in Cancellers \cup {Nobody}
    BY <1>0 DEF TypeOK
  <2>2. \A w \in Workers : wpc[w] # "run"
    BY <1>2 DEF PoolIsIdle
  <2> QED
    BY <1>0, <1>1, <1>2, <2>1, <2>2 DEF Stages, Sheltered
<1>4. InQueue(t)
  <2>1. ~Dispatched(t) /\ ~Cancelled(t)
    BY <1>1, <1>3 DEF Dispatched, Cancelled
  <2> QED
    BY <1>0, <1>1, <1>2, <2>1 DEF ModesInv
<1>5. /\ \A u : InQueue(u)' <=> InQueue(u) /\ u # t
      /\ Distinct(workQueue')
  BY <1>0, <1>1, <1>2, WithoutIn
<1>6. /\ \A u : ~Held(u) /\ ~Held(u)' /\ ~Cancelled(u) /\ ~Cancelled(u)' /\ ~Dispatched(u)
      /\ \A u : Dispatched(u)' <=> u = t
      /\ SingleThreaded' /\ PoolIsIdle' /\ Submitted' = Submitted
  BY <1>1, <1>2, <1>3 DEF Held, Cancelled, Dispatched, PoolIsIdle, SingleThreaded, Submitted
<1>7. ModesInv'
  BY <1>0, <1>1, <1>2, <1>5, <1>6 DEF ModesInv
<1>8. PlacesExclude'
  <2>1. \A u \in Tasks : u # t => runs'[u] = runs[u]
    BY <1>0, <1>1
  <2>2. \A u \in Tasks \ Submitted' : runs'[u] = 0 /\ freed'[u] = 0
    BY <1>0, <1>1, <1>2, <1>6, <2>1 DEF PlacesExclude
  <2>3. \A v, w \in Workers : wpc'[v] = "run" /\ wpc'[w] = "run" /\ wtask'[v] = wtask'[w] => v = w
    BY <1>0, <1>1 DEF PlacesExclude
  <2>4. \A i, j \in DOMAIN workQueue' : workQueue'[i] = workQueue'[j] => i = j
    BY <1>5 DEF Distinct
  <2>5. freed[t] = 0
    BY <1>0, <1>2, <1>4 DEF PlacesExclude
  <2>6. ASSUME NEW u \in Submitted
        PROVE  /\ InQueue(u)' => runs'[u] = 0 /\ ~Dispatched(u)'
               /\ InQueue(u)' \/ Dispatched(u)' => freed'[u] = 0
               /\ freed'[u] <= 1
    BY <1>0, <1>1, <1>2, <1>5, <1>6, <2>1, <2>5 DEF PlacesExclude
  <2> QED
    BY <1>6, <2>2, <2>3, <2>4, <2>6 DEF PlacesExclude
<1> QED
  BY <1>3, <1>4, <1>7, <1>8

LEMMA OwnersOfFinishIdle ==
  ASSUME OwnersInv, FinishIdle
  PROVE  ModesInv' /\ PlacesExclude'
<1>0. /\ TypeOK /\ TasksAreSubmitted /\ Stages /\ ModesInv /\ PlacesExclude
      /\ Submitted \subseteq Tasks /\ sources \subseteq srcId /\ srcId \subseteq Submitted
      /\ freed \in [Tasks -> Nat]
  BY OwnerFacts
<1>1. /\ mpc = "idle" /\ mpc' = "loop" /\ mtask' = 0 /\ sources' = sources \ {mtask}
      /\ freed' = [freed EXCEPT ![mtask] = freed[mtask] + 1]
      /\ UNCHANGED <<workQueue, tokens, runs, pool, submitted, srcId, wpc, wtask, canceller, cancelled>>
  BY DEF FinishIdle, taskVars, workerVars, cancelVars
<1>2. mtask \in srcId /\ mtask \in Submitted /\ Dispatched(mtask) /\ Alive
  BY <1>0, <1>1 DEF TasksAreSubmitted, Dispatched, Alive
<1>3. ~InQueue(mtask) /\ ~Held(mtask) /\ ~Cancelled(mtask) /\ freed[mtask] = 0
  BY <1>0, <1>2 DEF PlacesExclude
<1>4. /\ \A u : (InQueue(u)' <=> InQueue(u)) /\ (Held(u)' <=> Held(u)) /\ (Cancelled(u)' <=> Cancelled(u))
      /\ \A u : ~Dispatched(u)' /\ (Dispatched(u) <=> u = mtask)
      /\ (SingleThreaded' <=> SingleThreaded) /\ (PoolIsIdle' <=> PoolIsIdle) /\ Submitted' = Submitted /\ Alive'
  BY <1>1 DEF InQueue, Held, Cancelled, Dispatched, PoolIsIdle, SingleThreaded, Submitted, Alive
<1>5. ModesInv'
  BY <1>0, <1>1, <1>2, <1>3, <1>4 DEF ModesInv
<1>6. freed'[mtask] = 1 /\ \A u \in Tasks : u # mtask => freed'[u] = freed[u]
  BY <1>0, <1>1, <1>2, <1>3
<1>7. PlacesExclude'
  <2>1. \A u \in Tasks \ Submitted' : runs'[u] = 0 /\ freed'[u] = 0
    BY <1>0, <1>1, <1>2, <1>4, <1>6 DEF PlacesExclude
  <2>2. \A v, w \in Workers : wpc'[v] = "run" /\ wpc'[w] = "run" /\ wtask'[v] = wtask'[w] => v = w
    BY <1>0, <1>1 DEF PlacesExclude
  <2>3. \A i, j \in DOMAIN workQueue' : workQueue'[i] = workQueue'[j] => i = j
    BY <1>0, <1>1 DEF PlacesExclude
  <2>4. ASSUME NEW u \in Submitted
        PROVE  /\ InQueue(u)' => runs'[u] = 0 /\ ~Held(u)' /\ ~Cancelled(u)'
               /\ Held(u)' => ~Cancelled(u)'
               /\ InQueue(u)' \/ Held(u)' \/ Cancelled(u)' => freed'[u] = 0
               /\ freed'[u] <= 1
    BY <1>0, <1>1, <1>2, <1>3, <1>4, <1>6 DEF PlacesExclude
  <2> QED
    BY <1>4, <2>1, <2>2, <2>3, <2>4 DEF PlacesExclude
<1> QED
  BY <1>5, <1>7

LEMMA OwnersOfCancelFind ==
  ASSUME OwnersInv, NEW thread \in Cancellers, CancelFind(thread)
  PROVE  ModesInv' /\ PlacesExclude'
<1>0. /\ TypeOK /\ TasksAreSubmitted /\ Stages /\ ModesInv /\ PlacesExclude
      /\ workQueue \in Seq(Tasks) /\ Submitted \subseteq Tasks /\ Distinct(workQueue)
      /\ sources \subseteq srcId /\ srcId \subseteq Submitted
      /\ \A u : InQueue(u) <=> In(workQueue, u)
      /\ \A u : InQueue(u)' <=> In(workQueue', u)
  BY OwnerFacts
<1>1. /\ UNCHANGED <<tokens, sources, pool, submitted, srcId, wpc, wtask, mpc, mtask, runs, freed>>
      /\ canceller = Nobody /\ canceller' = thread /\ thread # Nobody /\ Alive
  BY DEF CancelFind, Calling, taskVars, workerVars, tallies
<1>2. PICK t \in Submitted : InQueue(t) /\ cancelled' = t /\ workQueue' = WithoutTask(t)
  BY <1>0 DEF CancelFind, InQueue, TasksAreSubmitted
<1>3. /\ \A u : InQueue(u)' <=> InQueue(u) /\ u # t
      /\ Distinct(workQueue')
  BY <1>0, <1>2, WithoutIn
<1>4. /\ \A u : (Held(u)' <=> Held(u)) /\ (Dispatched(u)' <=> Dispatched(u))
      /\ \A u : ~Cancelled(u) /\ (Cancelled(u)' <=> u = t)
      /\ (SingleThreaded' <=> SingleThreaded) /\ (PoolIsIdle' <=> PoolIsIdle) /\ Submitted' = Submitted /\ Alive'
  BY <1>1, <1>2 DEF Held, Cancelled, Dispatched, PoolIsIdle, SingleThreaded, Submitted, Alive
<1>5. ~Held(t) /\ ~Dispatched(t) /\ freed[t] = 0
  BY <1>0, <1>1, <1>2 DEF PlacesExclude
<1>6. ModesInv'
  BY <1>0, <1>1, <1>2, <1>3, <1>4 DEF ModesInv
<1>7. PlacesExclude'
  <2>1. \A u \in Tasks \ Submitted' : runs'[u] = 0 /\ freed'[u] = 0
    BY <1>0, <1>1, <1>4 DEF PlacesExclude
  <2>2. \A v, w \in Workers : wpc'[v] = "run" /\ wpc'[w] = "run" /\ wtask'[v] = wtask'[w] => v = w
    BY <1>0, <1>1 DEF PlacesExclude
  <2>3. \A i, j \in DOMAIN workQueue' : workQueue'[i] = workQueue'[j] => i = j
    BY <1>3 DEF Distinct
  <2>4. ASSUME NEW u \in Submitted
        PROVE  /\ InQueue(u)' => runs'[u] = 0 /\ ~Held(u)' /\ ~Dispatched(u)' /\ ~Cancelled(u)'
               /\ Held(u)' => ~Dispatched(u)' /\ ~Cancelled(u)'
               /\ Dispatched(u)' => ~Cancelled(u)'
               /\ InQueue(u)' \/ Held(u)' \/ Dispatched(u)' \/ Cancelled(u)' => freed'[u] = 0
               /\ freed'[u] <= 1
    BY <1>0, <1>1, <1>3, <1>4, <1>5 DEF PlacesExclude
  <2> QED
    BY <1>4, <2>1, <2>2, <2>3, <2>4 DEF PlacesExclude
<1> QED
  BY <1>6, <1>7

LEMMA OwnersOfCancelFinish ==
  ASSUME OwnersInv, CancelFinish
  PROVE  ModesInv' /\ PlacesExclude'
<1>0. /\ TypeOK /\ TasksAreSubmitted /\ Stages /\ ModesInv /\ PlacesExclude
      /\ Submitted \subseteq Tasks /\ sources \subseteq srcId /\ srcId \subseteq Submitted
      /\ freed \in [Tasks -> Nat]
  BY OwnerFacts
<1>1. /\ UNCHANGED <<workQueue, tokens, pool, submitted, srcId, wpc, wtask, mpc, mtask, runs>>
      /\ Alive /\ canceller # Nobody /\ canceller' = Nobody /\ cancelled' = 0
      /\ sources' = sources \ {cancelled}
      /\ freed' = IF cancelled \in srcId /\ (cancelled \notin sources \/ mtask = cancelled)
                  THEN freed ELSE [freed EXCEPT ![cancelled] = freed[cancelled] + 1]
  BY DEF CancelFinish, taskVars, workerVars
<1>2. cancelled \in Submitted /\ Cancelled(cancelled) /\ cancelled # 0
  BY <1>0, <1>1 DEF TasksAreSubmitted, Cancelled, Submitted
<1>3. ~InQueue(cancelled) /\ ~Held(cancelled) /\ ~Dispatched(cancelled) /\ freed[cancelled] = 0
  BY <1>0, <1>1, <1>2 DEF PlacesExclude
<1>4. mtask # cancelled
  BY <1>0, <1>1, <1>2, <1>3 DEF Dispatched, TasksAreSubmitted
<1>5. cancelled \in srcId => cancelled \in sources
  BY <1>0, <1>1, <1>2 DEF ModesInv
<1>6. freed' = [freed EXCEPT ![cancelled] = freed[cancelled] + 1]
  BY <1>1, <1>4, <1>5
<1>7. freed'[cancelled] = 1 /\ \A u \in Tasks : u # cancelled => freed'[u] = freed[u]
  BY <1>0, <1>2, <1>3, <1>6
<1>8. /\ \A u : (InQueue(u)' <=> InQueue(u)) /\ (Held(u)' <=> Held(u)) /\ (Dispatched(u)' <=> Dispatched(u))
      /\ \A u : ~Cancelled(u)' /\ (Cancelled(u) <=> u = cancelled)
      /\ (SingleThreaded' <=> SingleThreaded) /\ (PoolIsIdle' <=> PoolIsIdle) /\ Submitted' = Submitted /\ Alive'
  BY <1>1 DEF InQueue, Held, Cancelled, Dispatched, PoolIsIdle, SingleThreaded, Submitted, Alive
<1>9. ModesInv'
  BY <1>0, <1>1, <1>2, <1>3, <1>8 DEF ModesInv
<1>10. PlacesExclude'
  <2>1. \A u \in Tasks \ Submitted' : runs'[u] = 0 /\ freed'[u] = 0
    BY <1>0, <1>1, <1>2, <1>7, <1>8 DEF PlacesExclude
  <2>2. \A v, w \in Workers : wpc'[v] = "run" /\ wpc'[w] = "run" /\ wtask'[v] = wtask'[w] => v = w
    BY <1>0, <1>1 DEF PlacesExclude
  <2>3. \A i, j \in DOMAIN workQueue' : workQueue'[i] = workQueue'[j] => i = j
    BY <1>0, <1>1 DEF PlacesExclude
  <2>4. ASSUME NEW u \in Submitted
        PROVE  /\ InQueue(u)' => runs'[u] = 0 /\ ~Held(u)' /\ ~Dispatched(u)'
               /\ Held(u)' => ~Dispatched(u)'
               /\ InQueue(u)' \/ Held(u)' \/ Dispatched(u)' => freed'[u] = 0
               /\ freed'[u] <= 1
    BY <1>0, <1>1, <1>3, <1>7, <1>8 DEF PlacesExclude
  <2> QED
    BY <1>8, <2>1, <2>2, <2>3, <2>4 DEF PlacesExclude
<1> QED
  BY <1>9, <1>10

LEMMA OwnersOfDrain ==
  ASSUME OwnersInv, PoolInv', Drain
  PROVE  ModesInv' /\ PlacesExclude'
<1>0. /\ TypeOK /\ TasksAreSubmitted /\ Stages /\ ModesInv /\ PlacesExclude
      /\ Submitted \subseteq Tasks /\ freed \in [Tasks -> Nat] /\ Stages'
      /\ \A u : InQueue(u) => u \in Submitted
  BY OwnerFacts DEF PoolInv
<1>1. /\ UNCHANGED <<tokens, sources, pool, submitted, srcId, wpc, wtask, canceller, cancelled, runs>>
      /\ mpc = "join" /\ mpc' = "down" /\ workQueue' = <<>> /\ freed' = [t \in Tasks |-> FreesQueued(t)]
  BY DEF Drain, taskVars, workerVars, cancelVars
<1>2. Alive /\ Submitted' = Submitted /\ (SingleThreaded' <=> SingleThreaded) /\ PoolIsIdle /\ PoolIsIdle'
  BY <1>0, <1>1 DEF Alive, Submitted, SingleThreaded, Stages
<1>3. canceller = Nobody
  <2>1. ThreadsInv'
    BY DEF PoolInv
  <2>2. \A s \in Standalone : tpc'[s] \in {"none", "ended"}
    BY <1>1, <2>1 DEF ThreadsInv
  <2>3. tpc' = tpc
    BY DEF Drain
  <2> QED
    BY <1>0, <1>1, <1>2, <2>2, <2>3 DEF Stages, PoolIsIdle
<1>4. /\ \A u : ~InQueue(u)' /\ ~Held(u)' /\ ~Dispatched(u)' /\ ~Cancelled(u)'
      /\ DOMAIN workQueue' = {}
  <2>1. DOMAIN workQueue' = {}
    BY <1>1
  <2> QED
    BY <1>1, <1>2, <1>3, <2>1 DEF InQueue, Held, Dispatched, Cancelled, PoolIsIdle
<1>5. ModesInv'
  BY <1>0, <1>1, <1>2, <1>4 DEF ModesInv
<1>6. \A u \in Tasks : freed'[u] = IF InQueue(u) THEN freed[u] + 1 ELSE freed[u]
  BY <1>1 DEF FreesQueued
<1>7. \A u \in Submitted : freed'[u] <= 1
  <2>1. \A u \in Submitted : freed[u] <= 1 /\ (InQueue(u) => freed[u] = 0)
    BY <1>0, <1>2 DEF PlacesExclude
  <2> QED
    BY <1>0, <1>6, <2>1
<1>8. \A u \in Tasks \ Submitted' : runs'[u] = 0 /\ freed'[u] = 0
  BY <1>0, <1>1, <1>2, <1>6 DEF PlacesExclude
<1>9. \A v, w \in Workers : wpc'[v] = "run" /\ wpc'[w] = "run" /\ wtask'[v] = wtask'[w] => v = w
  BY <1>2 DEF PoolIsIdle
<1>10. PlacesExclude'
  BY <1>2, <1>4, <1>7, <1>8, <1>9 DEF PlacesExclude
<1> QED
  BY <1>5, <1>10

LEMMA OwnersInvInit == Init => OwnersInv
<1> SUFFICES ASSUME Init
             PROVE  OwnersInv
  OBVIOUS
<1>1. PoolInv
  BY PoolInvInit
<1>2. Submitted = {}
  BY DEF Init, Submitted
<1>3. ModesInv
  BY <1>2 DEF Init, ModesInv, PoolIsIdle
<1>4. PlacesExclude
  BY <1>2 DEF Init, PlacesExclude
<1> QED
  BY <1>1, <1>3, <1>4 DEF OwnersInv

LEMMA OwnersInvStep ==
  ASSUME Sheltered
  PROVE  OwnersInv /\ [Next]_vars => OwnersInv'
<1> SUFFICES ASSUME OwnersInv, [Next]_vars
             PROVE  OwnersInv'
  OBVIOUS
<1>1. PoolInv /\ PoolInv'
  BY PoolInvStep DEF OwnersInv
<1> SUFFICES ModesInv' /\ PlacesExclude'
  BY <1>1 DEF OwnersInv
<1>0. SingleThreaded => tokens = 0
  BY DEF OwnersInv, ModesInv
<1>2. CASE UNCHANGED vars
  <2>1. UNCHANGED places /\ UNCHANGED <<tokens, mpc>>
    BY <1>2 DEF vars, queueVars, taskVars, workerVars, cancelVars, tallies, places
  <2> QED
    BY <1>0, <2>1, PlacesStay
<1>3. CASE Submit
  BY <1>3, OwnersOfSubmit
<1>4. ASSUME NEW w \in Workers, Work(w)
      PROVE  ModesInv' /\ PlacesExclude'
  <2>1. CASE TakeToken(w) \/ PopWork(w) \/ FinishWork(w)
    BY <2>1, OwnersOfWorkers
  <2>2. CASE PopsNull(w)
    <3>1. UNCHANGED places /\ tokens' = tokens /\ mpc' = "crashed"
      BY <2>2 DEF PopsNull, Crash, queueVars, taskVars, workerVars, cancelVars, tallies, places
    <3> QED
      BY <1>0, <3>1, PlacesStay
  <2> QED
    BY <1>4, <2>1, <2>2 DEF Work
<1>5. CASE Idle
  BY <1>5, OwnersOfRunIdle, OwnersOfFinishIdle DEF Idle
<1>6. CASE (\E thread \in Cancellers : CancelFind(thread)) \/ CancelFinish
  BY <1>6, OwnersOfCancelFind, OwnersOfCancelFinish
<1>7. ASSUME NEW s \in Standalone, Start(s) \/ ThreadReturns(s) \/ ThreadEnds(s) \/ Reap(s) \/ Join(s)
      PROVE  ModesInv' /\ PlacesExclude'
  <2>1. UNCHANGED places /\ UNCHANGED <<tokens, mpc>>
    BY <1>7 DEF Start, ThreadReturns, ThreadEnds, Reap, Join, queueVars, taskVars, workerVars, cancelVars,
                tallies, places
  <2> QED
    BY <1>0, <2>1, PlacesStay
<1>8. CASE Shutdown \/ InterruptAndStop \/ PoolFreed \/ UsesFreed
  <2>1. UNCHANGED places /\ (tokens' = tokens \/ tokens' = 0)
    BY <1>8 DEF Shutdown, InterruptAndStop, PoolFreed, UsesFreed, Crash, queueVars, taskVars, workerVars,
                cancelVars, tallies, places
  <2>2. mpc' = "crashed" \/ (mpc # "idle" /\ mpc # "down" /\ mpc' # "idle" /\ Alive)
    BY <1>8 DEF Shutdown, InterruptAndStop, PoolFreed, UsesFreed, Crash, InLoop, Alive
  <2> QED
    BY <1>0, <2>1, <2>2, PlacesStay
<1>9. CASE Drain
  BY <1>1, <1>9, OwnersOfDrain
<1> QED
  BY <1>2, <1>3, <1>4, <1>5, <1>6, <1>7, <1>8, <1>9 DEF Next, Stop

LEMMA OwnersAreCorrect ==
  ASSUME Sheltered
  PROVE  Spec => []OwnersInv
<1> QED
  BY OwnersInvInit, OwnersInvStep, PTL DEF Spec

\* A task with one place has one owner.
LEMMA OwnersImply == OwnersInv => TasksInv
<1> SUFFICES ASSUME OwnersInv, Alive, NEW t \in Submitted
             PROVE  \/ freed[t] = 0 /\ \E owner \in Owners(t) : Owners(t) = {owner}
                    \/ freed[t] = 1 /\ Owners(t) = {}
  BY DEF OwnersInv, PoolInv, TasksInv, OneOwner, Submitted
<1>1. /\ PlacesExclude /\ TasksAreSubmitted /\ TasksAreKept
      /\ freed[t] \in Nat /\ t # 0
  <2>1. PlacesExclude /\ TasksAreSubmitted /\ TasksAreKept
    BY DEF OwnersInv, PoolInv
  <2>2. freed \in [Tasks -> Nat] /\ Submitted \subseteq Tasks
    BY OwnerFacts
  <2>3. t # 0
    BY DEF Submitted
  <2> QED
    BY <2>1, <2>2, <2>3
<1>2. /\ InQueue(t) => ~Held(t) /\ ~Dispatched(t) /\ ~Cancelled(t)
      /\ Held(t) => ~Dispatched(t) /\ ~Cancelled(t)
      /\ Dispatched(t) => ~Cancelled(t)
      /\ InQueue(t) \/ Held(t) \/ Dispatched(t) \/ Cancelled(t) => freed[t] = 0
      /\ freed[t] <= 1
      /\ freed[t] > 0 \/ InQueue(t) \/ Held(t) \/ Dispatched(t) \/ Cancelled(t)
  BY <1>1 DEF PlacesExclude, TasksAreKept
<1> DEFINE Queue == {i \in DOMAIN workQueue : workQueue[i] = t}
           Holding == {v \in Workers : wpc[v] = "run" /\ wtask[v] = t}
           Dispatching == {m \in {Main} : mpc = "idle" /\ mtask = t}
           Cancelling == {cancelled} \cap {t}
<1>3. /\ InQueue(t) => \E i : Queue = {i}
      /\ ~InQueue(t) => Queue = {}
  BY <1>1 DEF InQueue, PlacesExclude
<1>4. /\ Held(t) => \E w : Holding = {w}
      /\ ~Held(t) => Holding = {}
  BY <1>1 DEF Held, PlacesExclude
<1>5. Dispatching = IF Dispatched(t) THEN {Main} ELSE {}
  BY DEF Dispatched
<1>6. Cancelling = IF Cancelled(t) THEN {t} ELSE {}
  BY <1>1 DEF Cancelled, TasksAreSubmitted
<1>7. Owners(t) = {<<"queue", i>> : i \in Queue} \cup {<<"worker", w>> : w \in Holding}
                    \cup {<<"idle", m>> : m \in Dispatching} \cup {<<"cancel", c>> : c \in Cancelling}
  BY DEF Owners
<1> HIDE DEF Queue, Holding, Dispatching, Cancelling
<1> DEFINE Tagged(k, P) == {<<k, x>> : x \in P}
           Q == Tagged("queue", Queue)
           H == Tagged("worker", Holding)
           D == Tagged("idle", Dispatching)
           C == Tagged("cancel", Cancelling)
<1>8. ASSUME NEW P, NEW k
      PROVE  /\ P = {} => Tagged(k, P) = {}
             /\ (\E y : P = {y}) => \E o : Tagged(k, P) = {o}
  <2>1. P = {} => Tagged(k, P) = {}
    OBVIOUS
  <2>2. ASSUME NEW y, P = {y}
        PROVE  Tagged(k, P) = {<<k, y>>}
    BY <2>2
  <2> QED
    BY <2>1, <2>2
<1>9. /\ IF InQueue(t) THEN \E o : Q = {o} ELSE Q = {}
      /\ IF Held(t) THEN \E o : H = {o} ELSE H = {}
      /\ IF Dispatched(t) THEN \E o : D = {o} ELSE D = {}
      /\ IF Cancelled(t) THEN \E o : C = {o} ELSE C = {}
  <2> HIDE DEF Tagged
  <2>1. IF InQueue(t) THEN \E o : Q = {o} ELSE Q = {}
    BY <1>3, <1>8
  <2>2. IF Held(t) THEN \E o : H = {o} ELSE H = {}
    BY <1>4, <1>8
  <2>3. IF Dispatched(t) THEN \E o : D = {o} ELSE D = {}
    BY <1>5, <1>8
  <2>4. IF Cancelled(t) THEN \E o : C = {o} ELSE C = {}
    BY <1>6, <1>8
  <2> QED
    BY <2>1, <2>2, <2>3, <2>4
<1>10. Owners(t) = Q \cup H \cup D \cup C
  BY <1>7
<1> HIDE DEF Q, H, D, C
<1>11. CASE InQueue(t) \/ Held(t) \/ Dispatched(t) \/ Cancelled(t)
  <2>1. PICK o : Owners(t) = {o}
    BY <1>2, <1>9, <1>10, <1>11
  <2> QED
    BY <1>2, <1>11, <2>1
<1>12. CASE ~InQueue(t) /\ ~Held(t) /\ ~Dispatched(t) /\ ~Cancelled(t)
  <2>1. freed[t] = 1
    BY <1>1, <1>2, <1>12
  <2> QED
    BY <1>9, <1>10, <1>12, <2>1
<1> QED
  BY <1>11, <1>12

-----------------------------------------------------------------------------
\* Whatever is cancelled and however many pushes fail, a queued task has a request that makes
\* a worker come for it.
THEOREM TasksHaveTokens == Spec => []EveryTaskHasToken
<1>1. PoolInv => EveryTaskHasToken
  BY DEF PoolInv
<1> QED
  BY <1>1, PoolIsCorrect, PTL

\* ToolsCorePool_Shutdown waits only for threads that it has interrupted, and when it returns
\* no worker and no standalone thread is left and every task has been destroyed.
THEOREM ShutdownIsComplete == Spec => []ShutdownInv
<1>1. PoolInv => ShutdownInv
  <2> SUFFICES ASSUME PoolInv, mpc = "down"
               PROVE  /\ \A w \in Workers : wpc[w] = "idle"
                      /\ \A s \in Standalone : tpc[s] \in {"none", "ended"}
                      /\ \A t \in 1..submitted : freed[t] > 0
    BY DEF PoolInv, ThreadsInv, ShutdownInv, QuietWhenDown
  <2>1. /\ \A w \in Workers : wpc[w] = "idle"
        /\ \A s \in Standalone : tpc[s] \in {"none", "ended"}
        /\ workQueue = <<>> /\ Alive
    BY DEF PoolInv, Stages, ThreadsInv, PoolIsIdle, Alive
  <2>2. canceller = Nobody
    BY <2>1 DEF PoolInv, Stages
  <2>3. DOMAIN workQueue = {}
    BY <2>1
  <2>4. \A t : ~InQueue(t) /\ ~Held(t) /\ ~Dispatched(t) /\ ~Cancelled(t)
    BY <2>1, <2>2, <2>3 DEF InQueue, Held, Dispatched, Cancelled
  <2>5. \A t \in Submitted : freed[t] > 0
    BY <2>1, <2>4 DEF PoolInv, TasksAreKept
  <2> QED
    BY <2>1, <2>5 DEF Submitted
<1> QED
  BY <1>1, PoolIsCorrect, PTL

\* As long as GLib can create threads and no standalone thread cancels, every task has one
\* owner until it is destroyed once, and the numbers of the tasks are distinct.
THEOREM TasksAreCorrect ==
  ASSUME Sheltered
  PROVE  Spec => []TasksInv
<1> QED
  BY OwnersAreCorrect, OwnersImply, PTL

\* Then a task runs at most once, and not after ToolsCorePoolCancel has found it.
THEOREM TasksRunOrAreCancelled ==
  ASSUME Sheltered
  PROVE  Spec => RunOrCancelled
<1>1. ASSUME OwnersInv, [Next]_vars
      PROVE  [\A t \in Tasks : runs'[t] > runs[t] => t # cancelled /\ freed[t] = 0 /\ runs[t] = 0]_vars
  <2>0. /\ PlacesExclude /\ TasksAreSubmitted /\ runs \in [Tasks -> Nat] /\ Submitted \subseteq Tasks
        /\ \A u : InQueue(u) => u \in Submitted
    BY <1>1, OwnerFacts
  <2> SUFFICES ASSUME NEW t \in Tasks, runs'[t] > runs[t], Next
               PROVE  t # cancelled /\ freed[t] = 0 /\ runs[t] = 0
    <3>1. runs' = runs => \A t \in Tasks : ~(runs'[t] > runs[t])
      BY <2>0
    <3>2. UNCHANGED vars => runs' = runs
      BY DEF vars, tallies
    <3> QED
      BY <1>1, <3>1, <3>2
  <2>1. runs' # runs
    BY <2>0
  <2>2. (\E w \in Workers : PopWork(w)) \/ (\E u \in Tasks : RunIdle(u))
    BY <2>1 DEF Next, Submit, Work, TakeToken, FinishWork, PopsNull, Crash, Idle, FinishIdle, CancelFind,
                CancelFinish, Start, ThreadReturns, ThreadEnds, Reap, Shutdown, Stop, InterruptAndStop,
                PoolFreed, Join, Drain, UsesFreed, tallies
  <2>3. InQueue(t) /\ Alive
    <3>1. ASSUME NEW w \in Workers, PopWork(w)
          PROVE  InQueue(t) /\ Alive
      <4>1. /\ workQueue # <<>> /\ runs' = [runs EXCEPT ![Head(workQueue)] = runs[Head(workQueue)] + 1]
            /\ Alive
        BY <3>1 DEF PopWork
      <4>2. t = Head(workQueue)
        BY <2>0, <4>1
      <4>3. workQueue \in Seq(Tasks)
        BY <1>1, OwnerFacts
      <4>4. 1 \in DOMAIN workQueue /\ workQueue[1] = t
        BY <4>1, <4>2, <4>3
      <4> QED
        BY <4>1, <4>4 DEF InQueue
    <3>2. ASSUME NEW u \in Tasks, RunIdle(u)
          PROVE  InQueue(t) /\ Alive
      <4>1. runs' = [runs EXCEPT ![u] = runs[u] + 1] /\ Alive
        BY <3>2 DEF RunIdle, InLoop, Alive
      <4>2. t = u
        BY <2>0, <4>1
      <4> QED
        BY <1>1, <3>2, <4>1, <4>2, OwnersOfRunIdle
    <3> QED
      BY <2>2, <3>1, <3>2
  <2>4. t \in Submitted /\ t # 0 /\ runs[t] = 0 /\ freed[t] = 0 /\ ~Cancelled(t)
    <3>1. t \in Submitted /\ t # 0
      BY <2>0, <2>3 DEF Submitted
    <3> QED
      BY <2>0, <2>3, <3>1 DEF PlacesExclude
  <2> QED
    BY <2>0, <2>4 DEF Cancelled, TasksAreSubmitted
<1> QED
  BY <1>1, OwnersAreCorrect, PTL DEF Spec, RunOrCancelled
=============================================================================
