---------------------------- MODULE ThreadPool ----------------------------
(***************************************************************************)
(* The tools daemon's thread pool: services/vmtoolsd/threadPool.c.          *)
(*                                                                         *)
(* A submitted task sits in two queues at once.  The pool's own workQueue   *)
(* holds the WorkerTask; GLib's GThreadPool holds an anonymous token that   *)
(* makes some worker thread come and pop the oldest WorkerTask there is.    *)
(* Without a GThreadPool (pool.maxThreads <= 0) an idle source of the main  *)
(* loop takes the token's place, and it knows its task.  Standalone threads *)
(* are started on request and joined by the main loop.                      *)
(*                                                                         *)
(* gState.lock makes each of the critical sections below one step.  A task  *)
(* is named by the number of its submission; a task that was freed keeps    *)
(* its place in the model, so that its use after the free can be seen.      *)
(***************************************************************************)
EXTENDS Integers, Sequences, FiniteSets

CONSTANTS
  Workers,        \* threads of the GThreadPool
  Standalone,     \* threads started with ToolsCorePool_StartThread
  Main,           \* the main loop's thread
  Cancellers,     \* threads that call ToolsCorePool_CancelTask, one at a time
  UINT_MAX,       \* the largest guint
  MaxTasks,       \* bound: number of tasks submitted
  MaxPushErrors   \* bound: number of times GLib fails to create a thread

Nobody == "nobody"

ASSUME ThreadsAssumption ==
  /\ Workers \cap Standalone = {}
  /\ Main \notin Workers \cup Standalone
  /\ Nobody \notin {Main} \cup Workers \cup Standalone
  /\ Cancellers \subseteq {Main} \cup Workers \cup Standalone
  /\ IsFiniteSet(Workers)
ASSUME NumbersAssumption ==
  /\ UINT_MAX \in Nat \ {0} /\ MaxTasks \in Nat /\ MaxPushErrors \in Nat

VARIABLES
  active,       \* gState.active, 0 or 1
  pool,         \* gState.pool: "NULL" in single threaded mode, or "GThreadPool"
  workQueue,    \* gState.workQueue, the oldest task first
  tokens,       \* requests queued in the GThreadPool
  nextWorkId,   \* gState.nextWorkId
  submitted,    \* number of tasks submitted so far
  id,           \* WorkerTask.id
  srcId,        \* tasks that were given an idle source
  sources,      \* tasks whose idle source is attached
  wpc, wtask,   \* where each worker is, and with which task
  mpc, mtask,   \* where the main thread is, and with which task
  canceller, cancelled,   \* thread inside ToolsCorePoolCancel, and the task it found
  runs, freed,  \* how often each task was run and destroyed
  tpc,          \* where each standalone thread is
  threads,      \* gState.threads
  ended,        \* standalone threads with an idle source that will join them
  interrupted, joined,  \* standalone threads that were
  pushErrors    \* number of failed pushes so far

queueVars  == <<workQueue, tokens, sources>>
taskVars   == <<pool, nextWorkId, submitted, id, srcId, pushErrors>>
workerVars == <<wpc, wtask>>
cancelVars == <<canceller, cancelled>>
tallies    == <<runs, freed>>
threadVars == <<tpc, threads, ended, interrupted, joined>>
vars == <<active, queueVars, taskVars, workerVars, mpc, mtask, cancelVars, tallies, threadVars>>

Tasks == 1..MaxTasks

\* "interrupt" to "join" are the stages of ToolsCorePool_Shutdown.
MainSteps == {"loop", "idle", "interrupt", "poolWait", "join", "down", "crashed"}

TypeOK ==
  /\ active \in {0, 1} /\ pool \in {"NULL", "GThreadPool"}
  /\ workQueue \in Seq(Tasks)
  /\ tokens \in Nat
  /\ nextWorkId \in 0..UINT_MAX /\ submitted \in 0..MaxTasks
  /\ id \in [Tasks -> 0..UINT_MAX]
  /\ srcId \subseteq Tasks /\ sources \subseteq srcId
  /\ wpc \in [Workers -> {"idle", "pop", "run"}] /\ wtask \in [Workers -> 0..MaxTasks]
  /\ mpc \in MainSteps /\ mtask \in 0..MaxTasks
  /\ canceller \in Cancellers \cup {Nobody} /\ cancelled \in 0..MaxTasks
  /\ runs \in [Tasks -> Nat] /\ freed \in [Tasks -> Nat]
  /\ tpc \in [Standalone -> {"none", "run", "done", "ended"}]
  /\ threads \subseteq Standalone /\ ended \subseteq Standalone
  /\ interrupted \subseteq Standalone /\ joined \subseteq Standalone
  /\ pushErrors \in 0..MaxPushErrors

\* ToolsCorePool_Init.
Init ==
  /\ active = 1
  /\ pool \in {"NULL", "GThreadPool"}   \* it is as configured, or could not be created
  /\ workQueue = <<>> /\ tokens = 0 /\ sources = {}
  /\ nextWorkId = 0 /\ submitted = 0 /\ srcId = {} /\ pushErrors = 0
  /\ id = [t \in Tasks |-> 0]
  /\ wpc = [w \in Workers |-> "idle"] /\ wtask = [w \in Workers |-> 0]
  /\ mpc = "loop" /\ mtask = 0
  /\ canceller = Nobody /\ cancelled = 0
  /\ runs = [t \in Tasks |-> 0] /\ freed = [t \in Tasks |-> 0]
  /\ tpc = [s \in Standalone |-> "none"]
  /\ threads = {} /\ ended = {} /\ interrupted = {} /\ joined = {}

Alive == mpc # "crashed"
SingleThreaded == pool = "NULL"
InLoop == mpc = "loop" /\ canceller # Main

\* A callback that can call into the pool is running on this thread.
Calling(thread) ==
  /\ Alive /\ canceller # thread
  /\ \/ thread = Main /\ mpc \in {"loop", "idle"}
     \/ thread \in Workers /\ wpc[thread] = "run"
     \/ thread \in Standalone /\ tpc[thread] = "run"

------------------------------------------------------------------------------
(* Tasks.                                                                    *)

InQueue(t) == \E i \in DOMAIN workQueue : workQueue[i] = t

\* The queue after g_queue_remove or g_queue_delete_link.
LeftInQueue(t) == workQueue   \* mutant: the link is not deleted
WithoutTask(t) ==
  IF InQueue(t)
  THEN LET at == CHOOSE i \in DOMAIN workQueue : workQueue[i] = t
       IN  [i \in 1..(Len(workQueue) - 1) |-> workQueue[IF i < at THEN i ELSE i + 1]]
  ELSE workQueue

\* The task's id, from a counter that skips 0: it would mean an error.
NumberUnbounded(t) ==         \* mutant: never wraps around
  nextWorkId' = nextWorkId + 1 /\ id' = [id EXCEPT ![t] = nextWorkId + 1]
NumberModulo(t) ==            \* mutant: a plain ++nextWorkId
  /\ nextWorkId' = (nextWorkId + 1) % (UINT_MAX + 1)
  /\ id' = [id EXCEPT ![t] = (nextWorkId + 1) % (UINT_MAX + 1)]
Number(t) ==
  /\ nextWorkId' = IF nextWorkId + 1 = UINT_MAX THEN 0 ELSE nextWorkId + 1
  /\ id' = [id EXCEPT ![t] = nextWorkId + 1]

\* g_thread_pool_push: the token is queued even if no thread could be created.
PushIfIdle == tokens' = IF tokens = 0 THEN 1 ELSE tokens   \* mutant: one wake-up for all
Push == tokens' = tokens + 1

\* ToolsCorePoolSubmit.
Submit ==
  /\ active = 1 /\ submitted < MaxTasks
  /\ \E thread \in {Main} \cup Workers \cup Standalone : Calling(thread)
  /\ LET t == submitted + 1 IN
       /\ submitted' = t
       /\ Number(t)
       /\ workQueue' = Append(workQueue, t)
       /\ \/ /\ ~SingleThreaded /\ Push
             /\ UNCHANGED <<srcId, sources, pushErrors>>
          \/ /\ \/ SingleThreaded /\ UNCHANGED <<tokens, pushErrors>>
                \/ /\ ~SingleThreaded /\ pushErrors < MaxPushErrors
                   /\ pushErrors' = pushErrors + 1 /\ Push
             /\ srcId' = srcId \cup {t} /\ sources' = sources \cup {t}
  /\ UNCHANGED <<active, pool, workerVars, mpc, mtask, cancelVars, tallies, threadVars>>

\* ToolsCorePoolRunWorker is called by GLib with a token.
TakeToken(w) ==
  /\ Alive /\ wpc[w] = "idle" /\ tokens > 0
  /\ tokens' = tokens - 1
  /\ wpc' = [wpc EXCEPT ![w] = "pop"]
  /\ UNCHANGED <<active, workQueue, sources, taskVars, wtask, mpc, mtask, cancelVars,
                 tallies, threadVars>>

\* g_queue_pop_tail, then the task's callback is entered.
PopWork(w) ==
  /\ Alive /\ wpc[w] = "pop" /\ workQueue # <<>>
  /\ workQueue' = Tail(workQueue)
  /\ wtask' = [wtask EXCEPT ![w] = Head(workQueue)]
  /\ wpc' = [wpc EXCEPT ![w] = "run"]
  /\ runs' = [runs EXCEPT ![Head(workQueue)] = @ + 1]
  /\ UNCHANGED <<active, tokens, sources, taskVars, mpc, mtask, cancelVars, freed, threadVars>>

\* The callback returns, the task is destroyed.
FinishWork(w) ==
  /\ Alive /\ wpc[w] = "run" /\ canceller # w
  /\ freed' = [freed EXCEPT ![wtask[w]] = @ + 1]
  /\ wpc' = [wpc EXCEPT ![w] = "idle"] /\ wtask' = [wtask EXCEPT ![w] = 0]
  /\ UNCHANGED <<active, queueVars, taskVars, mpc, mtask, cancelVars, runs, threadVars>>

\* ToolsCorePoolDoWork as an idle callback.  Only in single threaded mode does
\* it take its task off the queue.
RunIdle(t) ==
  /\ InLoop /\ t \in sources
  /\ workQueue' = IF SingleThreaded THEN WithoutTask(t) ELSE workQueue
  /\ mpc' = "idle" /\ mtask' = t
  /\ runs' = [runs EXCEPT ![t] = @ + 1]
  /\ UNCHANGED <<active, tokens, sources, taskVars, workerVars, cancelVars, freed, threadVars>>

\* The callback returns FALSE: the source is destroyed, and with it the task.
FinishIdle ==
  /\ mpc = "idle" /\ canceller # Main
  /\ sources' = sources \ {mtask}
  /\ freed' = [freed EXCEPT ![mtask] = @ + 1]
  /\ mpc' = "loop" /\ mtask' = 0
  /\ UNCHANGED <<active, workQueue, tokens, taskVars, workerVars, cancelVars, runs, threadVars>>

\* ToolsCorePoolCancel, the critical section: the newest task with this id
\* leaves the queue.  Nothing is done about its token.
CancelFind(thread) ==
  /\ canceller = Nobody /\ Calling(thread) /\ active = 1
  /\ \E i \in DOMAIN workQueue :
       /\ \A j \in DOMAIN workQueue : j > i => id[workQueue[j]] # id[workQueue[i]]
       /\ cancelled' = workQueue[i]
       /\ workQueue' = WithoutTask(workQueue[i])
  /\ canceller' = thread
  /\ UNCHANGED <<active, tokens, sources, taskVars, workerVars, mpc, mtask, tallies, threadVars>>

\* After the unlock: the task is destroyed, with its source if it has one.  A
\* source that is being dispatched destroys its task when it returns.
CancelFinish ==
  /\ Alive /\ canceller # Nobody
  /\ freed' = IF cancelled \in srcId /\ (cancelled \notin sources \/ mtask = cancelled)
              THEN freed ELSE [freed EXCEPT ![cancelled] = @ + 1]
  /\ sources' = sources \ {cancelled}
  /\ canceller' = Nobody /\ cancelled' = 0
  /\ UNCHANGED <<active, workQueue, tokens, taskVars, workerVars, mpc, mtask, runs, threadVars>>

------------------------------------------------------------------------------
(* Standalone threads.                                                       *)

\* ToolsCorePoolStart; the new thread is in gState.threads before it can take
\* the lock itself.
MayStartLate == TRUE          \* mutant: does not look at gState.active
MayStart == active = 1

Start(s) ==
  /\ MayStart /\ tpc[s] = "none"
  /\ \E thread \in {Main} \cup Workers \cup Standalone : Calling(thread)
  /\ tpc' = [tpc EXCEPT ![s] = "run"]
  /\ threads' = threads \cup {s}
  /\ UNCHANGED <<active, queueVars, taskVars, workerVars, mpc, mtask, cancelVars, tallies,
                 ended, interrupted, joined>>

\* The task of the thread returns: task->active = FALSE.
ThreadReturns(s) ==
  /\ Alive /\ tpc[s] = "run" /\ canceller # s
  /\ tpc' = [tpc EXCEPT ![s] = "done"]
  /\ UNCHANGED <<active, queueVars, taskVars, workerVars, mpc, mtask, cancelVars, tallies,
                 threads, ended, interrupted, joined>>

\* The critical section at the end of ToolsCorePoolRunThread.
ThreadEnds(s) ==
  /\ Alive /\ tpc[s] = "done"
  /\ tpc' = [tpc EXCEPT ![s] = "ended"]
  /\ threads' = IF active = 1 THEN threads \ {s} ELSE threads
  /\ ended' = IF active = 1 THEN ended \cup {s} ELSE ended
  /\ UNCHANGED <<active, queueVars, taskVars, workerVars, mpc, mtask, cancelVars, tallies,
                 interrupted, joined>>

\* The idle source that joins the thread.
Reap(s) ==
  /\ InLoop /\ s \in ended
  /\ ended' = ended \ {s} /\ joined' = joined \cup {s}
  /\ UNCHANGED <<active, queueVars, taskVars, workerVars, mpc, mtask, cancelVars, tallies,
                 tpc, threads, interrupted>>

------------------------------------------------------------------------------
(* ToolsCorePool_Shutdown, after the main loop has been left.                *)

Shutdown ==
  /\ InLoop
  /\ active' = 0 /\ mpc' = "interrupt"
  /\ UNCHANGED <<queueVars, taskVars, workerVars, mtask, cancelVars, tallies, threadVars>>

\* The interrupt callbacks are called, then GLib drops its tokens.
InterruptAndStop ==
  /\ mpc = "interrupt"
  /\ interrupted' = interrupted \cup {s \in threads : tpc[s] = "run"}
  /\ tokens' = 0 /\ mpc' = "poolWait"
  /\ UNCHANGED <<active, workQueue, sources, taskVars, workerVars, mtask, cancelVars, tallies,
                 tpc, threads, ended, joined>>

\* g_thread_pool_free returns once the workers are done.
DoesNotWait == TRUE           \* mutant: wait = FALSE
PoolIsIdle == \A w \in Workers : wpc[w] = "idle"

PoolFreed ==
  /\ mpc = "poolWait" /\ PoolIsIdle
  /\ mpc' = "join"
  /\ UNCHANGED <<active, queueVars, taskVars, workerVars, mtask, cancelVars, tallies, threadVars>>

Join(s) ==
  /\ mpc = "join" /\ s \in threads \ joined /\ tpc[s] = "ended"
  /\ joined' = joined \cup {s}
  /\ UNCHANGED <<active, queueVars, taskVars, workerVars, mpc, mtask, cancelVars, tallies,
                 tpc, threads, ended, interrupted>>

\* The tasks that are left are destroyed, then the state is.
FreesNone(t) == freed[t]      \* mutant: the queue is freed, its tasks are not
FreesQueued(t) == IF InQueue(t) THEN freed[t] + 1 ELSE freed[t]

Drain ==
  /\ mpc = "join" /\ threads \subseteq joined
  /\ freed' = [t \in Tasks |-> FreesQueued(t)]
  /\ workQueue' = <<>> /\ threads' = {}
  /\ mpc' = "down"
  /\ UNCHANGED <<active, tokens, sources, taskVars, workerVars, mtask, cancelVars, runs,
                 tpc, ended, interrupted, joined>>

------------------------------------------------------------------------------
Crash ==
  /\ mpc' = "crashed"
  /\ UNCHANGED <<active, queueVars, taskVars, workerVars, mtask, cancelVars, tallies, threadVars>>

\* A worker finds no task behind its token and follows a NULL pointer.
PopsNull(w) == Alive /\ wpc[w] = "pop" /\ workQueue = <<>> /\ Crash

\* Some thread uses a task that was destroyed; it may also get away with it.
InUse(t) ==
  \/ \E w \in Workers : wpc[w] = "run" /\ wtask[w] = t
  \/ mpc = "idle" /\ mtask = t
  \/ canceller # Nobody /\ cancelled = t
UsesFreed == Alive /\ (\E t \in Tasks : InUse(t) /\ freed[t] > 0) /\ Crash

Work(w) == TakeToken(w) \/ PopWork(w) \/ FinishWork(w) \/ PopsNull(w)
Idle == (\E t \in Tasks : RunIdle(t)) \/ FinishIdle
Stop == InterruptAndStop \/ PoolFreed \/ (\E s \in Standalone : Join(s)) \/ Drain

Next ==
  \/ Submit \/ (\E w \in Workers : Work(w)) \/ Idle
  \/ (\E thread \in Cancellers : CancelFind(thread)) \/ CancelFinish
  \/ \E s \in Standalone : Start(s) \/ ThreadReturns(s) \/ ThreadEnds(s) \/ Reap(s)
  \/ Shutdown \/ Stop
  \/ UsesFreed

Spec == Init /\ [][Next]_vars

------------------------------------------------------------------------------
(* Properties.                                                               *)

\* Workers between their token and the pop.
Popping == {w \in Workers : wpc[w] = "pop"}

\* No task is forgotten: until the shutdown there is a token, or a worker that
\* already took one, for every task in the queue, whatever cancellations and
\* failed pushes there were.
EveryTaskHasToken ==
  Alive /\ active = 1 /\ ~SingleThreaded
    => Len(workQueue) <= tokens + Cardinality(Popping)

\* The places from which a task will be destroyed.  A task whose source is
\* attached in single threaded mode is destroyed with its source, unless it is
\* still in the queue at shutdown.
Owners(t) ==
  {<<"queue", i>> : i \in {j \in DOMAIN workQueue : workQueue[j] = t}}
    \cup {<<"worker", w>> : w \in {v \in Workers : wpc[v] = "run" /\ wtask[v] = t}}
    \cup {<<"idle", m>> : m \in {m \in {Main} : mpc = "idle" /\ mtask = t}}
    \cup {<<"cancel", c>> : c \in {cancelled} \cap {t}}

\* As long as GLib can create threads, a submitted task has one owner until it
\* is destroyed, and is destroyed once: the queue, the worker that popped it,
\* the idle callback or the caller of cancel, never two of them.
OneOwner ==
  Alive =>
    \A t \in 1..submitted :
      \/ freed[t] = 0 /\ \E owner \in Owners(t) : Owners(t) = {owner}
      \/ freed[t] = 1 /\ Owners(t) = {}

\* A task that ToolsCorePoolCancel has found is not run afterwards, and one that
\* runs is out of its reach.
RunOrCancelled ==
  [][\A t \in Tasks : runs'[t] > runs[t] => t # cancelled /\ freed[t] = 0 /\ runs[t] = 0]_vars

\* Once the shutdown is over no pool thread and no standalone thread will touch
\* gState or its lock again, and every task has been destroyed.
QuietWhenDown ==
  mpc = "down" =>
    /\ \A w \in Workers : wpc[w] = "idle"
    /\ \A s \in Standalone : tpc[s] \in {"none", "ended"}
    /\ \A t \in 1..submitted : freed[t] > 0

\* Before the shutdown waits for anybody, every standalone thread that is still
\* inside its task has been interrupted, so the wait cannot be for a thread that
\* slipped in behind the interrupts.
WaitsForInterruptedOnly ==
  mpc \in {"poolWait", "join"} =>
    \A s \in Standalone : tpc[s] = "run" => s \in interrupted

\* A submission never returns 0, and tasks fewer than UINT_MAX submissions apart
\* have different ids: the wrap-around neither yields nor repeats an id early.
IdsAreDistinct ==
  \A t \in 1..submitted :
    /\ id[t] # 0
    /\ \A u \in 1..submitted : u < t /\ t - u < UINT_MAX => id[u] # id[t]

\* What holds of the tasks as long as GLib can create threads.
TasksInv == TypeOK /\ OneOwner /\ IdsAreDistinct

\* The shutdown: it waits only for threads that know of it, and leaves nobody behind.
ShutdownInv == WaitsForInterruptedOnly /\ QuietWhenDown

\* GLib dispatches its sources and its workers, the callbacks return; a
\* standalone thread need only return after it was interrupted.
Fairness ==
  /\ \A w \in Workers : WF_vars(Work(w))
  /\ WF_vars(Idle) /\ WF_vars(CancelFinish) /\ WF_vars(Stop)
  /\ \A s \in Standalone :
       WF_vars(s \in interrupted /\ ThreadReturns(s)) /\ WF_vars(ThreadEnds(s))

FairSpec == Spec /\ Fairness

\* Every task that is submitted is destroyed, after it ran, was cancelled or was
\* dropped by the shutdown, unless a worker popped NULL.
TasksEnd == \A t \in Tasks : submitted >= t ~> (freed[t] > 0 \/ mpc = "crashed")

\* A shutdown ends: it does not wait for a thread that waits for it.
ShutdownEnds == mpc = "interrupt" ~> mpc \in {"down", "crashed"}

------------------------------------------------------------------------------
(* What assertions and documentation say and the code does not do.           *)

\* ASSERT(work != NULL) in ToolsCorePoolRunWorker.
WorkIsNotNull == [][\A w \in Workers : ~PopsNull(w)]_vars

\* ToolsCorePoolDoWork: "In multi-threaded mode, the thread pool callback already
\* did this", that is, took the task being executed off the queue.
RunningIsOffQueue == mpc = "idle" => ~InQueue(mtask)

\* ToolsCorePool_CancelTask: "If the task is currently being executed, this
\* function does nothing.  Otherwise, the task is removed from the task queue".
CancelledIsNotRun == [][\A t \in Tasks : runs'[t] > runs[t] => t # cancelled]_vars

\* ToolsCorePool_StartThread: "The thread will be managed by the thread pool, so
\* that it's properly cleaned up when the service is shutting down."
ThreadsAreCleanedUp == mpc = "down" => \A s \in Standalone : tpc[s] = "ended" => s \in joined

=============================================================================
