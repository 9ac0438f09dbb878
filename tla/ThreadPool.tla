----------------------------- MODULE ThreadPool -----------------------------
(***************************************************************************)
(* The thread pool of thread_pool/threadpool.c: worker threads, the        *)
(* manager thread (adjust_thread), concurrent callers of threadpool_add    *)
(* and one call of threadpool_destroy.                                     *)
(*                                                                         *)
(* A critical section under pool->lock is one step, except where the lock  *)
(* is seen held from outside: between the test of a wait loop and its      *)
(* pthread_cond_wait (pool->shutdown is written without the lock, so it    *)
(* can change in that window), and during the manager's growing loop.      *)
(* Sections under pool->thread_counter touch one field and are one step.   *)
(***************************************************************************)
EXTENDS Integers, FiniteSets

CONSTANTS
  Tasks,             \* one element per call of threadpool_add
  NoTask,            \* content of a slot or of a local never written
  MinThr, MaxThr,    \* min_thr_num, max_thr_num
  QueueMax,          \* queue_max_size
  MinWaitTask,       \* MIN_WAIT_TASK_NUM
  Vary,              \* DEFAULT_THREAD_VARY
  MaxTid,            \* bound: threads the process may ever create
  ProbeSeesExit,     \* pthread_kill(tid, 0) gives ESRCH once tid has exited
  CreateMayFail,     \* pthread_create may fail (its result is ignored)
  AddDuringDestroy   \* callers may be inside threadpool_add at destroy

ASSUME PoolAssumption ==
  /\ NoTask \notin Tasks
  /\ MinThr \in Nat /\ MaxThr \in Nat \ {0} /\ MinThr <= MaxThr
  /\ QueueMax \in Nat \ {0}
  /\ MinWaitTask \in Nat /\ Vary \in Nat \ {0}
  /\ MaxTid \in Nat /\ MaxThr <= MaxTid
  /\ {ProbeSeesExit, CreateMayFail, AddDuringDestroy} \subseteq BOOLEAN

VARIABLES
  threads,           \* pool->threads: a tid, or 0, per slot
  task_queue, queue_front, queue_rear, queue_size,
  live_thr_num, busy_thr_num, wait_exit_thr_num,
  shutdown,
  locked,            \* pool->lock is held by some thread
  pool,              \* the pool's memory: live, gutted (arrays freed), freed
  wpc, task,         \* where each worker is, and its local task
  call,              \* where each call of threadpool_add is
  adj,               \* the manager: where it is, and its locals
  des,               \* the call of threadpool_destroy: where it is, and i
  ran                \* history: how often each task's function was called

queueVars == <<task_queue, queue_front, queue_rear, queue_size>>
sizeVars  == <<threads, live_thr_num, wait_exit_thr_num>>
endVars   == <<shutdown, pool, des>>             \* written by destroy only
vars == <<queueVars, sizeVars, endVars, busy_thr_num, locked, wpc, task, call,
          adj, ran>>

Tid  == 1..MaxTid
Slot == 0..MaxThr - 1
Ring == 0..QueueMax - 1

\* A worker is "unborn", at the mutex ("lock"), decided to wait but still
\* holding the mutex ("willwait"), asleep ("waiting"), signalled ("woken"),
\* holding a task ("took"), counted busy ("busy"), back from the task ("ran"),
\* past the mutex on its way out ("shrunk", "stopping"), or gone.
WorkerState == {"unborn", "lock", "willwait", "waiting", "woken", "took",
                "busy", "ran", "shrunk", "stopping", "exited", "detached"}
CallState   == {"idle", "willwait", "waiting", "woken", "added", "refused"}
AdjustState == {"loop", "sample", "samplebusy", "growlock", "grow", "shrink",
                "signal", "exited"}
DestroyState == {"none", "joinadjust", "broadcast", "join", "free", "freepool",
                 "done"}

IdleAdjust(pc) == [pc |-> pc, qsize |-> 0, live |-> 0, busy |-> 0,
                   i |-> 0, add |-> 0]

\* What slot s may hold after threadpool_create: its thread if that was
\* created; else, up to MinThr, nothing or the name of a thread that was not
\* born by then (a failed pthread_create leaves it undefined).
FirstIds(s, created) ==
  IF s \in created THEN {s + 1}
  ELSE {0} \union {w \in Tid : s < MinThr /\ (w - 1 \notin created \/ w - 1 > s)}

\* threadpool_create, up to its return: MinThr workers and the manager.
Init ==
  \E created \in IF CreateMayFail THEN SUBSET (0..MinThr - 1)
                                  ELSE {0..MinThr - 1} :
    /\ threads \in {ids \in [Slot -> 0..MaxTid] :
                     \A s \in Slot : ids[s] \in FirstIds(s, created)}
    /\ wpc = [w \in Tid |-> IF w - 1 \in created THEN "lock" ELSE "unborn"]
    /\ task = [w \in Tid |-> NoTask]
    /\ task_queue = [s \in Ring |-> NoTask]
    /\ queue_front = 0 /\ queue_rear = 0 /\ queue_size = 0
    /\ live_thr_num = MinThr /\ busy_thr_num = 0 /\ wait_exit_thr_num = 0
    /\ shutdown = FALSE /\ locked = FALSE /\ pool = "live"
    /\ call = [t \in Tasks |-> "idle"]
    /\ adj = IdleAdjust("loop")
    /\ des = [pc |-> "none", i |-> 0]
    /\ ran = [t \in Tasks |-> 0]

-----------------------------------------------------------------------------
(* Condition variables: the sleepers of queue_not_empty are the waiting     *)
(* workers, those of queue_not_full the waiting calls.                      *)

Sleepers == {w \in Tid : wpc[w] = "waiting"}

\* Mutant: pthread_cond_signal is forgotten.
SignalForgotten == UNCHANGED wpc

SignalNotEmpty ==
  \/ \E w \in Sleepers : wpc' = [wpc EXCEPT ![w] = "woken"]
  \/ Sleepers = {} /\ UNCHANGED wpc

BroadcastNotEmpty ==
  wpc' = [w \in Tid |-> IF wpc[w] = "waiting" THEN "woken" ELSE wpc[w]]

\* Mutant: the queue_not_full broadcast is forgotten.
BroadcastForgotten == UNCHANGED call

BroadcastNotFull ==
  call' = [t \in Tasks |-> IF call[t] = "waiting" THEN "woken" ELSE call[t]]

-----------------------------------------------------------------------------
(* threadpool_add *)

Enqueue(t) ==
  /\ task_queue' = [task_queue EXCEPT ![queue_rear] = t]
  /\ queue_rear' = (queue_rear + 1) % QueueMax
  /\ queue_size' = queue_size + 1
  /\ UNCHANGED queue_front

\* Mutant: the full test is off by one.
MustWaitOverfull == queue_size > QueueMax /\ ~shutdown

MustWaitFull == queue_size = QueueMax /\ ~shutdown

\* The body of threadpool_add once the mutex is held, from its wait loop on.
AddBody(t) ==
  \/ /\ MustWaitFull
     /\ call' = [call EXCEPT ![t] = "willwait"]
     /\ locked' = TRUE
     /\ UNCHANGED <<queueVars, wpc>>
  \/ /\ shutdown
     /\ BroadcastNotEmpty
     /\ call' = [call EXCEPT ![t] = "refused"]
     /\ UNCHANGED <<queueVars, locked>>
  \/ /\ ~MustWaitFull /\ ~shutdown
     /\ Enqueue(t)
     /\ SignalNotEmpty
     /\ call' = [call EXCEPT ![t] = "added"]
     /\ UNCHANGED locked

AddLock(t) ==
  /\ call[t] = "woken" \/ (call[t] = "idle" /\ (AddDuringDestroy \/ ~shutdown))
  /\ ~locked
  /\ AddBody(t)
  /\ UNCHANGED <<sizeVars, endVars, busy_thr_num, task, adj, ran>>

\* Mutant: the caller sleeps with the mutex held.
AddWaitHolding(t) ==
  /\ call[t] = "willwait"
  /\ call' = [call EXCEPT ![t] = "waiting"]
  /\ UNCHANGED <<queueVars, sizeVars, endVars, busy_thr_num, locked, wpc, task,
                 adj, ran>>

AddWait(t) ==
  /\ call[t] = "willwait"
  /\ call' = [call EXCEPT ![t] = "waiting"]
  /\ locked' = FALSE
  /\ UNCHANGED <<queueVars, sizeVars, endVars, busy_thr_num, wpc, task, adj,
                 ran>>

-----------------------------------------------------------------------------
(* threadpool_thread *)

\* Mutants: the size is not updated; the newest task is taken; the front
\* stays where it is.
DequeueKeepsSize(w) ==
  /\ task' = [task EXCEPT ![w] = task_queue[queue_front]]
  /\ queue_front' = (queue_front + 1) % QueueMax
  /\ UNCHANGED <<task_queue, queue_rear, queue_size>>

DequeueNewest(w) ==
  /\ queue_rear' = (queue_rear + QueueMax - 1) % QueueMax
  /\ task' = [task EXCEPT ![w] = task_queue[queue_rear']]
  /\ queue_size' = queue_size - 1
  /\ UNCHANGED <<task_queue, queue_front>>

DequeueKeepsFront(w) ==
  /\ task' = [task EXCEPT ![w] = task_queue[queue_front]]
  /\ queue_size' = queue_size - 1
  /\ UNCHANGED <<task_queue, queue_front, queue_rear>>

Dequeue(w) ==
  /\ task' = [task EXCEPT ![w] = task_queue[queue_front]]
  /\ queue_front' = (queue_front + 1) % QueueMax
  /\ queue_size' = queue_size - 1
  /\ UNCHANGED <<task_queue, queue_rear>>

MustWaitEmpty == queue_size = 0 /\ ~shutdown

\* The loop of a worker that holds the mutex, from the test at the top of
\* the wait loop to the next point where the mutex is released.
WorkerBody(w) ==
  \/ /\ MustWaitEmpty
     /\ wpc' = [wpc EXCEPT ![w] = "willwait"]
     /\ locked' = TRUE
     /\ UNCHANGED <<queueVars, task, call>>
  \/ /\ shutdown
     /\ wpc' = [wpc EXCEPT ![w] = "stopping"]
     /\ UNCHANGED <<queueVars, task, call, locked>>
  \/ /\ ~MustWaitEmpty /\ ~shutdown
     /\ Dequeue(w)
     /\ BroadcastNotFull
     /\ wpc' = [wpc EXCEPT ![w] = "took"]
     /\ UNCHANGED locked

WorkerLock(w) ==
  /\ wpc[w] = "lock" /\ ~locked
  /\ WorkerBody(w)
  /\ UNCHANGED <<sizeVars, endVars, busy_thr_num, adj, ran>>

\* Mutant: the worker sleeps with the mutex held.
WorkerWaitHolding(w) ==
  /\ wpc[w] = "willwait"
  /\ wpc' = [wpc EXCEPT ![w] = "waiting"]
  /\ UNCHANGED <<queueVars, sizeVars, endVars, busy_thr_num, locked, task, call,
                 adj, ran>>

WorkerWait(w) ==
  /\ wpc[w] = "willwait"
  /\ wpc' = [wpc EXCEPT ![w] = "waiting"]
  /\ locked' = FALSE
  /\ UNCHANGED <<queueVars, sizeVars, endVars, busy_thr_num, task, call, adj,
                 ran>>

\* Mutant: off by one.
MayLeaveAtMinimum == live_thr_num >= MinThr

\* What a worker back from pthread_cond_wait does with wait_exit_thr_num.
MayLeave == live_thr_num > MinThr
AsksToExit == wait_exit_thr_num > 0 /\ MayLeave

\* Mutant: live_thr_num is not decremented.
WorkerShrinkUncounted(w) ==
  /\ wpc[w] = "woken" /\ ~locked
  /\ AsksToExit
  /\ wait_exit_thr_num' = wait_exit_thr_num - 1
  /\ wpc' = [wpc EXCEPT ![w] = "shrunk"]
  /\ UNCHANGED <<queueVars, endVars, threads, live_thr_num, busy_thr_num, locked,
                 task, call, adj, ran>>

WorkerShrink(w) ==
  /\ wpc[w] = "woken" /\ ~locked
  /\ AsksToExit
  /\ wait_exit_thr_num' = wait_exit_thr_num - 1
  /\ live_thr_num' = live_thr_num - 1
  /\ wpc' = [wpc EXCEPT ![w] = "shrunk"]
  /\ UNCHANGED <<queueVars, endVars, threads, busy_thr_num, locked, task,
                 call, adj, ran>>

\* Mutant: the worker takes itself off the count before it looks at min_thr_num.
WorkerWakeUncounts(w) ==
  /\ wpc[w] = "woken" /\ ~locked
  /\ ~AsksToExit
  /\ wait_exit_thr_num' = IF wait_exit_thr_num > 0 THEN wait_exit_thr_num - 1
                                                   ELSE 0
  /\ live_thr_num' = IF wait_exit_thr_num > 0 THEN live_thr_num - 1
                                              ELSE live_thr_num
  /\ WorkerBody(w)
  /\ UNCHANGED <<endVars, threads, busy_thr_num, adj, ran>>

WorkerWake(w) ==
  /\ wpc[w] = "woken" /\ ~locked
  /\ ~AsksToExit
  /\ wait_exit_thr_num' = IF wait_exit_thr_num > 0 THEN wait_exit_thr_num - 1
                                                   ELSE 0
  /\ WorkerBody(w)
  /\ UNCHANGED <<endVars, threads, live_thr_num, busy_thr_num, adj, ran>>

\* Steps of a worker outside the mutex.
WorkerMove(w, from, to) ==
  /\ wpc[w] = from
  /\ wpc' = [wpc EXCEPT ![w] = to]
  /\ UNCHANGED <<queueVars, sizeVars, endVars, locked, call, adj>>

WorkerStart(w) ==
  /\ WorkerMove(w, "took", "busy")
  /\ busy_thr_num' = busy_thr_num + 1
  /\ UNCHANGED <<task, ran>>

WorkerRun(w) ==
  /\ WorkerMove(w, "busy", "ran")
  /\ ran' = [t \in Tasks |-> IF t = task[w] THEN ran[t] + 1 ELSE ran[t]]
  /\ UNCHANGED <<task, busy_thr_num>>

\* Mutant: busy_thr_num is not decremented.
WorkerEndBusy(w) ==
  /\ WorkerMove(w, "ran", "lock")
  /\ task' = [task EXCEPT ![w] = NoTask]
  /\ UNCHANGED <<busy_thr_num, ran>>

WorkerEnd(w) ==
  /\ WorkerMove(w, "ran", "lock")
  /\ busy_thr_num' = busy_thr_num - 1
  /\ task' = [task EXCEPT ![w] = NoTask]
  /\ UNCHANGED ran

WorkerGone(w) ==
  /\ WorkerMove(w, "shrunk", "exited") \/ WorkerMove(w, "stopping", "detached")
  /\ UNCHANGED <<task, busy_thr_num, ran>>

\* pthread_cond_wait may return without a signal (POSIX).
Spurious ==
  /\ \/ /\ \E w \in Sleepers : wpc' = [wpc EXCEPT ![w] = "woken"]
        /\ UNCHANGED call
     \/ /\ \E t \in Tasks : /\ call[t] = "waiting"
                            /\ call' = [call EXCEPT ![t] = "woken"]
        /\ UNCHANGED wpc
  /\ UNCHANGED <<queueVars, sizeVars, endVars, busy_thr_num, locked, task,
                 adj, ran>>

-----------------------------------------------------------------------------
(* adjust_thread *)

WantsGrow(qsize, live) == qsize >= MinWaitTask /\ live < MaxThr
WantsShrink(busy, live) == busy * 2 < live /\ live > MinThr
AfterGrow(busy, live) == IF WantsShrink(busy, live) THEN "shrink" ELSE "loop"

\* Mutant: the result of the probe is ignored.
AlwaysAlive(w) == TRUE

IsThreadAlive(w) ==
  ~(ProbeSeesExit /\ wpc[w] \in {"unborn", "exited", "detached"})

\* Steps of the manager that leave the pool alone.
AdjustLook ==
  /\ \/ /\ adj.pc = "loop"
        /\ adj' = IdleAdjust(IF shutdown THEN "exited" ELSE "sample")
     \/ /\ adj.pc = "sample" /\ ~locked
        /\ adj' = [adj EXCEPT !.pc = "samplebusy", !.qsize = queue_size,
                              !.live = live_thr_num]
     \/ /\ adj.pc = "samplebusy"
        /\ adj' = [adj EXCEPT !.busy = busy_thr_num,
                     !.pc = IF WantsGrow(adj.qsize, adj.live) THEN "growlock"
                            ELSE AfterGrow(busy_thr_num, adj.live)]
  /\ UNCHANGED <<queueVars, sizeVars, endVars, busy_thr_num, locked, wpc,
                 task, call, ran>>

AdjustGrowLock ==
  /\ adj.pc = "growlock" /\ ~locked
  /\ locked' = TRUE
  /\ adj' = [adj EXCEPT !.pc = "grow", !.i = 0, !.add = 0]
  /\ UNCHANGED <<queueVars, sizeVars, endVars, busy_thr_num, wpc, task, call,
                 ran>>

Fresh == {w \in Tid : wpc[w] = "unborn"}
GrowMore == /\ adj.i < MaxThr /\ adj.add < Vary /\ live_thr_num < MaxThr
            /\ Fresh # {}                                   \* bound: MaxTid
\* Mutant: any slot is taken for free.
AnySlot(i) == TRUE

SlotFree(i) == ~ \E w \in Tid : threads[i] = w /\ IsThreadAlive(w)

\* pthread_create on slot i: a thread starts, or the call fails unnoticed and
\* the slot keeps what it held or names a thread that is yet to be born.
CreateThread(i) ==
  \/ \E w \in Fresh : /\ \A v \in Fresh : w <= v
                      /\ threads' = [threads EXCEPT ![i] = w]
                      /\ wpc' = [wpc EXCEPT ![w] = "lock"]
  \/ /\ CreateMayFail
     /\ \E v \in Fresh \union {threads[i]} : threads' = [threads EXCEPT ![i] = v]
     /\ UNCHANGED wpc

\* One round of the growing loop, and its end.
AdjustGrow ==
  /\ adj.pc = "grow"
  /\ \/ /\ GrowMore /\ SlotFree(adj.i)
        /\ CreateThread(adj.i)
        /\ live_thr_num' = live_thr_num + 1
        /\ adj' = [adj EXCEPT !.i = @ + 1, !.add = @ + 1]
        /\ UNCHANGED locked
     \/ /\ GrowMore /\ ~SlotFree(adj.i)
        /\ adj' = [adj EXCEPT !.i = @ + 1]
        /\ UNCHANGED <<threads, wpc, live_thr_num, locked>>
     \/ /\ ~GrowMore
        /\ locked' = FALSE
        /\ adj' = [adj EXCEPT !.pc = AfterGrow(adj.busy, adj.live)]
        /\ UNCHANGED <<threads, wpc, live_thr_num>>
  /\ UNCHANGED <<queueVars, endVars, busy_thr_num, wait_exit_thr_num, task,
                 call, ran>>

AdjustShrink ==
  /\ adj.pc = "shrink" /\ ~locked
  /\ wait_exit_thr_num' = Vary
  /\ adj' = [adj EXCEPT !.pc = "signal", !.i = 0]
  /\ UNCHANGED <<queueVars, endVars, threads, live_thr_num, busy_thr_num,
                 locked, wpc, task, call, ran>>

\* Mutant: the counter of the signalling loop is not incremented.
AdjustSignalForever ==
  /\ adj.pc = "signal"
  /\ SignalNotEmpty
  /\ UNCHANGED <<queueVars, sizeVars, endVars, busy_thr_num, locked, task,
                 call, adj, ran>>

AdjustSignal ==
  /\ adj.pc = "signal"
  /\ SignalNotEmpty
  /\ adj' = IF adj.i + 1 < Vary THEN [adj EXCEPT !.i = @ + 1]
                                ELSE IdleAdjust("loop")
  /\ UNCHANGED <<queueVars, sizeVars, endVars, busy_thr_num, locked, task,
                 call, ran>>

-----------------------------------------------------------------------------
(* threadpool_destroy and threadpool_free *)

DestroyMove(from, to, i) ==
  /\ des.pc = from
  /\ des' = [pc |-> to, i |-> i]
  /\ UNCHANGED <<queueVars, sizeVars, busy_thr_num, locked, task, call, adj,
                 ran>>

InCall(t) == call[t] \in {"willwait", "waiting", "woken"}

\* The caller sets shutdown without the mutex.
DestroyCall ==
  /\ AddDuringDestroy \/ \A t \in Tasks : ~InCall(t)
  /\ DestroyMove("none", "joinadjust", 0)
  /\ shutdown' = TRUE
  /\ UNCHANGED <<pool, wpc>>

DestroyJoinAdjust ==
  /\ adj.pc = "exited"
  /\ DestroyMove("joinadjust", "broadcast", 0)
  /\ UNCHANGED <<shutdown, pool, wpc>>

\* for (i = 0; i < live_thr_num; i++), the bound read without the mutex
DestroyBroadcast ==
  /\ \/ /\ des.i < live_thr_num
        /\ DestroyMove("broadcast", "broadcast", des.i + 1)
        /\ BroadcastNotEmpty
     \/ /\ des.i >= live_thr_num
        /\ DestroyMove("broadcast", "join", 0)
        /\ UNCHANGED wpc
  /\ UNCHANGED <<shutdown, pool>>

\* pthread_join returns for a thread that has exited or detached itself.
Joinable(w) == wpc[w] \in {"exited", "detached"}

\* Mutant: the workers are not joined.
DestroyJoinNobody ==
  /\ DestroyMove("join", "free", 0)
  /\ UNCHANGED <<shutdown, pool, wpc>>

DestroyJoin ==
  /\ \/ /\ des.i < live_thr_num
        /\ threads[des.i] # 0 /\ Joinable(threads[des.i])
        /\ DestroyMove("join", "join", des.i + 1)
     \/ /\ des.i >= live_thr_num
        /\ DestroyMove("join", "free", 0)
  /\ UNCHANGED <<shutdown, pool, wpc>>

\* The arrays go first, then the mutex is taken and the struct freed.
DestroyFree ==
  /\ \/ DestroyMove("free", "freepool", 0) /\ pool' = "gutted"
     \/ ~locked /\ DestroyMove("freepool", "done", 0) /\ pool' = "freed"
  /\ UNCHANGED <<shutdown, wpc>>

Destroy == DestroyCall \/ DestroyJoinAdjust \/ DestroyBroadcast \/ DestroyJoin
           \/ DestroyFree
Adjust == \/ AdjustLook \/ AdjustGrowLock \/ AdjustGrow \/ AdjustShrink
          \/ AdjustSignal
Worker(w) == \/ WorkerLock(w) \/ WorkerWait(w) \/ WorkerShrink(w)
             \/ WorkerWake(w) \/ WorkerStart(w) \/ WorkerRun(w)
             \/ WorkerEnd(w) \/ WorkerGone(w)
Add(t) == AddLock(t) \/ AddWait(t)

Returned == des.pc = "done" /\ UNCHANGED vars

\* A thread that is left when the pool is freed goes on as if the memory were
\* intact; NoUseAfterFree tells the states from which that is undefined.
Next ==
  \/ \E t \in Tasks : Add(t)
  \/ \E w \in Tid : Worker(w)
  \/ Spurious
  \/ Adjust
  \/ Destroy
  \/ Returned

Spec == Init /\ [][Next]_vars

-----------------------------------------------------------------------------
(* Scheduling. Every thread that can run does, and pthread_mutex_lock is not *)
(* starved by the other threads; task functions return. Nothing obliges a   *)
(* caller to call threadpool_add or threadpool_destroy, nor a wake-up to be *)
(* spurious.                                                                *)

FairWorker(w) ==
  /\ WF_vars(WorkerWait(w) \/ WorkerStart(w) \/ WorkerRun(w) \/ WorkerEnd(w)
             \/ WorkerGone(w))
  /\ SF_vars(WorkerLock(w) \/ WorkerShrink(w) \/ WorkerWake(w))

FairAdd(t) ==
  /\ WF_vars(AddWait(t))
  /\ SF_vars(call[t] = "woken" /\ AddLock(t))

FairAdjust ==
  /\ WF_vars(AdjustGrow \/ AdjustSignal \/ (adj.pc # "sample" /\ AdjustLook))
  /\ SF_vars(AdjustGrowLock \/ AdjustShrink
             \/ (adj.pc = "sample" /\ AdjustLook))

FairDestroy ==
  /\ WF_vars(DestroyJoinAdjust \/ DestroyBroadcast \/ DestroyJoin)
  /\ SF_vars(DestroyFree)

Fairness == /\ \A w \in Tid : FairWorker(w)
            /\ \A t \in Tasks : FairAdd(t)
            /\ FairAdjust /\ FairDestroy

FairSpec == Spec /\ Fairness

\* The manager needs less: that it runs itself, and that who holds the mutex
\* on the way into a wait lets go of it.
ManagerSpec == /\ Spec /\ FairAdjust
               /\ \A w \in Tid : WF_vars(WorkerWait(w))
               /\ \A t \in Tasks : WF_vars(AddWait(t))

-----------------------------------------------------------------------------
(* Properties *)

RingIndex(i) == (queue_front + i) % QueueMax
Pending == [i \in 1..queue_size |-> task_queue[RingIndex(i - 1)]]
Holding == {w \in Tid : wpc[w] \in {"took", "busy"}}
InTask  == {w \in Tid : wpc[w] \in {"busy", "ran"}}
Counted == {w \in Tid : wpc[w] \notin {"unborn", "shrunk", "exited"}}

\* Every variable keeps its type; live_thr_num and the queue indices never
\* leave the range of the array they bound or index (threadpool.c:31-46).
TypeOK ==
  /\ threads \in [Slot -> 0..MaxTid]
  /\ task_queue \in [Ring -> Tasks \union {NoTask}]
  /\ queue_front \in Ring /\ queue_rear \in Ring
  /\ queue_size \in 0..QueueMax
  /\ live_thr_num \in 0..MaxThr
  /\ busy_thr_num \in Int
  /\ wait_exit_thr_num \in 0..Vary
  /\ shutdown \in BOOLEAN /\ locked \in BOOLEAN
  /\ pool \in {"live", "gutted", "freed"}
  /\ wpc \in [Tid -> WorkerState]
  /\ task \in [Tid -> Tasks \union {NoTask}]
  /\ call \in [Tasks -> CallState]
  /\ adj \in [pc : AdjustState, qsize : 0..QueueMax, live : 0..MaxThr,
              busy : Int, i : Nat, add : Nat]
  /\ des \in [pc : DestroyState, i : Nat]
  /\ ran \in [Tasks -> Nat]

\* live_thr_num never falls below min_thr_num nor passes max_thr_num, although
\* the manager decides to grow or shrink from counts it sampled earlier and
\* workers leave on their own (178, 247-259, 265). It says nothing of the
\* threads themselves where pthread_create fails: they may be fewer.
LiveWithinBounds == MinThr <= live_thr_num /\ live_thr_num <= MaxThr

\* live_thr_num is the number of threads that were created and have not left
\* by the shrinking path (71, 180, 257; "当前存活线程个数", 37).
LiveCountsThreads == live_thr_num = Cardinality(Counted)

\* Whatever pthread_create did, every thread in the pool is counted, so that
\* there are never more than max_thr_num (31, 71, 252-257).
ThreadsCounted == Cardinality(Counted) <= live_thr_num /\ live_thr_num <= MaxThr

\* busy_thr_num is the number of workers between its increment and its
\* decrement, and never exceeds live_thr_num, the two being written under
\* different mutexes and read by the manager at different times (211-222).
BusyCountsWorkers ==
  busy_thr_num = Cardinality(InTask) /\ busy_thr_num <= live_thr_num

\* The three queue indices agree: the rear is queue_size places after the
\* front, so no accepted task is overwritten or read twice (144-147, 197-201).
RingAgrees == queue_rear = RingIndex(queue_size)

\* An accepted task is in the queue, in one worker, or done, in one of these
\* places and once; a task that was not accepted is nowhere.
NoTaskLostOrDuplicated ==
  \A t \in Tasks :
    Cardinality({i \in DOMAIN Pending : Pending[i] = t})
      + Cardinality({w \in Holding : task[w] = t}) + ran[t]
    = IF call[t] = "added" THEN 1 ELSE 0

\* pool->lock is held between two steps by at most one thread, and by one
\* exactly when it is marked held: a worker or a caller on its way into
\* pthread_cond_wait, or the manager in its growing loop.
OneHolder ==
  /\ locked <=> \/ \E w \in Tid : wpc[w] = "willwait"
                \/ \E t \in Tasks : call[t] = "willwait"
                \/ adj.pc = "grow"
  /\ \A w \in Tid : wpc[w] = "willwait" =>
       /\ \A v \in Tid : wpc[v] = "willwait" => v = w
       /\ \A t \in Tasks : call[t] # "willwait"
       /\ adj.pc # "grow"
  /\ \A t \in Tasks : call[t] = "willwait" =>
       /\ \A u \in Tasks : call[u] = "willwait" => u = t
       /\ adj.pc # "grow"

\* threadpool_destroy joins threads[0..live_thr_num-1]: none of these slots is
\* empty, or pthread_join would be given tid 0 (297-299).
JoinsOnlyCreated ==
  des.pc = "join" => \A s \in 0..live_thr_num - 1 : threads[s] # 0

\* When threadpool_free runs, no worker, caller or manager will touch the
\* pool again (300, 305-327).
UsesPool(w) == wpc[w] \in WorkerState \ {"unborn", "shrunk", "stopping",
                                          "exited", "detached"}
NoUseAfterFree ==
  pool # "live" => /\ \A w \in Tid : ~UsesPool(w)
                   /\ \A t \in Tasks : ~InCall(t)
                   /\ adj.pc = "exited"

\* A task in the queue of a running pool always has a worker on its way to
\* it: not all of them are asleep in pthread_cond_wait, or about to be, so no
\* signal of queue_not_empty is lost (150, 168-170).
NotStranded ==
  queue_size > 0 /\ ~shutdown =>
    \E w \in Tid : wpc[w] \in {"lock", "woken", "took", "busy", "ran"}

\* A manager that enters its growing loop below max_thr_num has a slot to
\* create a thread in (246, 251-254), once the threads that left the pool are
\* out of their last critical section: leaving gives the slot back.
GrowHasASlot ==
  adj.pc = "grow" /\ adj.i = 0 /\ live_thr_num < MaxThr =>
    \/ \E i \in Slot : SlotFree(i)
    \/ \E w \in Tid : wpc[w] = "shrunk"

\* Every accepted task is eventually run, in a pool that is not destroyed.
AcceptedRuns == \A t \in Tasks : call[t] = "added" ~> (ran[t] = 1 \/ shutdown)

\* A caller blocked on a full queue is eventually let in (129, 204).
BlockedAddReturns ==
  \A t \in Tasks : InCall(t) ~> (call[t] \in {"added", "refused"} \/ shutdown)

\* threadpool_destroy returns (282-303).
DestroyReturns == shutdown ~> des.pc = "done"

\* The manager stops once the pool is shut down, whatever it was doing, its
\* growing and shrinking included: the first join of threadpool_destroy
\* returns (233, 252-276, 291).
ManagerStops == shutdown ~> adj.pc = "exited"

\* The pool implements the queue of tasks that its header promises.
Abstract == INSTANCE TaskPool WITH
  Task <- Tasks, MaxPending <- QueueMax, MaxRunning <- MaxThr,
  pending <- Pending,
  running <- {task[w] : w \in Holding},
  finished <- {t \in Tasks : ran[t] > 0},
  open <- ~shutdown

ImplementsTaskPool == Abstract!PSpec

=============================================================================
