-------------------------- MODULE ThreadPoolProofs --------------------------
(* Theorems about ThreadPool for every number of tasks, threads and places   *)
(* in the queue: the types, the ring, the mutex and the wake-ups, the        *)
(* threads against the two counters and against the slots of the array, in a *)
(* pool of fixed size what is left when the memory is freed, and a task from *)
(* the call that submits it to its end, which is how TaskPool is refined.    *)
EXTENDS ThreadPool, Sequences, TLAPS, FiniteSetTheorems, SequenceTheorems

\* The next place of the ring is a place of the ring.
LEMMA RingStep ==
  ASSUME NEW x \in Ring
  PROVE  (x + 1) % QueueMax \in Ring
  BY PoolAssumption DEF Ring

\* The threads threadpool_create starts with, and what it leaves in the slots.
LEMMA InitThreads ==
  ASSUME Init
  PROVE  \E created \in SUBSET (0..MinThr - 1) :
           /\ threads \in [Slot -> 0..MaxTid]
           /\ \A s \in Slot : threads[s] \in FirstIds(s, created)
           /\ wpc = [w \in Tid |-> IF w - 1 \in created THEN "lock"
                                                      ELSE "unborn"]
           /\ ~CreateMayFail => created = 0..MinThr - 1
<1>1. CASE CreateMayFail
  BY <1>1 DEF Init
<1>2. CASE ~CreateMayFail
  BY <1>2 DEF Init
<1> QED BY <1>1, <1>2

\* Where no creation fails, slot s has thread s + 1 or nothing.
LEMMA InitSlots ==
  ASSUME Init, ~CreateMayFail
  PROVE  /\ \A s \in Slot : threads[s] = IF s < MinThr THEN s + 1 ELSE 0
         /\ \A w \in Tid : wpc[w] = IF w <= MinThr THEN "lock" ELSE "unborn"
<1>1. /\ \A s \in Slot : threads[s] \in FirstIds(s, 0..MinThr - 1)
      /\ wpc = [w \in Tid |-> IF w - 1 \in 0..MinThr - 1 THEN "lock"
                                                        ELSE "unborn"]
  BY InitThreads
<1>2. ASSUME NEW s \in Slot
      PROVE  threads[s] = IF s < MinThr THEN s + 1 ELSE 0
  <2>1. s \in Int /\ 0 <= s /\ MinThr \in Int
    BY PoolAssumption DEF Slot
  <2>2. CASE s < MinThr
    <3>1. s \in 0..MinThr - 1
      BY <2>1, <2>2
    <3> QED BY <1>1, <2>2, <3>1 DEF FirstIds
  <2>3. CASE ~(s < MinThr)
    <3>1. s \notin 0..MinThr - 1
      BY <2>1, <2>3
    <3> QED BY <1>1, <2>3, <3>1 DEF FirstIds
  <2> QED BY <2>2, <2>3
<1>3. \A w \in Tid : wpc[w] = IF w <= MinThr THEN "lock" ELSE "unborn"
  BY <1>1, PoolAssumption DEF Tid
<1> QED BY <1>2, <1>3

LEMMA InitTypeOK == Init => TypeOK
<1> SUFFICES ASSUME Init PROVE TypeOK
  OBVIOUS
<1> USE PoolAssumption
<1>1. PICK created \in SUBSET (0..MinThr - 1) :
        /\ threads \in [Slot -> 0..MaxTid]
        /\ wpc = [w \in Tid |-> IF w - 1 \in created THEN "lock" ELSE "unborn"]
  BY InitThreads
<1>2. threads \in [Slot -> 0..MaxTid]
  BY <1>1
<1>3. wpc \in [Tid -> WorkerState]
  BY <1>1 DEF WorkerState
<1>4. adj \in [pc : AdjustState, qsize : 0..QueueMax, live : 0..MaxThr,
               busy : Int, i : Nat, add : Nat]
  BY DEF Init, IdleAdjust, AdjustState
<1>5. /\ task_queue \in [Ring -> Tasks \union {NoTask}]
      /\ task \in [Tid -> Tasks \union {NoTask}]
      /\ call \in [Tasks -> CallState]
      /\ ran \in [Tasks -> Nat]
      /\ des \in [pc : DestroyState, i : Nat]
  BY DEF Init, CallState, DestroyState
<1>6. /\ queue_front = 0 /\ queue_rear = 0 /\ queue_size = 0
      /\ live_thr_num = MinThr /\ busy_thr_num = 0 /\ wait_exit_thr_num = 0
      /\ shutdown = FALSE /\ locked = FALSE /\ pool = "live"
  BY DEF Init
<1>7. /\ queue_front \in Ring /\ queue_rear \in Ring
      /\ queue_size \in 0..QueueMax
      /\ live_thr_num \in 0..MaxThr
      /\ busy_thr_num \in Int
      /\ wait_exit_thr_num \in 0..Vary
  BY <1>6 DEF Ring
<1>8. /\ shutdown \in BOOLEAN /\ locked \in BOOLEAN
      /\ pool \in {"live", "gutted", "freed"}
  BY <1>6
<1> QED BY <1>2, <1>3, <1>4, <1>5, <1>7, <1>8 DEF TypeOK

LEMMA SignalType ==
  ASSUME TypeOK, SignalNotEmpty \/ BroadcastNotEmpty
  PROVE  wpc' \in [Tid -> WorkerState]
  BY DEF TypeOK, SignalNotEmpty, BroadcastNotEmpty, Sleepers, WorkerState

LEMMA AddLockType ==
  ASSUME TypeOK, NEW t \in Tasks, AddLock(t)
  PROVE  TypeOK'
<1> USE DEF TypeOK
<1>1. UNCHANGED <<sizeVars, endVars, busy_thr_num, task, adj, ran>>
  BY DEF AddLock
<1>2. CASE /\ MustWaitFull
           /\ call' = [call EXCEPT ![t] = "willwait"]
           /\ locked' = TRUE
           /\ UNCHANGED <<queueVars, wpc>>
  BY <1>1, <1>2 DEF CallState, queueVars, sizeVars, endVars
<1>3. CASE /\ shutdown
           /\ BroadcastNotEmpty
           /\ call' = [call EXCEPT ![t] = "refused"]
           /\ UNCHANGED <<queueVars, locked>>
  BY <1>1, <1>3, SignalType DEF CallState, queueVars, sizeVars, endVars
<1>4. CASE /\ ~MustWaitFull /\ ~shutdown
           /\ Enqueue(t)
           /\ SignalNotEmpty
           /\ call' = [call EXCEPT ![t] = "added"]
           /\ UNCHANGED locked
  <2>1. /\ task_queue' \in [Ring -> Tasks \union {NoTask}]
        /\ queue_rear' \in Ring /\ queue_front' \in Ring
        /\ queue_size' \in 0..QueueMax
    BY <1>4, RingStep, PoolAssumption DEF Enqueue, MustWaitFull
  <2> QED BY <1>1, <1>4, <2>1, SignalType DEF CallState, sizeVars, endVars
<1> QED BY <1>2, <1>3, <1>4 DEF AddLock, AddBody

LEMMA AddWaitType ==
  ASSUME TypeOK, NEW t \in Tasks, AddWait(t)
  PROVE  TypeOK'
  BY DEF TypeOK, AddWait, CallState, queueVars, sizeVars, endVars

\* The body of a worker's loop, with the frame of the two actions it ends.
LEMMA WorkerBodyType ==
  ASSUME TypeOK, NEW w \in Tid, WorkerBody(w)
  PROVE  /\ task_queue' \in [Ring -> Tasks \union {NoTask}]
         /\ queue_rear' \in Ring /\ queue_front' \in Ring
         /\ queue_size' \in 0..QueueMax
         /\ locked' \in BOOLEAN
         /\ wpc' \in [Tid -> WorkerState]
         /\ task' \in [Tid -> Tasks \union {NoTask}]
         /\ call' \in [Tasks -> CallState]
<1> USE DEF TypeOK
<1>1. CASE /\ MustWaitEmpty
           /\ wpc' = [wpc EXCEPT ![w] = "willwait"]
           /\ locked' = TRUE
           /\ UNCHANGED <<queueVars, task, call>>
  BY <1>1 DEF WorkerState, queueVars
<1>2. CASE /\ shutdown
           /\ wpc' = [wpc EXCEPT ![w] = "stopping"]
           /\ UNCHANGED <<queueVars, task, call, locked>>
  BY <1>2 DEF WorkerState, queueVars
<1>3. CASE /\ ~MustWaitEmpty /\ ~shutdown
           /\ Dequeue(w)
           /\ BroadcastNotFull
           /\ wpc' = [wpc EXCEPT ![w] = "took"]
           /\ UNCHANGED locked
  <2>1. call' \in [Tasks -> CallState]
    BY <1>3 DEF BroadcastNotFull, CallState
  <2>2. /\ task_queue' \in [Ring -> Tasks \union {NoTask}]
        /\ queue_rear' \in Ring /\ queue_front' \in Ring
        /\ queue_size' \in 0..QueueMax
        /\ task' \in [Tid -> Tasks \union {NoTask}]
    BY <1>3, RingStep, PoolAssumption DEF Dequeue, MustWaitEmpty
  <2> QED BY <1>3, <2>1, <2>2 DEF WorkerState
<1> QED BY <1>1, <1>2, <1>3 DEF WorkerBody

LEMMA WorkerType ==
  ASSUME TypeOK, NEW w \in Tid, Worker(w)
  PROVE  TypeOK'
<1>1. CASE WorkerLock(w)
  BY <1>1, WorkerBodyType DEF TypeOK, WorkerLock, sizeVars, endVars
<1>2. CASE WorkerWait(w)
  BY <1>2 DEF TypeOK, WorkerWait, WorkerState, queueVars, sizeVars, endVars
<1>3. CASE WorkerShrink(w)
  <2>1. live_thr_num' \in 0..MaxThr /\ wait_exit_thr_num' \in 0..Vary
    BY <1>3, PoolAssumption DEF TypeOK, WorkerShrink, AsksToExit, MayLeave
  <2> QED BY <1>3, <2>1 DEF TypeOK, WorkerShrink, WorkerState, queueVars, endVars
<1>4. CASE WorkerWake(w)
  <2>1. wait_exit_thr_num' \in 0..Vary
    BY <1>4, PoolAssumption DEF TypeOK, WorkerWake
  <2> QED BY <1>4, <2>1, WorkerBodyType DEF TypeOK, WorkerWake, endVars
<1>5. CASE WorkerStart(w)
  BY <1>5 DEF TypeOK, WorkerStart, WorkerMove, WorkerState, queueVars, sizeVars,
     endVars
<1>6. CASE WorkerRun(w)
  BY <1>6 DEF TypeOK, WorkerRun, WorkerMove, WorkerState, queueVars, sizeVars,
     endVars
<1>7. CASE WorkerEnd(w)
  BY <1>7 DEF TypeOK, WorkerEnd, WorkerMove, WorkerState, queueVars, sizeVars,
     endVars
<1>8. CASE WorkerGone(w)
  BY <1>8 DEF TypeOK, WorkerGone, WorkerMove, WorkerState, queueVars, sizeVars,
     endVars
<1> QED BY <1>1, <1>2, <1>3, <1>4, <1>5, <1>6, <1>7, <1>8 DEF Worker

LEMMA SpuriousType ==
  ASSUME TypeOK, Spurious
  PROVE  TypeOK'
  BY DEF TypeOK, Spurious, Sleepers, WorkerState, CallState, queueVars,
     sizeVars, endVars

LEMMA AdjustType ==
  ASSUME TypeOK, Adjust
  PROVE  TypeOK'
<1> DEFINE AdjType == [pc : AdjustState, qsize : 0..QueueMax, live : 0..MaxThr,
                       busy : Int, i : Nat, add : Nat]
<1> USE PoolAssumption
<1>0. \A pc \in AdjustState : IdleAdjust(pc) \in AdjType
  BY DEF IdleAdjust
<1>a. \A b, l : AfterGrow(b, l) \in AdjustState
  BY DEF AfterGrow, AdjustState
<1>1. CASE AdjustLook
  <2>1. ASSUME adj' = IdleAdjust(IF shutdown THEN "exited" ELSE "sample")
        PROVE  adj' \in AdjType
    BY <1>0, <2>1 DEF AdjustState
  <2>2. ASSUME adj' = [adj EXCEPT !.pc = "samplebusy", !.qsize = queue_size,
                                  !.live = live_thr_num]
        PROVE  adj' \in AdjType
    BY <2>2 DEF TypeOK, AdjustState
  <2>3. ASSUME adj' = [adj EXCEPT !.busy = busy_thr_num,
                         !.pc = IF WantsGrow(adj.qsize, adj.live) THEN "growlock"
                                ELSE AfterGrow(busy_thr_num, adj.live)]
        PROVE  adj' \in AdjType
    <3>1. (IF WantsGrow(adj.qsize, adj.live) THEN "growlock"
           ELSE AfterGrow(busy_thr_num, adj.live)) \in AdjustState
      BY <1>a DEF AdjustState
    <3> QED BY <2>3, <3>1 DEF TypeOK
  <2>4. adj' \in AdjType
    BY <1>1, <2>1, <2>2, <2>3 DEF AdjustLook
  <2> QED BY <1>1, <2>4 DEF TypeOK, AdjustLook, queueVars, sizeVars, endVars
<1>2. CASE AdjustGrowLock
  BY <1>2 DEF TypeOK, AdjustGrowLock, AdjustState, queueVars, sizeVars, endVars
<1>3. CASE AdjustGrow
  <2>1. adj' \in AdjType
    <3>1. \/ adj' = [adj EXCEPT !.i = @ + 1, !.add = @ + 1]
          \/ adj' = [adj EXCEPT !.i = @ + 1]
          \/ adj' = [adj EXCEPT !.pc = AfterGrow(adj.busy, adj.live)]
      BY <1>3 DEF AdjustGrow
    <3>2. AfterGrow(adj.busy, adj.live) \in AdjustState
      BY <1>a
    <3>3. adj \in AdjType
      BY DEF TypeOK
    <3> HIDE DEF AdjType
    <3>4. CASE adj' = [adj EXCEPT !.pc = AfterGrow(adj.busy, adj.live)]
      BY <3>2, <3>3, <3>4 DEF AdjType
    <3>5. CASE adj' = [adj EXCEPT !.i = @ + 1]
      BY <3>3, <3>5 DEF AdjType
    <3>6. CASE adj' = [adj EXCEPT !.i = @ + 1, !.add = @ + 1]
      <4>1. adj.i + 1 \in Nat /\ adj.add + 1 \in Nat
        BY <3>3 DEF AdjType
      <4> QED BY <3>3, <3>6, <4>1 DEF AdjType
    <3> QED BY <3>1, <3>4, <3>5, <3>6
  <2>2. ASSUME GrowMore, CreateThread(adj.i), live_thr_num' = live_thr_num + 1,
               UNCHANGED locked
        PROVE  TypeOK'
    <3>1. threads' \in [Slot -> 0..MaxTid] /\ wpc' \in [Tid -> WorkerState]
      <4>1. ASSUME NEW v \in Fresh \union {threads[adj.i]},
                   threads' = [threads EXCEPT ![adj.i] = v], UNCHANGED wpc
            PROVE  threads' \in [Slot -> 0..MaxTid]
                   /\ wpc' \in [Tid -> WorkerState]
        <5>1. adj.i \in Slot
          BY <2>2 DEF GrowMore, TypeOK, Slot
        <5>2. v \in 0..MaxTid
          BY <5>1 DEF Fresh, Tid, TypeOK
        <5> QED BY <4>1, <5>2 DEF TypeOK
      <4>2. ASSUME NEW w \in Fresh,
                   threads' = [threads EXCEPT ![adj.i] = w],
                   wpc' = [wpc EXCEPT ![w] = "lock"]
            PROVE  threads' \in [Slot -> 0..MaxTid]
                   /\ wpc' \in [Tid -> WorkerState]
        <5>1. w \in 0..MaxTid /\ w \in Tid
          BY DEF Fresh, Tid
        <5>2. threads' \in [Slot -> 0..MaxTid]
          BY <4>2, <5>1 DEF TypeOK
        <5>3. wpc' \in [Tid -> WorkerState]
          BY <4>2, <5>1 DEF TypeOK, WorkerState
        <5> QED BY <5>2, <5>3
      <4>3. \/ /\ \E v \in Fresh \union {threads[adj.i]} :
                       threads' = [threads EXCEPT ![adj.i] = v]
               /\ UNCHANGED wpc
            \/ \E w \in Fresh : /\ threads' = [threads EXCEPT ![adj.i] = w]
                               /\ wpc' = [wpc EXCEPT ![w] = "lock"]
        BY <2>2 DEF CreateThread
      <4> QED BY <4>1, <4>2, <4>3
    <3>2. live_thr_num' \in 0..MaxThr
      BY <2>2 DEF TypeOK, GrowMore
    <3> QED BY <1>3, <2>1, <2>2, <3>1, <3>2
            DEF TypeOK, AdjustGrow, queueVars, endVars
  <2>3. ASSUME UNCHANGED <<threads, wpc, live_thr_num>>,
               locked' = FALSE \/ UNCHANGED locked
        PROVE  TypeOK'
    BY <1>3, <2>1, <2>3 DEF TypeOK, AdjustGrow, queueVars, endVars
  <2> QED BY <1>3, <2>2, <2>3 DEF AdjustGrow
<1>4. CASE AdjustShrink
  <2>1. adj' \in AdjType
    BY <1>4 DEF TypeOK, AdjustShrink, AdjustState
  <2>2. wait_exit_thr_num' \in 0..Vary
    BY <1>4 DEF AdjustShrink
  <2> QED BY <1>4, <2>1, <2>2 DEF TypeOK, AdjustShrink, queueVars, endVars
<1>5. CASE AdjustSignal
  <2>1. adj' \in AdjType
    BY <1>0, <1>5 DEF TypeOK, AdjustSignal, AdjustState
  <2> QED BY <1>5, <2>1, SignalType
          DEF TypeOK, AdjustSignal, queueVars, sizeVars, endVars
<1> QED BY <1>1, <1>2, <1>3, <1>4, <1>5 DEF Adjust

LEMMA DestroyType ==
  ASSUME TypeOK, Destroy
  PROVE  TypeOK'
<1> USE DEF TypeOK, DestroyMove, DestroyState, queueVars, sizeVars
<1>1. CASE DestroyCall
  BY <1>1 DEF DestroyCall
<1>2. CASE DestroyJoinAdjust
  BY <1>2 DEF DestroyJoinAdjust
<1>3. CASE DestroyBroadcast
  BY <1>3, SignalType DEF DestroyBroadcast
<1>4. CASE DestroyJoin
  BY <1>4 DEF DestroyJoin
<1>5. CASE DestroyFree
  BY <1>5 DEF DestroyFree
<1> QED BY <1>1, <1>2, <1>3, <1>4, <1>5 DEF Destroy

\* Every variable keeps its type, and with it queue_size and live_thr_num the
\* range of the array they count the entries of.
THEOREM TypeCorrect == Spec => []TypeOK
<1>1. Init => TypeOK
  BY InitTypeOK
<1>2. TypeOK /\ [Next]_vars => TypeOK'
  <2> SUFFICES ASSUME TypeOK, [Next]_vars PROVE TypeOK'
    OBVIOUS
  <2>1. CASE UNCHANGED vars
    BY <2>1 DEF TypeOK, vars, queueVars, sizeVars, endVars
  <2>2. CASE Next
    BY <2>1, <2>2, AddLockType, AddWaitType, WorkerType, SpuriousType,
       AdjustType, DestroyType DEF Next, Add, Returned
  <2> QED BY <2>1, <2>2
<1> QED BY <1>1, <1>2, PTL DEF Spec

-----------------------------------------------------------------------------
\* live_thr_num moves by one, and only away from the bound it is tested for.
LEMMA LiveStep ==
  ASSUME TypeOK, [Next]_vars
  PROVE  \/ live_thr_num' = live_thr_num
         \/ live_thr_num > MinThr /\ live_thr_num' = live_thr_num - 1
         \/ live_thr_num < MaxThr /\ live_thr_num' = live_thr_num + 1
<1> USE DEF sizeVars, endVars
<1>1. CASE UNCHANGED vars
  BY <1>1 DEF vars
<1>2. CASE \E t \in Tasks : Add(t)
  BY <1>2 DEF Add, AddLock, AddWait
<1>3. ASSUME NEW w \in Tid, Worker(w)
      PROVE  \/ live_thr_num' = live_thr_num
             \/ live_thr_num > MinThr /\ live_thr_num' = live_thr_num - 1
  <2>1. CASE WorkerShrink(w)
    BY <2>1 DEF WorkerShrink, AsksToExit, MayLeave
  <2>2. CASE WorkerLock(w) \/ WorkerWait(w) \/ WorkerWake(w)
    BY <2>2 DEF WorkerLock, WorkerWait, WorkerWake
  <2>3. CASE WorkerStart(w) \/ WorkerRun(w) \/ WorkerEnd(w) \/ WorkerGone(w)
    BY <2>3 DEF WorkerStart, WorkerRun, WorkerEnd, WorkerGone, WorkerMove
  <2> QED BY <1>3, <2>1, <2>2, <2>3 DEF Worker
<1>4. CASE Spurious
  BY <1>4 DEF Spurious
<1>5. CASE Adjust
  BY <1>5 DEF Adjust, AdjustLook, AdjustGrowLock, AdjustGrow, GrowMore,
     AdjustShrink, AdjustSignal
<1>6. CASE Destroy
  BY <1>6 DEF Destroy, DestroyMove, DestroyCall, DestroyJoinAdjust,
     DestroyBroadcast, DestroyJoin, DestroyFree
<1> QED BY <1>1, <1>2, <1>3, <1>4, <1>5, <1>6 DEF Next, Returned

\* live_thr_num stays between min_thr_num and max_thr_num, although the manager
\* decides on counts it sampled earlier: each step tests the bound in the
\* critical section that moves the counter.
THEOREM LiveBounded == Spec => []LiveWithinBounds
<1>1. Init => LiveWithinBounds
  BY PoolAssumption DEF Init, LiveWithinBounds
<1>2. TypeOK /\ LiveWithinBounds /\ [Next]_vars => LiveWithinBounds'
  BY LiveStep, PoolAssumption DEF TypeOK, LiveWithinBounds
<1> QED BY <1>1, <1>2, TypeCorrect, PTL DEF Spec

-----------------------------------------------------------------------------
LEMMA ModWrap ==
  ASSUME NEW q \in Nat \ {0}, NEW x \in Nat, q <= x, x < q + q
  PROVE  x % q = x - q
  OBVIOUS

\* Addition modulo the length of the ring, on the values it is used for.
LEMMA RingValue ==
  ASSUME NEW f \in Ring, NEW n \in 0..QueueMax
  PROVE  (f + n) % QueueMax = IF f + n < QueueMax THEN f + n
                                                 ELSE (f + n) - QueueMax
<1>1. CASE f + n < QueueMax
  <2>1. f + n \in 0..QueueMax - 1
    BY <1>1, PoolAssumption DEF Ring
  <2> QED BY <1>1, <2>1, PoolAssumption
<1>2. CASE f + n >= QueueMax
  <2>1. f + n \in Nat /\ QueueMax <= f + n /\ f + n < QueueMax + QueueMax
    BY <1>2, PoolAssumption DEF Ring
  <2>2. QueueMax \in Nat \ {0}
    BY PoolAssumption
  <2>3. (f + n) % QueueMax = (f + n) - QueueMax
    BY <2>1, <2>2, ModWrap
  <2>4. ~(f + n < QueueMax)
    BY <1>2, <2>2 DEF Ring
  <2> QED BY <2>3, <2>4
<1> QED BY <1>1, <1>2, PoolAssumption DEF Ring

\* Putting a task in keeps the three indices of the ring in agreement.
LEMMA EnqueueAgrees ==
  ASSUME TypeOK, RingAgrees, NEW t \in Tasks, Enqueue(t), queue_size < QueueMax
  PROVE  RingAgrees'
<1> DEFINE f == queue_front  n == queue_size  r == queue_rear
<1>1. f \in Ring /\ n \in 0..QueueMax /\ n + 1 \in 0..QueueMax /\ r \in Ring
      /\ 1 \in 0..QueueMax
  BY PoolAssumption DEF TypeOK
<1>2. r = IF f + n < QueueMax THEN f + n ELSE (f + n) - QueueMax
  BY <1>1, RingValue DEF RingAgrees, RingIndex
<1>3. (r + 1) % QueueMax = IF r + 1 < QueueMax THEN r + 1 ELSE (r + 1) - QueueMax
  BY <1>1, RingValue
<1>4. (f + (n + 1)) % QueueMax = IF f + (n + 1) < QueueMax THEN f + (n + 1)
                                 ELSE (f + (n + 1)) - QueueMax
  BY <1>1, RingValue
<1>5. (r + 1) % QueueMax = (f + (n + 1)) % QueueMax
  BY <1>1, <1>2, <1>3, <1>4, PoolAssumption DEF Ring
<1> QED BY <1>5 DEF Enqueue, RingAgrees, RingIndex

\* Taking a task out does too.
LEMMA DequeueAgrees ==
  ASSUME TypeOK, RingAgrees, NEW w \in Tid, Dequeue(w), queue_size > 0
  PROVE  RingAgrees'
<1> DEFINE f == queue_front  n == queue_size  g == (f + 1) % QueueMax
<1>1. f \in Ring /\ n \in 0..QueueMax /\ n - 1 \in 0..QueueMax /\ n > 0
      /\ 1 \in 0..QueueMax /\ g \in Ring
  BY RingStep, PoolAssumption DEF TypeOK
<1>2. (f + n) % QueueMax = IF f + n < QueueMax THEN f + n ELSE (f + n) - QueueMax
  BY <1>1, RingValue
<1>3. g = IF f + 1 < QueueMax THEN f + 1 ELSE (f + 1) - QueueMax
  BY <1>1, RingValue
<1> HIDE DEF g
<1>4. (g + (n - 1)) % QueueMax = IF g + (n - 1) < QueueMax THEN g + (n - 1)
                                 ELSE (g + (n - 1)) - QueueMax
  BY <1>1, RingValue
<1>5. (f + n) % QueueMax = (g + (n - 1)) % QueueMax
  BY <1>1, <1>2, <1>3, <1>4, PoolAssumption DEF Ring
<1> QED BY <1>5 DEF g, Dequeue, RingAgrees, RingIndex

\* The indices of the ring always agree with the number of tasks in it.
THEOREM RingCorrect == Spec => []RingAgrees
<1>1. Init => RingAgrees
  BY PoolAssumption DEF Init, RingAgrees, RingIndex
<1>2. TypeOK /\ RingAgrees /\ [Next]_vars => RingAgrees'
  <2> SUFFICES ASSUME TypeOK, RingAgrees, [Next]_vars PROVE RingAgrees'
    OBVIOUS
  <2>1. CASE UNCHANGED queueVars
    BY <2>1 DEF queueVars, RingAgrees, RingIndex
  <2>2. ASSUME NEW t \in Tasks, Add(t) PROVE RingAgrees'
    <3>1. CASE ~MustWaitFull /\ ~shutdown /\ Enqueue(t)
      <4>1. queue_size < QueueMax
        BY <3>1, PoolAssumption DEF TypeOK, MustWaitFull
      <4> QED BY <3>1, <4>1, EnqueueAgrees
    <3>2. CASE AddLock(t)
      BY <2>1, <3>1, <3>2 DEF AddLock, AddBody
    <3>3. CASE AddWait(t)
      BY <2>1, <3>3 DEF AddWait
    <3> QED BY <2>2, <3>2, <3>3 DEF Add
  <2>3. ASSUME NEW w \in Tid, Worker(w) PROVE RingAgrees'
    <3>1. CASE ~MustWaitEmpty /\ ~shutdown /\ Dequeue(w)
      <4>1. queue_size > 0
        BY <3>1 DEF TypeOK, MustWaitEmpty
      <4> QED BY <3>1, <4>1, DequeueAgrees
    <3>2. CASE WorkerBody(w)
      BY <2>1, <3>1, <3>2 DEF WorkerBody
    <3>3. CASE WorkerLock(w) \/ WorkerWake(w)
      BY <3>2, <3>3 DEF WorkerLock, WorkerWake
    <3>4. CASE WorkerWait(w) \/ WorkerShrink(w)
      BY <2>1, <3>4 DEF WorkerWait, WorkerShrink
    <3>5. CASE WorkerStart(w) \/ WorkerRun(w) \/ WorkerEnd(w) \/ WorkerGone(w)
      BY <2>1, <3>5 DEF WorkerStart, WorkerRun, WorkerEnd, WorkerGone, WorkerMove
    <3> QED BY <2>3, <3>3, <3>4, <3>5 DEF Worker
  <2>4. CASE Spurious
    BY <2>1, <2>4 DEF Spurious
  <2>5. CASE Adjust
    BY <2>1, <2>5 DEF Adjust, AdjustLook, AdjustGrowLock, AdjustGrow,
       AdjustShrink, AdjustSignal
  <2>6. CASE Destroy
    BY <2>1, <2>6 DEF Destroy, DestroyMove, DestroyCall, DestroyJoinAdjust,
       DestroyBroadcast, DestroyJoin, DestroyFree
  <2> QED BY <2>1, <2>2, <2>3, <2>4, <2>5, <2>6 DEF Next, Returned, vars
<1> QED BY <1>1, <1>2, TypeCorrect, PTL DEF Spec

-----------------------------------------------------------------------------
\* Nobody holds a mutex that is not marked held.
LEMMA FreeMutex ==
  ASSUME OneHolder, ~locked
  PROVE  /\ \A w \in Tid : wpc[w] # "willwait"
         /\ \A t \in Tasks : call[t] # "willwait"
         /\ adj.pc # "grow"
  BY DEF OneHolder

\* Signals and broadcasts put nobody on its way into pthread_cond_wait.
LEMMA WakeKeepsHolders ==
  ASSUME TypeOK, SignalNotEmpty \/ BroadcastNotEmpty
  PROVE  \A w \in Tid : wpc'[w] = "willwait" <=> wpc[w] = "willwait"
  BY DEF TypeOK, SignalNotEmpty, BroadcastNotEmpty, Sleepers

\* A step that moves no holder and does not touch the mark keeps OneHolder.
LEMMA SameHolders ==
  ASSUME OneHolder,
         locked' = locked,
         \A w \in Tid : wpc'[w] = "willwait" <=> wpc[w] = "willwait",
         \A t \in Tasks : call'[t] = "willwait" <=> call[t] = "willwait",
         adj'.pc = "grow" <=> adj.pc = "grow"
  PROVE  OneHolder'
  BY DEF OneHolder

LEMMA AddHolder ==
  ASSUME TypeOK, OneHolder, NEW t \in Tasks, Add(t)
  PROVE  OneHolder'
<1>1. CASE AddLock(t)
  <2>1. adj' = adj /\ ~locked
    BY <1>1 DEF AddLock
  <2>2. CASE /\ MustWaitFull
             /\ call' = [call EXCEPT ![t] = "willwait"]
             /\ locked' = TRUE
             /\ UNCHANGED <<queueVars, wpc>>
    BY <2>1, <2>2, FreeMutex DEF OneHolder, TypeOK
  <2>3. CASE /\ call' = [call EXCEPT ![t] = "refused"] \/
                call' = [call EXCEPT ![t] = "added"]
             /\ SignalNotEmpty \/ BroadcastNotEmpty
             /\ UNCHANGED locked
    <3>1. \A u \in Tasks : call'[u] = "willwait" <=> call[u] = "willwait"
      BY <2>1, <2>3, FreeMutex DEF TypeOK
    <3> QED BY <2>1, <2>3, <3>1, WakeKeepsHolders, SameHolders
  <2> QED BY <1>1, <2>2, <2>3 DEF AddLock, AddBody
<1>2. CASE AddWait(t)
  BY <1>2 DEF AddWait, OneHolder, TypeOK
<1> QED BY <1>1, <1>2 DEF Add

LEMMA WorkerBodyHolder ==
  ASSUME TypeOK, OneHolder, NEW w \in Tid, ~locked, WorkerBody(w), adj' = adj
  PROVE  OneHolder'
<1>1. CASE /\ MustWaitEmpty
           /\ wpc' = [wpc EXCEPT ![w] = "willwait"]
           /\ locked' = TRUE
           /\ UNCHANGED <<queueVars, task, call>>
  BY <1>1, FreeMutex DEF OneHolder, TypeOK
<1>2. CASE /\ wpc' = [wpc EXCEPT ![w] = "stopping"] \/
              wpc' = [wpc EXCEPT ![w] = "took"]
           /\ BroadcastNotFull \/ UNCHANGED call
           /\ UNCHANGED locked
  <2>1. \A v \in Tid : wpc'[v] = "willwait" <=> wpc[v] = "willwait"
    BY <1>2, FreeMutex DEF TypeOK
  <2>2. \A t \in Tasks : call'[t] = "willwait" <=> call[t] = "willwait"
    BY <1>2 DEF TypeOK, BroadcastNotFull
  <2> QED BY <1>2, <2>1, <2>2, SameHolders
<1> QED BY <1>1, <1>2 DEF WorkerBody

LEMMA WorkerHolder ==
  ASSUME TypeOK, OneHolder, NEW w \in Tid, Worker(w)
  PROVE  OneHolder'
<1>1. CASE WorkerLock(w) \/ WorkerWake(w)
  BY <1>1, WorkerBodyHolder DEF WorkerLock, WorkerWake
<1>2. CASE WorkerWait(w)
  BY <1>2 DEF WorkerWait, OneHolder, TypeOK
<1>3. CASE WorkerShrink(w)
  <2>1. /\ wpc' = [wpc EXCEPT ![w] = "shrunk"] /\ wpc[w] = "woken"
        /\ UNCHANGED <<locked, call, adj>>
    BY <1>3 DEF WorkerShrink
  <2> QED BY <2>1, SameHolders DEF TypeOK
<1>4. CASE WorkerStart(w) \/ WorkerRun(w) \/ WorkerEnd(w) \/ WorkerGone(w)
  <2>1. /\ \E to \in {"busy", "ran", "lock", "exited", "detached"} :
             wpc' = [wpc EXCEPT ![w] = to]
        /\ wpc[w] # "willwait"
        /\ UNCHANGED <<locked, call, adj>>
    BY <1>4 DEF WorkerStart, WorkerRun, WorkerEnd, WorkerGone, WorkerMove
  <2> QED BY <2>1, SameHolders DEF TypeOK
<1> QED BY <1>1, <1>2, <1>3, <1>4 DEF Worker

LEMMA AdjustHolder ==
  ASSUME TypeOK, OneHolder, Adjust
  PROVE  OneHolder'
<1>1. CASE AdjustLook
  <2>1. /\ adj'.pc # "grow" /\ adj.pc # "grow"
        /\ UNCHANGED <<locked, wpc, call>>
    <3>1. CASE adj.pc = "loop" /\ adj' = IdleAdjust(IF shutdown THEN "exited"
                                                              ELSE "sample")
      BY <1>1, <3>1 DEF AdjustLook, IdleAdjust
    <3>2. CASE adj.pc = "sample" /\ adj'.pc = "samplebusy"
      BY <1>1, <3>2 DEF AdjustLook
    <3>3. CASE adj.pc = "samplebusy"
               /\ adj'.pc \in {"growlock", "shrink", "loop"}
      BY <1>1, <3>3 DEF AdjustLook
    <3> QED BY <1>1, <3>1, <3>2, <3>3 DEF AdjustLook, AfterGrow, TypeOK
  <2> QED BY <2>1, SameHolders
<1>2. CASE AdjustGrowLock
  BY <1>2, FreeMutex DEF AdjustGrowLock, OneHolder, TypeOK
<1>3. CASE AdjustGrow
  <2>1. /\ \A w \in Tid : wpc[w] # "willwait"
        /\ \A t \in Tasks : call[t] # "willwait"
        /\ locked /\ adj.pc = "grow"
    BY <1>3 DEF AdjustGrow, OneHolder
  <2>2. \A w \in Tid : wpc'[w] # "willwait"
    <3>1. CASE \E w \in Fresh : wpc' = [wpc EXCEPT ![w] = "lock"]
      BY <2>1, <3>1 DEF TypeOK
    <3> QED BY <1>3, <2>1, <3>1 DEF AdjustGrow, CreateThread
  <2>3. call' = call
    BY <1>3 DEF AdjustGrow
  <2>4. \/ adj'.pc = "grow" /\ locked' = locked
        \/ adj'.pc # "grow" /\ locked' = FALSE
    BY <1>3 DEF AdjustGrow, AfterGrow, TypeOK
  <2> QED BY <2>1, <2>2, <2>3, <2>4 DEF OneHolder
<1>4. CASE AdjustShrink
  <2>1. /\ adj'.pc # "grow" /\ adj.pc # "grow"
        /\ UNCHANGED <<locked, wpc, call>>
    BY <1>4 DEF AdjustShrink, TypeOK
  <2> QED BY <2>1, SameHolders
<1>5. CASE AdjustSignal
  <2>1. /\ adj'.pc # "grow" /\ adj.pc # "grow"
        /\ UNCHANGED <<locked, call>>
        /\ SignalNotEmpty
    BY <1>5 DEF AdjustSignal, IdleAdjust, TypeOK
  <2> QED BY <2>1, WakeKeepsHolders, SameHolders
<1> QED BY <1>1, <1>2, <1>3, <1>4, <1>5 DEF Adjust

LEMMA DestroyHolder ==
  ASSUME TypeOK, OneHolder, Destroy
  PROVE  OneHolder'
<1>1. UNCHANGED <<locked, call, adj>>
  BY DEF Destroy, DestroyMove, DestroyCall, DestroyJoinAdjust, DestroyBroadcast,
     DestroyJoin, DestroyFree
<1>2. BroadcastNotEmpty \/ UNCHANGED wpc
  BY DEF Destroy, DestroyCall, DestroyJoinAdjust, DestroyBroadcast, DestroyJoin,
     DestroyFree
<1> QED BY <1>1, <1>2, WakeKeepsHolders, SameHolders

\* Between two steps pool->lock has at most one holder, and the pool is marked
\* held exactly when it has one.
THEOREM MutexCorrect == Spec => []OneHolder
<1>1. Init => OneHolder
  BY DEF Init, OneHolder, IdleAdjust
<1>2. TypeOK /\ OneHolder /\ [Next]_vars => OneHolder'
  <2> SUFFICES ASSUME TypeOK, OneHolder, [Next]_vars PROVE OneHolder'
    OBVIOUS
  <2>1. CASE UNCHANGED vars
    BY <2>1, SameHolders DEF vars
  <2>2. CASE Spurious
    <3>1. UNCHANGED <<locked, adj>>
      BY <2>2 DEF Spurious
    <3>2. \A w \in Tid : wpc'[w] = "willwait" <=> wpc[w] = "willwait"
      BY <2>2 DEF Spurious, Sleepers, TypeOK
    <3>3. \A t \in Tasks : call'[t] = "willwait" <=> call[t] = "willwait"
      BY <2>2 DEF Spurious, TypeOK
    <3> QED BY <3>1, <3>2, <3>3, SameHolders
  <2> QED BY <2>1, <2>2, AddHolder, WorkerHolder, AdjustHolder, DestroyHolder
          DEF Next, Returned
<1> QED BY <1>1, <1>2, TypeCorrect, PTL DEF Spec

-----------------------------------------------------------------------------
(* The pool of fixed size: threadpool_create(n, n, ...), every thread of it  *)
(* created. A worker leaves only when the pool is shut down.                 *)

FixedPool == MinThr = MaxThr /\ ~CreateMayFail

Runnable == {"lock", "woken", "took", "busy", "ran"}

Staffed == /\ live_thr_num = MaxThr
           /\ wpc[1] \notin {"unborn", "shrunk", "exited"}
           /\ wpc[1] \in {"stopping", "detached"} => shutdown

StrandInv == TypeOK /\ OneHolder /\ Staffed /\ NotStranded

LEMMA FirstTid == 1 \in Tid
  BY PoolAssumption DEF Tid

\* Whoever holds no mutex that is free, is not asleep and has not left a pool
\* that is not shut down, is on its way to the queue.
LEMMA AwakeIsRunnable ==
  ASSUME TypeOK, OneHolder, Staffed, ~locked, ~shutdown, wpc[1] # "waiting"
  PROVE  wpc[1] \in Runnable
  BY FirstTid, FreeMutex DEF TypeOK, Staffed, Runnable, WorkerState

\* Signals and broadcasts take no thread off its way to the queue.
LEMMA WakeKeepsRunnable ==
  ASSUME TypeOK, NEW w \in Tid, wpc[w] \in Runnable,
         SignalNotEmpty \/ BroadcastNotEmpty
  PROVE  wpc'[w] \in Runnable
  BY DEF TypeOK, SignalNotEmpty, BroadcastNotEmpty, Sleepers, Runnable

LEMMA WakeKeepsStaff ==
  ASSUME TypeOK, Staffed, SignalNotEmpty \/ BroadcastNotEmpty,
         shutdown => shutdown', UNCHANGED live_thr_num
  PROVE  Staffed'
  BY FirstTid DEF TypeOK, Staffed, SignalNotEmpty, BroadcastNotEmpty, Sleepers

LEMMA AddStrands ==
  ASSUME StrandInv, NEW t \in Tasks, Add(t)
  PROVE  Staffed' /\ NotStranded'
<1> USE DEF StrandInv
<1>1. UNCHANGED <<shutdown, live_thr_num>>
  BY DEF Add, AddLock, AddWait, sizeVars, endVars
<1>2. CASE UNCHANGED <<queue_size, wpc>>
  BY <1>1, <1>2 DEF Staffed, NotStranded
<1>3. CASE shutdown /\ BroadcastNotEmpty
  BY <1>1, <1>3, WakeKeepsStaff DEF NotStranded
<1>4. CASE ~locked /\ ~shutdown /\ SignalNotEmpty
  <2>1. \E w \in Tid : wpc'[w] \in Runnable
    <3>1. CASE Sleepers = {} /\ UNCHANGED wpc
      <4>1. wpc[1] # "waiting"
        BY <3>1, FirstTid DEF Sleepers
      <4> QED BY <1>4, <3>1, <4>1, FirstTid, AwakeIsRunnable
    <3>2. CASE \E w \in Sleepers : wpc' = [wpc EXCEPT ![w] = "woken"]
      BY <3>2 DEF TypeOK, Sleepers, Runnable
    <3> QED BY <1>4, <3>1, <3>2 DEF SignalNotEmpty
  <2> QED BY <1>1, <1>4, <2>1, WakeKeepsStaff DEF NotStranded, Runnable
<1>5. CASE AddLock(t)
  BY <1>2, <1>3, <1>4, <1>5 DEF AddLock, AddBody, queueVars
<1>6. CASE AddWait(t)
  BY <1>2, <1>6 DEF AddWait, queueVars
<1> QED BY <1>5, <1>6 DEF Add

LEMMA WorkerBodyStrands ==
  ASSUME StrandInv, NEW w \in Tid, wpc[w] \in {"lock", "woken"}, WorkerBody(w),
         UNCHANGED <<shutdown, live_thr_num>>
  PROVE  Staffed' /\ NotStranded'
<1> USE FirstTid DEF StrandInv
<1>1. CASE MustWaitEmpty /\ wpc' = [wpc EXCEPT ![w] = "willwait"]
           /\ UNCHANGED queue_size
  BY <1>1 DEF MustWaitEmpty, TypeOK, Staffed, NotStranded
<1>2. CASE shutdown /\ wpc' = [wpc EXCEPT ![w] = "stopping"]
  BY <1>2 DEF TypeOK, Staffed, NotStranded
<1>3. CASE wpc' = [wpc EXCEPT ![w] = "took"]
  <2>1. wpc'[w] = "took"
    BY <1>3 DEF TypeOK
  <2> QED BY <1>3, <2>1 DEF TypeOK, Staffed, NotStranded
<1> QED BY <1>1, <1>2, <1>3 DEF WorkerBody, queueVars

LEMMA WorkerStrands ==
  ASSUME FixedPool, StrandInv, NEW w \in Tid, Worker(w)
  PROVE  Staffed' /\ NotStranded'
<1> USE FirstTid DEF StrandInv
<1>1. ~MayLeave
  BY PoolAssumption DEF FixedPool, Staffed, MayLeave
<1>2. CASE WorkerLock(w) \/ WorkerWake(w)
  BY <1>2, WorkerBodyStrands DEF WorkerLock, WorkerWake, sizeVars, endVars
<1>3. CASE WorkerWait(w)
  <2>1. /\ wpc[w] = "willwait" /\ wpc' = [wpc EXCEPT ![w] = "waiting"]
        /\ UNCHANGED <<queue_size, shutdown, live_thr_num>>
    BY <1>3 DEF WorkerWait, queueVars, sizeVars, endVars
  <2> QED BY <2>1 DEF TypeOK, Staffed, NotStranded
<1>4. ~WorkerShrink(w)
  BY <1>1 DEF WorkerShrink, AsksToExit
<1>5. CASE WorkerStart(w) \/ WorkerRun(w) \/ WorkerEnd(w)
  <2>1. /\ wpc[w] \in Runnable
        /\ \E to \in {"busy", "ran", "lock"} : wpc' = [wpc EXCEPT ![w] = to]
        /\ UNCHANGED <<queue_size, shutdown, live_thr_num>>
    BY <1>5 DEF WorkerStart, WorkerRun, WorkerEnd, WorkerMove, Runnable, queueVars,
       sizeVars, endVars
  <2>2. wpc'[w] \in Runnable
    BY <2>1 DEF TypeOK, Runnable
  <2> QED BY <2>1, <2>2 DEF TypeOK, Staffed, NotStranded, Runnable
<1>6. CASE WorkerGone(w)
  <2>1. /\ wpc[w] \in {"shrunk", "stopping"}
        /\ wpc' = [wpc EXCEPT ![w] = IF wpc[w] = "shrunk" THEN "exited"
                                                         ELSE "detached"]
        /\ UNCHANGED <<queue_size, shutdown, live_thr_num>>
    BY <1>6 DEF WorkerGone, WorkerMove, queueVars, sizeVars, endVars
  <2> QED BY <2>1 DEF TypeOK, Staffed, NotStranded
<1> QED BY <1>2, <1>3, <1>4, <1>5, <1>6 DEF Worker

LEMMA AdjustStrands ==
  ASSUME FixedPool, StrandInv, Adjust
  PROVE  Staffed' /\ NotStranded'
<1> USE DEF StrandInv
<1>1. ~GrowMore
  BY PoolAssumption DEF Staffed, GrowMore
<1>2. UNCHANGED <<queue_size, shutdown, live_thr_num>>
  BY <1>1 DEF Adjust, AdjustLook, AdjustGrowLock, AdjustGrow, AdjustShrink,
     AdjustSignal, queueVars, sizeVars, endVars
<1>3. SignalNotEmpty \/ UNCHANGED wpc
  BY <1>1 DEF Adjust, AdjustLook, AdjustGrowLock, AdjustGrow, AdjustShrink,
     AdjustSignal
<1> QED BY <1>2, <1>3, WakeKeepsStaff, WakeKeepsRunnable
        DEF Staffed, NotStranded, Runnable

LEMMA DestroyStrands ==
  ASSUME StrandInv, Destroy
  PROVE  Staffed' /\ NotStranded'
<1> USE DEF StrandInv
<1>1. UNCHANGED <<queue_size, live_thr_num>> /\ (shutdown' = shutdown \/ shutdown')
  BY DEF Destroy, DestroyMove, DestroyCall, DestroyJoinAdjust, DestroyBroadcast,
     DestroyJoin, DestroyFree, queueVars, sizeVars
<1>2. BroadcastNotEmpty \/ UNCHANGED wpc
  BY DEF Destroy, DestroyCall, DestroyJoinAdjust, DestroyBroadcast, DestroyJoin,
     DestroyFree
<1> QED BY <1>1, <1>2, WakeKeepsStaff, WakeKeepsRunnable
        DEF Staffed, NotStranded, Runnable

\* In a pool of fixed size no wake-up is lost: as long as a task is queued and
\* the pool is not shut down, some worker is on its way to the queue. That the
\* pool is of fixed size is needed: a worker that leaves by the shrinking path
\* can take a wake-up with it.
THEOREM NoLostWakeup == ASSUME FixedPool PROVE Spec => []NotStranded
<1>1. Init => Staffed /\ NotStranded
  <2> SUFFICES ASSUME Init PROVE Staffed /\ NotStranded
    OBVIOUS
  <2>1. live_thr_num = MaxThr /\ queue_size = 0
    BY DEF Init, FixedPool
  <2>2. wpc[1] = "lock"
    BY FirstTid, PoolAssumption DEF Init, FixedPool
  <2> QED BY <2>1, <2>2 DEF Staffed, NotStranded
<1>2. StrandInv /\ [Next]_vars => Staffed' /\ NotStranded'
  <2> SUFFICES ASSUME StrandInv, [Next]_vars PROVE Staffed' /\ NotStranded'
    OBVIOUS
  <2>1. CASE UNCHANGED vars
    BY <2>1 DEF vars, queueVars, sizeVars, endVars, StrandInv, Staffed, NotStranded
  <2>2. CASE Spurious
    <3>1. UNCHANGED <<queue_size, shutdown, live_thr_num>>
      BY <2>2 DEF Spurious, queueVars, sizeVars, endVars
    <3>2. SignalNotEmpty \/ UNCHANGED wpc
      BY <2>2 DEF Spurious, SignalNotEmpty
    <3> QED BY <3>1, <3>2, WakeKeepsStaff, WakeKeepsRunnable
            DEF StrandInv, Staffed, NotStranded, Runnable
  <2> QED BY <2>1, <2>2, AddStrands, WorkerStrands, AdjustStrands, DestroyStrands
          DEF Next, Returned
<1> QED BY <1>1, <1>2, TypeCorrect, MutexCorrect, PTL DEF Spec, StrandInv

-----------------------------------------------------------------------------
(* What a step does to the threads and their counters, whatever it does to   *)
(* the queue: the invariants from here on are proved from these cases.       *)

\* Sleepers may wake up.
Woken == \A w \in Tid : \/ wpc'[w] = wpc[w]
                        \/ wpc[w] = "waiting" /\ wpc'[w] = "woken"

\* Worker w goes from one place to another.
Goes(w, from, to) == wpc[w] \in from /\ wpc' = [wpc EXCEPT ![w] = to]

\* w takes the mutex, sleeps, stops or takes a task, or is gone: no counter
\* moves.
Passes(w) ==
  \/ Goes(w, {"lock", "woken"}, "willwait") \/ Goes(w, {"willwait"}, "waiting")
  \/ Goes(w, {"lock", "woken"}, "took") \/ Goes(w, {"busy"}, "ran")
  \/ Goes(w, {"lock", "woken"}, "stopping") /\ shutdown
  \/ Goes(w, {"shrunk"}, "exited") \/ Goes(w, {"stopping"}, "detached")

\* A thread is created in the slot of the growing loop, or fails to be.
Creates(w) == /\ w \in Fresh /\ wpc' = [wpc EXCEPT ![w] = "lock"]
              /\ threads' = [threads EXCEPT ![adj.i] = w]
NotCreated == /\ CreateMayFail /\ UNCHANGED wpc
              /\ \E v \in Fresh \union {threads[adj.i]} :
                   threads' = [threads EXCEPT ![adj.i] = v]
Grows == /\ adj.pc = "grow" /\ GrowMore /\ SlotFree(adj.i)
         /\ live_thr_num' = live_thr_num + 1
         /\ adj' = [adj EXCEPT !.i = @ + 1, !.add = @ + 1]

Step ==
  \/ Woken /\ UNCHANGED <<threads, live_thr_num, busy_thr_num>>
  \/ \E w \in Tid :
       \/ Passes(w) /\ UNCHANGED <<threads, live_thr_num, busy_thr_num>>
       \/ /\ Goes(w, {"woken"}, "shrunk")
          /\ MayLeave /\ live_thr_num' = live_thr_num - 1
          /\ UNCHANGED <<threads, busy_thr_num>>
       \/ /\ Goes(w, {"took"}, "busy") /\ busy_thr_num' = busy_thr_num + 1
          /\ UNCHANGED <<threads, live_thr_num>>
       \/ /\ Goes(w, {"ran"}, "lock") /\ busy_thr_num' = busy_thr_num - 1
          /\ UNCHANGED <<threads, live_thr_num>>
  \/ /\ Grows /\ UNCHANGED busy_thr_num
     /\ \/ \E w \in Tid : Creates(w)
        \/ NotCreated

LEMMA WakeSteps ==
  ASSUME TypeOK, SignalNotEmpty \/ BroadcastNotEmpty \/ UNCHANGED wpc
  PROVE  Woken
  BY DEF TypeOK, SignalNotEmpty, BroadcastNotEmpty, Sleepers, Woken

LEMMA NextStep ==
  ASSUME TypeOK, [Next]_vars
  PROVE  Step
<1> USE DEF sizeVars, endVars
<1>1. CASE UNCHANGED vars
  BY <1>1 DEF vars, Step, Woken
<1>2. ASSUME NEW t \in Tasks, Add(t) PROVE Step
  BY <1>2, WakeSteps DEF Add, AddLock, AddBody, AddWait, Step
<1>3. ASSUME NEW w \in Tid, Worker(w) PROVE Step
  <2>1. CASE WorkerLock(w) \/ WorkerWake(w)
    BY <2>1 DEF WorkerLock, WorkerWake, WorkerBody, Step, Passes, Goes
  <2>2. CASE WorkerWait(w) \/ WorkerShrink(w)
    BY <2>2 DEF WorkerWait, WorkerShrink, AsksToExit, Step, Passes, Goes
  <2>3. CASE WorkerStart(w) \/ WorkerRun(w) \/ WorkerEnd(w) \/ WorkerGone(w)
    BY <2>3 DEF WorkerStart, WorkerRun, WorkerEnd, WorkerGone, WorkerMove, Step,
                Passes, Goes
  <2> QED BY <1>3, <2>1, <2>2, <2>3 DEF Worker
<1>4. CASE Spurious
  BY <1>4, WakeSteps DEF Spurious, SignalNotEmpty, Step
<1>5. CASE Adjust
  <2>1. CASE AdjustLook \/ AdjustGrowLock \/ AdjustShrink \/ AdjustSignal
    BY <2>1, WakeSteps DEF AdjustLook, AdjustGrowLock, AdjustShrink,
                           AdjustSignal, Step
  <2>2. CASE AdjustGrow
    <3>1. CASE CreateThread(adj.i) /\ GrowMore /\ SlotFree(adj.i)
               /\ live_thr_num' = live_thr_num + 1
               /\ adj' = [adj EXCEPT !.i = @ + 1, !.add = @ + 1]
      BY <2>2, <3>1 DEF AdjustGrow, CreateThread, Fresh, Step, Grows, Creates,
                             NotCreated
    <3>2. CASE UNCHANGED <<threads, wpc, live_thr_num>>
      BY <2>2, <3>2 DEF AdjustGrow, Step, Woken
    <3> QED BY <2>2, <3>1, <3>2 DEF AdjustGrow
  <2> QED BY <1>5, <2>1, <2>2 DEF Adjust
<1>6. CASE Destroy
  BY <1>6, WakeSteps DEF Destroy, DestroyMove, DestroyCall, DestroyJoinAdjust,
     DestroyBroadcast, DestroyJoin, DestroyFree, Step
<1> QED BY <1>1, <1>2, <1>3, <1>4, <1>5, <1>6 DEF Next, Returned

-----------------------------------------------------------------------------
(* The counters                                                              *)

\* Every thread that is counted is, and only those where pthread_create does
\* not fail; the busy ones are all counted.
CountInv == /\ Cardinality(Counted) <= live_thr_num
            /\ ~CreateMayFail => Cardinality(Counted) = live_thr_num
            /\ Cardinality(InTask) = busy_thr_num

LEMMA FiniteThreads ==
  /\ IsFiniteSet(Tid)
  /\ IsFiniteSet(Counted) /\ IsFiniteSet(InTask)
  /\ Cardinality(Counted) \in Nat /\ Cardinality(InTask) \in Nat
<1>1. IsFiniteSet(Tid)
  BY FS_Interval, PoolAssumption DEF Tid
<1>2. IsFiniteSet(Counted) /\ IsFiniteSet(InTask)
  BY <1>1, FS_Subset DEF Counted, InTask
<1> QED BY <1>1, <1>2, FS_CardinalityType

LEMMA InitCount == Init => CountInv
<1> SUFFICES ASSUME Init PROVE CountInv
  OBVIOUS
<1> USE PoolAssumption
<1>1. PICK created \in SUBSET (0..MinThr - 1) :
        /\ wpc = [w \in Tid |-> IF w - 1 \in created THEN "lock" ELSE "unborn"]
        /\ ~CreateMayFail => created = 0..MinThr - 1
  BY InitThreads
<1>2. InTask = {} /\ busy_thr_num = 0 /\ live_thr_num = MinThr
  BY <1>1 DEF Init, InTask
<1>3. Counted \subseteq 1..MinThr
  BY <1>1 DEF Counted, Tid
<1>4. ~CreateMayFail => Counted = 1..MinThr
  BY <1>1 DEF Counted, Tid
<1>5. IsFiniteSet(1..MinThr) /\ Cardinality(1..MinThr) = MinThr
  BY FS_Interval
<1>6. Cardinality(Counted) <= MinThr
  BY <1>3, <1>5, FS_Subset
<1> QED BY <1>2, <1>4, <1>5, <1>6, FS_EmptySet DEF CountInv

LEMMA StepCount ==
  ASSUME TypeOK, CountInv, Step
  PROVE  CountInv'
<1> USE FiniteThreads
<1>1. CASE Woken /\ UNCHANGED <<threads, live_thr_num, busy_thr_num>>
  <2>1. Counted' = Counted /\ InTask' = InTask
    BY <1>1 DEF Woken, Counted, InTask
  <2> QED BY <1>1, <2>1 DEF CountInv
<1>2. ASSUME NEW w \in Tid, Passes(w),
             UNCHANGED <<threads, live_thr_num, busy_thr_num>>
      PROVE  CountInv'
  <2>1. Counted' = Counted /\ InTask' = InTask
    BY <1>2 DEF Passes, Goes, TypeOK, Counted, InTask
  <2> QED BY <1>2, <2>1 DEF CountInv
<1>3. ASSUME NEW w \in Tid, Goes(w, {"woken"}, "shrunk"),
             live_thr_num' = live_thr_num - 1, UNCHANGED busy_thr_num
      PROVE  CountInv'
  <2>1. w \in Counted /\ Counted' = Counted \ {w} /\ InTask' = InTask
    BY <1>3 DEF Goes, TypeOK, Counted, InTask
  <2>2. Cardinality(Counted \ {w}) = Cardinality(Counted) - 1
    BY <2>1, FS_RemoveElement
  <2> QED BY <1>3, <2>1, <2>2 DEF CountInv, TypeOK
<1>4. ASSUME NEW w \in Tid, Goes(w, {"took"}, "busy"),
             busy_thr_num' = busy_thr_num + 1, UNCHANGED live_thr_num
      PROVE  CountInv'
  <2>1. w \notin InTask /\ InTask' = InTask \union {w} /\ Counted' = Counted
    BY <1>4 DEF Goes, TypeOK, Counted, InTask
  <2>2. Cardinality(InTask \union {w}) = Cardinality(InTask) + 1
    BY <2>1, FS_AddElement
  <2> QED BY <1>4, <2>1, <2>2 DEF CountInv
<1>5. ASSUME NEW w \in Tid, Goes(w, {"ran"}, "lock"),
             busy_thr_num' = busy_thr_num - 1, UNCHANGED live_thr_num
      PROVE  CountInv'
  <2>1. w \in InTask /\ InTask' = InTask \ {w} /\ Counted' = Counted
    BY <1>5 DEF Goes, TypeOK, Counted, InTask
  <2>2. Cardinality(InTask \ {w}) = Cardinality(InTask) - 1
    BY <2>1, FS_RemoveElement
  <2> QED BY <1>5, <2>1, <2>2 DEF CountInv
<1>6. ASSUME NEW w \in Tid, Creates(w), Grows, UNCHANGED busy_thr_num
      PROVE  CountInv'
  <2>1. w \notin Counted /\ Counted' = Counted \union {w} /\ InTask' = InTask
    BY <1>6 DEF Creates, Fresh, TypeOK, Counted, InTask
  <2>2. Cardinality(Counted \union {w}) = Cardinality(Counted) + 1
    BY <2>1, FS_AddElement
  <2> QED BY <1>6, <2>1, <2>2 DEF CountInv, TypeOK, Grows
<1>7. CASE NotCreated /\ Grows /\ UNCHANGED busy_thr_num
  <2>1. Counted' = Counted /\ InTask' = InTask
    BY <1>7 DEF NotCreated, Counted, InTask
  <2> QED BY <1>7, <2>1 DEF NotCreated, CountInv, TypeOK, Grows
<1> QED BY <1>1, <1>2, <1>3, <1>4, <1>5, <1>6, <1>7 DEF Step

\* The counts of every reachable state of every pool.
THEOREM Counts == Spec => []CountInv
<1>1. TypeOK /\ CountInv /\ [Next]_vars => CountInv'
  BY NextStep, StepCount
<1> QED BY <1>1, InitCount, TypeCorrect, PTL DEF Spec

\* live_thr_num is the number of threads created and not gone by the shrinking
\* path. The pool that ignores a failed pthread_create counts a thread too many.
THEOREM LiveCounted == ASSUME ~CreateMayFail PROVE Spec => []LiveCountsThreads
<1>1. CountInv => LiveCountsThreads
  BY DEF CountInv, LiveCountsThreads
<1> QED BY <1>1, Counts, PTL

\* busy_thr_num is the number of workers in a task, and not above live_thr_num
\* although the two are written under different mutexes.
THEOREM BusyCounted == Spec => []BusyCountsWorkers
<1>1. TypeOK /\ CountInv => BusyCountsWorkers
  <2> SUFFICES ASSUME TypeOK, CountInv PROVE BusyCountsWorkers
    OBVIOUS
  <2>1. InTask \subseteq Counted
    BY DEF InTask, Counted
  <2>2. Cardinality(InTask) <= Cardinality(Counted)
    BY <2>1, FiniteThreads, FS_Subset
  <2> QED BY <2>2, FiniteThreads DEF CountInv, BusyCountsWorkers, TypeOK
<1> QED BY <1>1, Counts, TypeCorrect, PTL
-----------------------------------------------------------------------------
(* The slots of pool->threads                                                *)

\* Only the growing loop writes a slot or raises live_thr_num, and it moves on
\* from a slot only when that slot is taken.
GrowStep ==
  \/ Grows /\ \/ \E w \in Tid : Creates(w)
              \/ NotCreated
  \/ /\ UNCHANGED threads /\ live_thr_num' <= live_thr_num
     /\ adj'.pc = "grow" =>
          \/ adj'.i = 0
          \/ adj.pc = "grow" /\ adj'.i = adj.i
          \/ /\ adj.pc = "grow" /\ adj'.i = adj.i + 1
             /\ adj.i < MaxThr /\ ~SlotFree(adj.i)

LEMMA NextGrowStep ==
  ASSUME TypeOK, [Next]_vars
  PROVE  GrowStep
<1> USE DEF sizeVars, endVars
<1>1. live_thr_num \in Int /\ live_thr_num <= live_thr_num
      /\ live_thr_num - 1 <= live_thr_num
  BY DEF TypeOK
<1>2. CASE UNCHANGED <<threads, live_thr_num, adj>>
  BY <1>1, <1>2 DEF GrowStep
<1>3. CASE \E t \in Tasks : Add(t)
  BY <1>2, <1>3 DEF Add, AddLock, AddWait
<1>4. ASSUME NEW w \in Tid, Worker(w) PROVE GrowStep
  <2>1. CASE WorkerShrink(w)
    BY <1>1, <2>1 DEF WorkerShrink, GrowStep
  <2>2. CASE WorkerLock(w) \/ WorkerWake(w) \/ WorkerWait(w)
    BY <1>2, <2>2 DEF WorkerLock, WorkerWake, WorkerWait
  <2>3. CASE WorkerStart(w) \/ WorkerRun(w) \/ WorkerEnd(w) \/ WorkerGone(w)
    BY <1>2, <2>3 DEF WorkerStart, WorkerRun, WorkerEnd, WorkerGone, WorkerMove
  <2> QED BY <1>4, <2>1, <2>2, <2>3 DEF Worker
<1>5. CASE Spurious
  BY <1>2, <1>5 DEF Spurious
<1>6. CASE Adjust
  <2>1. CASE AdjustGrow
    <3>1. CASE /\ GrowMore /\ SlotFree(adj.i)
               /\ CreateThread(adj.i)
               /\ live_thr_num' = live_thr_num + 1
               /\ adj' = [adj EXCEPT !.i = @ + 1, !.add = @ + 1]
      BY <2>1, <3>1
         DEF AdjustGrow, CreateThread, Fresh, GrowStep, Grows, Creates, NotCreated
    <3>2. CASE /\ GrowMore /\ ~SlotFree(adj.i)
               /\ adj' = [adj EXCEPT !.i = @ + 1]
               /\ UNCHANGED <<threads, live_thr_num>>
      <4>1. adj'.i = adj.i + 1
        BY <3>2 DEF TypeOK
      <4> QED BY <1>1, <2>1, <3>2, <4>1 DEF AdjustGrow, GrowMore, GrowStep
    <3>3. CASE /\ adj' = [adj EXCEPT !.pc = AfterGrow(adj.busy, adj.live)]
               /\ UNCHANGED <<threads, live_thr_num>>
      <4>1. adj'.pc # "grow"
        BY <3>3 DEF TypeOK, AfterGrow
      <4> QED BY <1>1, <3>3, <4>1 DEF GrowStep
    <3> QED BY <2>1, <3>1, <3>2, <3>3 DEF AdjustGrow
  <2>2. CASE AdjustGrowLock
    <3>1. adj'.i = 0
      BY <2>2 DEF AdjustGrowLock, TypeOK
    <3> QED BY <1>1, <2>2, <3>1 DEF AdjustGrowLock, GrowStep
  <2>3. CASE AdjustLook \/ AdjustShrink \/ AdjustSignal
    <3>1. adj'.pc # "grow"
      <4>1. CASE adj' = IdleAdjust(IF shutdown THEN "exited" ELSE "sample")
        BY <4>1 DEF IdleAdjust
      <4>2. CASE adj' = [adj EXCEPT !.pc = "samplebusy", !.qsize = queue_size,
                                    !.live = live_thr_num]
        BY <4>2 DEF TypeOK
      <4>3. CASE adj' = [adj EXCEPT !.busy = busy_thr_num,
                           !.pc = IF WantsGrow(adj.qsize, adj.live)
                                  THEN "growlock"
                                  ELSE AfterGrow(busy_thr_num, adj.live)]
        BY <4>3 DEF AfterGrow, TypeOK
      <4>4. CASE AdjustLook
        BY <4>1, <4>2, <4>3, <4>4 DEF AdjustLook
      <4>5. CASE AdjustShrink
        BY <4>5 DEF AdjustShrink, TypeOK
      <4>6. CASE AdjustSignal
        BY <4>6 DEF AdjustSignal, IdleAdjust, TypeOK
      <4> QED BY <2>3, <4>4, <4>5, <4>6
    <3>2. UNCHANGED <<threads, live_thr_num>>
      BY <2>3 DEF AdjustLook, AdjustShrink, AdjustSignal
    <3> QED BY <1>1, <3>1, <3>2 DEF GrowStep
  <2> QED BY <1>6, <2>1, <2>2, <2>3 DEF Adjust
<1>7. CASE Destroy
  BY <1>2, <1>7 DEF Destroy, DestroyMove, DestroyCall, DestroyJoinAdjust,
     DestroyBroadcast, DestroyJoin, DestroyFree
<1> QED BY <1>2, <1>3, <1>4, <1>5, <1>6, <1>7 DEF Next, Returned, vars

\* Where a slot is never given back, the slots in use are the first ones, they
\* are at least live_thr_num, and the growing loop has not passed them.
FirstSlots(n) == \A s \in Slot : threads[s] # 0 <=> s < n
SlotInv ==
  \E n \in 0..MaxThr : /\ FirstSlots(n) /\ live_thr_num <= n
                       /\ adj.pc = "grow" => adj.i <= n

\* The slots threadpool_destroy joins were filled. It needs that every thread
\* was created, and that a slot is not used again: a thread that is created in
\* the slot of one that is gone raises live_thr_num past the slots in use.
THEOREM JoinsCreated ==
  ASSUME ~CreateMayFail, ~ProbeSeesExit
  PROVE  Spec => []JoinsOnlyCreated
<1> USE PoolAssumption
<1>1. Init => SlotInv
  <2> SUFFICES ASSUME Init PROVE SlotInv
    OBVIOUS
  <2>1. /\ \A s \in Slot : threads[s] = IF s < MinThr THEN s + 1 ELSE 0
        /\ live_thr_num = MinThr
    BY InitSlots DEF Init
  <2>2. FirstSlots(MinThr)
    BY <2>1 DEF FirstSlots, Slot
  <2>3. adj.pc # "grow" /\ MinThr \in 0..MaxThr
    BY DEF Init, IdleAdjust
  <2> QED BY <2>1, <2>2, <2>3 DEF SlotInv
<1>2. TypeOK /\ SlotInv /\ [Next]_vars => SlotInv'
  <2> SUFFICES ASSUME TypeOK, SlotInv, [Next]_vars PROVE SlotInv'
    OBVIOUS
  <2>1. PICK n \in 0..MaxThr : /\ FirstSlots(n) /\ live_thr_num <= n
                               /\ adj.pc = "grow" => adj.i <= n
    BY DEF SlotInv
  <2>2. adj.i \in Nat /\ live_thr_num \in Nat /\ live_thr_num' \in Int
    <3>1. live_thr_num' \in Int
      BY LiveStep DEF TypeOK
    <3> QED BY <3>1 DEF TypeOK
  <2>3. adj.i \in Slot => (SlotFree(adj.i) <=> threads[adj.i] = 0)
    BY DEF SlotFree, IsThreadAlive, TypeOK, Tid
  <2>4. ASSUME NEW w \in Tid, Creates(w), Grows PROVE SlotInv'
    <3>1. adj.i \in Slot /\ adj.i = n /\ n + 1 \in 0..MaxThr
      BY <2>1, <2>2, <2>3, <2>4 DEF Grows, GrowMore, FirstSlots, Slot
    <3>2. \A s \in Slot : threads'[s] # 0 <=> s < n + 1
      BY <2>1, <2>4, <3>1 DEF Creates, FirstSlots, TypeOK, Tid, Slot
    <3>3. live_thr_num' <= n + 1 /\ adj'.i <= n + 1
      BY <2>1, <2>2, <2>4, <3>1 DEF Grows, TypeOK
    <3> QED BY <3>1, <3>2, <3>3 DEF SlotInv, FirstSlots
  <2>5. CASE /\ UNCHANGED threads /\ live_thr_num' <= live_thr_num
             /\ adj'.pc = "grow" =>
                  \/ adj'.i = 0
                  \/ adj.pc = "grow" /\ adj'.i = adj.i
                  \/ /\ adj.pc = "grow" /\ adj'.i = adj.i + 1
                     /\ adj.i < MaxThr /\ ~SlotFree(adj.i)
    <3>1. FirstSlots(n)' /\ live_thr_num' <= n
      BY <2>1, <2>2, <2>5 DEF FirstSlots
    <3>2. ASSUME adj'.pc = "grow" PROVE adj'.i <= n
      <4>1. CASE adj'.i = 0
        BY <4>1
      <4>2. CASE adj.pc = "grow" /\ adj'.i = adj.i
        BY <2>1, <4>2
      <4>3. CASE /\ adj.pc = "grow" /\ adj'.i = adj.i + 1
                 /\ adj.i < MaxThr /\ ~SlotFree(adj.i)
        <5>1. adj.i \in Slot
          BY <2>2, <4>3 DEF Slot
        <5>2. adj.i < n
          BY <2>1, <2>3, <4>3, <5>1 DEF FirstSlots
        <5> QED BY <2>2, <4>3, <5>2
      <4> QED BY <2>5, <3>2, <4>1, <4>2, <4>3
    <3> QED BY <3>1, <3>2 DEF SlotInv
  <2> QED BY <2>4, <2>5, NextGrowStep DEF GrowStep, NotCreated
<1>3. TypeOK /\ SlotInv => JoinsOnlyCreated
  BY DEF TypeOK, SlotInv, FirstSlots, JoinsOnlyCreated, Slot
<1> QED BY <1>1, <1>2, <1>3, TypeCorrect, PTL DEF Spec

\* The slots that are taken: they name a thread that has not left by the
\* shrinking path, one that was never born included. Each was counted when it
\* was filled, and a thread at work is named by one.
Taken == {s \in Slot : threads[s] # 0 /\ wpc[threads[s]] \notin {"shrunk", "exited"}}
AtWork == {w \in Tid : wpc[w] \notin {"unborn", "shrunk", "exited", "detached"}}
TakenInv == /\ Cardinality(Taken) <= live_thr_num
            /\ \A w \in AtWork : \E s \in Slot : threads[s] = w

LEMMA FiniteSlots ==
  /\ IsFiniteSet(Slot) /\ Cardinality(Slot) = MaxThr
  /\ IsFiniteSet(Taken) /\ Cardinality(Taken) \in Nat
<1>1. IsFiniteSet(Slot) /\ Cardinality(Slot) = MaxThr
  BY FS_Interval, PoolAssumption DEF Slot
<1>2. IsFiniteSet(Taken)
  BY <1>1, FS_Subset DEF Taken
<1> QED BY <1>1, <1>2, FS_CardinalityType

LEMMA InitTaken == Init => TakenInv
<1> SUFFICES ASSUME Init PROVE TakenInv
  OBVIOUS
<1> USE PoolAssumption
<1>1. PICK created \in SUBSET (0..MinThr - 1) :
        /\ \A s \in Slot : threads[s] \in FirstIds(s, created)
        /\ wpc = [w \in Tid |-> IF w - 1 \in created THEN "lock" ELSE "unborn"]
  BY InitThreads
<1>2. Taken \subseteq 0..MinThr - 1
  <2> SUFFICES ASSUME NEW s \in Taken PROVE s \in 0..MinThr - 1
    OBVIOUS
  <2>1. s \in Int /\ 0 <= s /\ s \in Slot /\ threads[s] # 0 /\ MinThr \in Int
    BY DEF Taken, Slot
  <2>2. CASE s < MinThr
    BY <2>1, <2>2
  <2>3. CASE ~(s < MinThr)
    <3>1. s \notin created
      BY <2>1, <2>3
    <3> QED BY <1>1, <2>1, <2>3, <3>1 DEF FirstIds
  <2> QED BY <2>2, <2>3
<1>3. IsFiniteSet(0..MinThr - 1) /\ Cardinality(0..MinThr - 1) = MinThr
  BY FS_Interval
<1>4. Cardinality(Taken) <= MinThr
  BY <1>2, <1>3, FS_Subset
<1>5. ASSUME NEW w \in AtWork PROVE \E s \in Slot : threads[s] = w
  <2>1. w - 1 \in created /\ w - 1 \in Slot /\ w = (w - 1) + 1
    BY <1>1, <1>5 DEF AtWork, Tid, Slot
  <2> QED BY <1>1, <2>1 DEF FirstIds
<1> QED BY <1>4, <1>5 DEF Init, TakenInv

\* No step takes a slot but the growing loop, one at a time and counted.
LEMMA StepTaken ==
  ASSUME ProbeSeesExit, TypeOK, TakenInv, Step
  PROVE  TakenInv'
<1> USE FiniteSlots
<1>1. \A s \in Slot : threads[s] # 0 => threads[s] \in Tid
  BY DEF TypeOK, Tid
<1>2. ASSUME Grows, (\E w \in Tid : Creates(w)) \/ NotCreated PROVE TakenInv'
  <2>1. adj.i \in Slot /\ live_thr_num' = live_thr_num + 1 /\ live_thr_num \in Nat
    BY <1>2, PoolAssumption DEF Grows, GrowMore, TypeOK, Slot
  <2>2. PICK v \in Tid \union {0} :
          /\ \A s \in Slot : threads'[s] = IF s = adj.i THEN v ELSE threads[s]
          /\ \A u \in Tid : \/ wpc'[u] = wpc[u]
                            \/ wpc[u] = "unborn" /\ wpc'[u] = "lock" /\ u = v
    <3> DEFINE Fills(v) ==
          /\ \A s \in Slot : threads'[s] = IF s = adj.i THEN v ELSE threads[s]
          /\ \A u \in Tid : \/ wpc'[u] = wpc[u]
                            \/ wpc[u] = "unborn" /\ wpc'[u] = "lock" /\ u = v
    <3>1. ASSUME NEW w \in Tid, Creates(w) PROVE Fills(w)
      <4>1. \A s \in Slot : threads'[s] = IF s = adj.i THEN w ELSE threads[s]
        BY <3>1 DEF Creates, TypeOK
      <4>2. \A u \in Tid : \/ wpc'[u] = wpc[u]
                           \/ wpc[u] = "unborn" /\ wpc'[u] = "lock" /\ u = w
        BY <3>1 DEF Creates, Fresh, TypeOK
      <4> QED BY <4>1, <4>2
    <3>2. CASE NotCreated
      <4>1. PICK v \in Fresh \union {threads[adj.i]} :
              threads' = [threads EXCEPT ![adj.i] = v]
        BY <3>2 DEF NotCreated
      <4>2. v \in Tid \union {0}
        BY <1>1, <2>1 DEF Fresh
      <4>3. Fills(v)
        <5>1. \A s \in Slot : threads'[s] = IF s = adj.i THEN v ELSE threads[s]
          BY <4>1 DEF TypeOK
        <5>2. \A u \in Tid : wpc'[u] = wpc[u]
          BY <3>2 DEF NotCreated
        <5> QED BY <5>1, <5>2
      <4> HIDE DEF Fills
      <4>4. \E u \in Tid \union {0} : Fills(u)
        BY <4>2, <4>3
      <4> QED BY <4>4 DEF Fills
    <3>3. CASE \E w \in Tid : Creates(w)
      <4> HIDE DEF Fills
      <4>1. \E u \in Tid \union {0} : Fills(u)
        BY <3>1, <3>3
      <4> QED BY <4>1 DEF Fills
    <3> QED BY <1>2, <3>2, <3>3
  <2>3. Taken' \subseteq Taken \union {adj.i}
    BY <1>1, <2>2 DEF Taken
  <2>4. Cardinality(Taken \union {adj.i}) <= Cardinality(Taken) + 1
        /\ IsFiniteSet(Taken \union {adj.i})
    <3>1. IsFiniteSet(Taken) /\ Cardinality(Taken) \in Nat
      BY FiniteSlots
    <3>2. /\ IsFiniteSet(Taken \union {adj.i})
          /\ \/ Cardinality(Taken \union {adj.i}) = Cardinality(Taken)
             \/ Cardinality(Taken \union {adj.i}) = Cardinality(Taken) + 1
      BY <3>1, FS_AddElement
    <3> QED BY <3>1, <3>2
  <2>5. Cardinality(Taken') <= Cardinality(Taken \union {adj.i})
    BY <2>3, <2>4, FS_Subset
  <2>6. Cardinality(Taken') <= live_thr_num'
    <3>1. Cardinality(Taken') \in Nat /\ Cardinality(Taken \union {adj.i}) \in Nat
      BY <2>3, <2>4, FS_Subset, FS_CardinalityType
    <3> QED BY <2>1, <2>4, <2>5, <3>1 DEF TakenInv
  <2>7. ASSUME NEW w \in AtWork' PROVE \E s \in Slot : threads'[s] = w
    <3>1. CASE w = v
      BY <2>1, <2>2, <3>1
    <3>2. CASE w # v
      <4>1. w \in AtWork
        BY <2>2, <2>7, <3>2 DEF AtWork
      <4>2. PICK s \in Slot : threads[s] = w
        BY <4>1 DEF TakenInv
      <4>3. threads[adj.i] # w
        BY <1>2, <4>1 DEF Grows, SlotFree, IsThreadAlive, AtWork
      <4> QED BY <2>2, <4>2, <4>3
    <3> QED BY <3>1, <3>2
  <2> QED BY <2>6, <2>7 DEF TakenInv
<1>3. ASSUME NEW w \in Tid, Goes(w, {"woken"}, "shrunk"),
             live_thr_num' = live_thr_num - 1, UNCHANGED threads
      PROVE  TakenInv'
  <2>1. /\ wpc[w] = "woken" /\ wpc'[w] = "shrunk"
        /\ \A v \in Tid : v # w => wpc'[v] = wpc[v]
    BY <1>3 DEF Goes, TypeOK
  <2>2. PICK s \in Slot : threads[s] = w
    BY <2>1 DEF TakenInv, AtWork
  <2>3. s \in Taken /\ Taken' \subseteq Taken \ {s}
    BY <1>1, <1>3, <2>1, <2>2 DEF Taken, Tid
  <2>4. /\ IsFiniteSet(Taken \ {s})
        /\ Cardinality(Taken \ {s}) = Cardinality(Taken) - 1
    BY <2>3, FS_RemoveElement
  <2>5. /\ Cardinality(Taken') <= Cardinality(Taken \ {s})
        /\ Cardinality(Taken') \in Nat
    BY <2>3, <2>4, FS_Subset, FS_CardinalityType
  <2>6. AtWork' \subseteq AtWork
    BY <2>1 DEF AtWork
  <2> QED BY <1>3, <2>4, <2>5, <2>6 DEF TakenInv, TypeOK
<1>4. ASSUME UNCHANGED <<threads, live_thr_num>>,
             \A v \in Tid : /\ wpc[v] \in {"shrunk", "exited"}
                               => wpc'[v] \in {"shrunk", "exited"}
                            /\ v \in AtWork' => v \in AtWork
      PROVE  TakenInv'
  <2>1. Taken' \subseteq Taken
    BY <1>1, <1>4 DEF Taken
  <2>2. Cardinality(Taken') <= Cardinality(Taken) /\ Cardinality(Taken') \in Nat
    BY <2>1, FS_Subset, FS_CardinalityType
  <2>3. AtWork' \subseteq AtWork
    BY <1>4 DEF AtWork
  <2> QED BY <1>4, <2>2, <2>3 DEF TakenInv, TypeOK
<1>5. CASE Woken /\ UNCHANGED <<threads, live_thr_num>>
  BY <1>4, <1>5 DEF Woken, AtWork
<1>6. ASSUME NEW w \in Tid,
             \/ Passes(w)
             \/ Goes(w, {"took"}, "busy") \/ Goes(w, {"ran"}, "lock"),
             UNCHANGED <<threads, live_thr_num>>
      PROVE  TakenInv'
  BY <1>4, <1>6 DEF Passes, Goes, TypeOK, AtWork
<1> QED BY <1>2, <1>3, <1>5, <1>6 DEF Step

\* A manager that starts its growing loop below max_thr_num has a free slot,
\* or a thread is about to give one back: where the probe tells that a thread
\* is gone, the slots that are not free were all counted, those that a failed
\* pthread_create left with a name included.
THEOREM GrowFindsASlot ==
  ASSUME ProbeSeesExit PROVE Spec => []GrowHasASlot
<1>1. TypeOK /\ TakenInv /\ [Next]_vars => TakenInv'
  BY NextStep, StepTaken
<1>2. TypeOK /\ TakenInv => GrowHasASlot
  <2> SUFFICES ASSUME TypeOK, TakenInv, live_thr_num < MaxThr,
                      \A i \in Slot : ~SlotFree(i),
                      \A w \in Tid : wpc[w] # "shrunk"
               PROVE  FALSE
    BY DEF GrowHasASlot
  <2>1. \A i \in Slot : i \in Taken
    BY DEF SlotFree, IsThreadAlive, Taken, Tid
  <2>2. Taken = Slot
    BY <2>1 DEF Taken
  <2> QED BY <2>2, FiniteSlots, PoolAssumption DEF TakenInv, TypeOK
<1> QED BY <1>1, <1>2, InitTaken, TypeCorrect, PTL DEF Spec
-----------------------------------------------------------------------------
(* The end of a pool of fixed size                                           *)

\* Its threads are those it was created with, one per slot, and leave only by
\* the shutdown.
InPlace(w) == IF w <= MaxThr THEN wpc[w] \notin {"unborn", "shrunk", "exited"}
                             ELSE wpc[w] = "unborn"
FixedInv == /\ live_thr_num = MaxThr
            /\ \A s \in Slot : threads[s] = s + 1
            /\ \A w \in Tid : InPlace(w)

LEMMA StepFixed ==
  ASSUME FixedPool, TypeOK, FixedInv, Step
  PROVE  FixedInv'
<1> USE PoolAssumption
<1>1. ~MayLeave /\ ~Grows
  BY DEF FixedPool, FixedInv, MayLeave, Grows, GrowMore
<1>2. UNCHANGED <<threads, live_thr_num>>
  BY <1>1 DEF Step
<1>3. ASSUME NEW w \in Tid PROVE InPlace(w)'
  <2>1. CASE Woken
    BY <2>1 DEF Woken, FixedInv, InPlace
  <2>2. ASSUME NEW v \in Tid,
               \/ Passes(v)
               \/ Goes(v, {"took"}, "busy") \/ Goes(v, {"ran"}, "lock")
        PROVE  InPlace(w)'
    BY <2>2 DEF Passes, Goes, FixedInv, InPlace, TypeOK
  <2> QED BY <1>1, <2>1, <2>2 DEF Step
<1> QED BY <1>2, <1>3 DEF FixedInv

\* What has ended by the time threadpool_destroy is somewhere: the calls of
\* threadpool_add before it starts, the manager when it is joined, the workers
\* one by one as they are.
Left(w) == wpc[w] = "detached"
EndInv ==
  /\ des.pc # "none" => shutdown /\ \A t \in Tasks : ~InCall(t)
  /\ des.pc \notin {"none", "joinadjust"} => adj.pc = "exited"
  /\ des.pc = "join" => \A w \in Tid : w <= des.i => Left(w)
  /\ des.pc \in {"free", "freepool", "done"} =>
       \A w \in Tid : w <= MaxThr => Left(w)
  /\ pool # "live" => des.pc \in {"freepool", "done"}

\* A worker that left stays so.
LEMMA StaysLeft ==
  ASSUME TypeOK, Step, NEW w \in Tid, Left(w)
  PROVE  Left(w)'
  BY DEF TypeOK, Step, Woken, Passes, Goes, Creates, NotCreated, Fresh, Left

\* What the steps of the other threads leave to threadpool_destroy.
LEMMA EndKept ==
  ASSUME ~AddDuringDestroy, TypeOK, EndInv, Step, UNCHANGED endVars,
         shutdown /\ (\A t \in Tasks : ~InCall(t))
           => \A t \in Tasks : ~InCall(t)',
         adj.pc = "exited" => adj'.pc = "exited"
  PROVE  EndInv'
<1>1. UNCHANGED <<des, pool, shutdown>>
  BY DEF endVars
<1>2. \A w \in Tid : Left(w) => Left(w)'
  BY StaysLeft
<1> QED BY <1>1, <1>2 DEF EndInv

LEMMA DestroyEnd ==
  ASSUME FixedInv, TypeOK, EndInv, Step, ~AddDuringDestroy, Destroy
  PROVE  EndInv'
<1> USE PoolAssumption
<1>1. UNCHANGED <<call, adj, live_thr_num, threads>>
  BY DEF Destroy, DestroyMove, DestroyCall, DestroyJoinAdjust, DestroyBroadcast,
         DestroyJoin, DestroyFree, sizeVars
<1>2. /\ \A w \in Tid : Left(w) => Left(w)'
      /\ \A t \in Tasks : InCall(t)' <=> InCall(t)
  BY <1>1, StaysLeft DEF InCall
<1>3. CASE DestroyCall
  <2>1. /\ des'.pc = "joinadjust" /\ shutdown' /\ pool' = pool
        /\ des.pc = "none" /\ \A t \in Tasks : ~InCall(t)
    BY <1>3 DEF DestroyCall, DestroyMove
  <2> QED BY <1>2, <2>1 DEF EndInv
<1>4. CASE DestroyJoinAdjust
  <2>1. /\ des.pc = "joinadjust" /\ des'.pc = "broadcast" /\ adj'.pc = "exited"
        /\ UNCHANGED <<shutdown, pool>>
    BY <1>1, <1>4 DEF DestroyJoinAdjust, DestroyMove
  <2> QED BY <1>2, <2>1 DEF EndInv
<1>5. CASE DestroyBroadcast
  <2>1. /\ des.pc = "broadcast"
        /\ des'.pc = "broadcast" \/ (des'.pc = "join" /\ des'.i = 0)
        /\ UNCHANGED <<shutdown, pool>>
    BY <1>5 DEF DestroyBroadcast, DestroyMove
  <2>2. des'.pc = "join" => \A w \in Tid : ~(w <= des'.i)
    BY <2>1 DEF Tid
  <2> QED BY <1>1, <1>2, <2>1, <2>2 DEF EndInv
<1>6. CASE DestroyJoin
  <2>1. des.pc = "join" /\ UNCHANGED <<shutdown, pool>> /\ des.i \in Nat
    BY <1>6 DEF DestroyJoin, DestroyMove, TypeOK
  <2>2. CASE /\ des.i < live_thr_num /\ Joinable(threads[des.i])
             /\ des' = [pc |-> "join", i |-> des.i + 1]
    <3>1. threads[des.i] = des.i + 1 /\ des.i + 1 \in Tid /\ des.i + 1 <= MaxThr
      BY <2>1, <2>2 DEF FixedInv, Slot, Tid
    <3>2. Left(des.i + 1)
      BY <2>2, <3>1 DEF Joinable, FixedInv, InPlace, Left
    <3>3. \A w \in Tid : w <= des.i + 1 => Left(w)
      BY <2>1, <3>2 DEF EndInv, Tid
    <3> QED BY <1>1, <1>2, <2>1, <2>2, <3>3 DEF EndInv
  <2>3. CASE des.i >= live_thr_num /\ des' = [pc |-> "free", i |-> 0]
    <3>1. \A w \in Tid : w <= MaxThr => Left(w)
      BY <2>1, <2>3 DEF EndInv, FixedInv, Tid
    <3> QED BY <1>1, <1>2, <2>1, <2>3, <3>1 DEF EndInv
  <2> QED BY <1>6, <2>2, <2>3 DEF DestroyJoin, DestroyMove
<1>7. CASE DestroyFree
  <2>1. /\ des.pc \in {"free", "freepool"} /\ des'.pc \in {"freepool", "done"}
        /\ UNCHANGED shutdown
    BY <1>7 DEF DestroyFree, DestroyMove
  <2> QED BY <1>1, <1>2, <2>1 DEF EndInv
<1> QED BY <1>3, <1>4, <1>5, <1>6, <1>7 DEF Destroy

LEMMA NextEnd ==
  ASSUME ~AddDuringDestroy, FixedInv, TypeOK, EndInv, [Next]_vars
  PROVE  EndInv'
<1>1. Step
  BY NextStep
<1>2. ASSUME UNCHANGED endVars, UNCHANGED call,
             adj.pc = "exited" => adj'.pc = "exited"
      PROVE  EndInv'
  <2>1. \A t \in Tasks : InCall(t)' <=> InCall(t)
    BY <1>2 DEF InCall
  <2> QED BY <1>1, <1>2, <2>1, EndKept
<1>3. ASSUME UNCHANGED <<endVars, adj>>, BroadcastNotFull PROVE EndInv'
  <2>1. \A t \in Tasks : ~InCall(t) => ~InCall(t)'
    BY <1>3 DEF BroadcastNotFull, InCall, TypeOK
  <2> QED BY <1>1, <1>3, <2>1, EndKept
<1>4. ASSUME NEW t \in Tasks, Add(t) PROVE EndInv'
  <2>1. UNCHANGED <<endVars, adj>> /\ (InCall(t) \/ ~shutdown)
    BY <1>4 DEF Add, AddLock, AddWait, InCall
  <2> QED BY <1>1, <2>1, EndKept
<1>5. ASSUME NEW w \in Tid, Worker(w) PROVE EndInv'
  <2>1. CASE WorkerLock(w) \/ WorkerWake(w)
    BY <1>2, <1>3, <2>1 DEF WorkerLock, WorkerWake, WorkerBody
  <2>2. CASE WorkerWait(w) \/ WorkerShrink(w)
    BY <1>2, <2>2 DEF WorkerWait, WorkerShrink
  <2>3. CASE WorkerStart(w) \/ WorkerRun(w) \/ WorkerEnd(w) \/ WorkerGone(w)
    BY <1>2, <2>3 DEF WorkerStart, WorkerRun, WorkerEnd, WorkerGone, WorkerMove
  <2> QED BY <1>5, <2>1, <2>2, <2>3 DEF Worker
<1>6. CASE Spurious
  <2>1. /\ UNCHANGED <<endVars, adj>>
        /\ UNCHANGED call \/ \E t \in Tasks : InCall(t)
    BY <1>6 DEF Spurious, InCall
  <2>2. CASE UNCHANGED call
    BY <1>2, <2>1, <2>2
  <2>3. CASE \E t \in Tasks : InCall(t)
    BY <1>1, <2>1, <2>3, EndKept
  <2> QED BY <2>1, <2>2, <2>3
<1>7. CASE Adjust
  <2>1. UNCHANGED <<endVars, call>> /\ adj.pc # "exited"
    BY <1>7 DEF Adjust, AdjustLook, AdjustGrowLock, AdjustGrow, AdjustShrink,
                AdjustSignal
  <2> QED BY <1>2, <2>1
<1>8. CASE Destroy
  BY <1>1, <1>8, DestroyEnd
<1>9. CASE UNCHANGED vars
  BY <1>2, <1>9 DEF vars
<1> QED BY <1>4, <1>5, <1>6, <1>7, <1>8, <1>9 DEF Next, Returned

\* Nobody uses the memory of a pool of fixed size once threadpool_free has
\* started, if threadpool_destroy starts when no call of threadpool_add is in
\* progress: it joins the manager and then every thread there ever was.
THEOREM NoneAfterFree ==
  ASSUME FixedPool, ~AddDuringDestroy PROVE Spec => []NoUseAfterFree
<1> USE PoolAssumption
<1>1. Init => FixedInv /\ EndInv
  <2> SUFFICES ASSUME Init PROVE FixedInv /\ EndInv
    OBVIOUS
  <2>1. /\ \A s \in Slot : threads[s] = IF s < MinThr THEN s + 1 ELSE 0
        /\ \A w \in Tid : wpc[w] = IF w <= MinThr THEN "lock" ELSE "unborn"
        /\ live_thr_num = MaxThr
    BY InitSlots DEF Init, FixedPool
  <2>2. FixedInv
    BY <2>1 DEF FixedInv, InPlace, FixedPool, Slot, Tid
  <2>3. EndInv
    BY DEF Init, EndInv
  <2> QED BY <2>2, <2>3
<1>2. TypeOK /\ FixedInv /\ EndInv /\ [Next]_vars => FixedInv' /\ EndInv'
  BY NextStep, StepFixed, NextEnd
<1>3. FixedInv /\ EndInv => NoUseAfterFree
  <2> SUFFICES ASSUME FixedInv, EndInv, pool # "live"
               PROVE  /\ \A w \in Tid : ~UsesPool(w)
                      /\ \A t \in Tasks : ~InCall(t)
                      /\ adj.pc = "exited"
    BY DEF NoUseAfterFree
  <2>1. des.pc \in {"freepool", "done"}
    BY DEF EndInv
  <2>2. \A w \in Tid : ~UsesPool(w)
    BY <2>1 DEF EndInv, FixedInv, InPlace, Left, UsesPool, Tid
  <2> QED BY <2>1, <2>2 DEF EndInv
<1> QED BY <1>1, <1>2, <1>3, TypeCorrect, PTL DEF Spec

-----------------------------------------------------------------------------
(* What a step does to the tasks, whatever it does to the threads.           *)

\* threadpool_add puts t behind the last task.
Submits(t) ==
  /\ ~shutdown /\ queue_size < QueueMax /\ call[t] \in {"idle", "woken"}
  /\ Enqueue(t)
  /\ call' = [call EXCEPT ![t] = "added"]
  /\ Holding' = Holding
  /\ UNCHANGED <<task, ran, shutdown>>

\* The calls that are accepted, which nothing but Submits changes.
SameAdded == \A t \in Tasks : call'[t] = "added" <=> call[t] = "added"

\* Worker w takes the oldest task.
Takes(w) ==
  /\ ~shutdown /\ queue_size > 0 /\ wpc[w] \in {"lock", "woken"}
  /\ Dequeue(w)
  /\ wpc' = [wpc EXCEPT ![w] = "took"]
  /\ SameAdded
  /\ UNCHANGED <<ran, shutdown>>

\* w calls its task's function.
Runs(w) ==
  /\ wpc[w] = "busy" /\ wpc' = [wpc EXCEPT ![w] = "ran"]
  /\ ran' = [t \in Tasks |-> IF t = task[w] THEN ran[t] + 1 ELSE ran[t]]
  /\ UNCHANGED <<queueVars, task, call, shutdown>>

\* Every task stays where it is.
Keeps ==
  /\ UNCHANGED <<queueVars, ran>>
  /\ Holding' = Holding /\ \A w \in Holding : task'[w] = task[w]
  /\ SameAdded

TaskStep == \/ \E t \in Tasks : Submits(t)
            \/ \E w \in Tid : Takes(w) \/ Runs(w)
            \/ Keeps /\ UNCHANGED shutdown
            \/ Keeps /\ DestroyCall

LEMMA WokenHolds ==
  ASSUME TypeOK, Woken
  PROVE  Holding' = Holding
  BY DEF TypeOK, Woken, Holding

LEMMA BodyTask ==
  ASSUME TypeOK, NEW w \in Tid, wpc[w] \in {"lock", "woken"}, WorkerBody(w),
         UNCHANGED <<shutdown, ran>>
  PROVE  TaskStep
<1>1. CASE Dequeue(w) /\ ~MustWaitEmpty /\ ~shutdown /\ BroadcastNotFull
           /\ wpc' = [wpc EXCEPT ![w] = "took"]
  <2>1. queue_size > 0
    BY <1>1 DEF TypeOK, MustWaitEmpty
  <2>2. SameAdded
    BY <1>1 DEF TypeOK, BroadcastNotFull, SameAdded
  <2> QED BY <1>1, <2>1, <2>2 DEF Takes, TaskStep
<1>2. CASE UNCHANGED <<queueVars, task, call>>
           /\ \/ wpc' = [wpc EXCEPT ![w] = "willwait"]
              \/ wpc' = [wpc EXCEPT ![w] = "stopping"]
  BY <1>2 DEF TypeOK, Holding, Keeps, SameAdded, TaskStep
<1> QED BY <1>1, <1>2 DEF WorkerBody

LEMMA NextTaskStep ==
  ASSUME TypeOK, [Next]_vars
  PROVE  TaskStep
<1> USE DEF sizeVars, endVars
<1>1. CASE UNCHANGED vars
  BY <1>1 DEF vars, Holding, TaskStep, Keeps, SameAdded
<1>2. ASSUME NEW t \in Tasks, Add(t) PROVE TaskStep
  <2>1. CASE UNCHANGED <<queueVars, task, ran, shutdown>> /\ SameAdded /\ Woken
    BY <2>1, WokenHolds DEF TaskStep, Keeps
  <2>2. CASE AddLock(t) /\ ~MustWaitFull /\ ~shutdown /\ Enqueue(t)
             /\ SignalNotEmpty /\ call' = [call EXCEPT ![t] = "added"]
    <3>1. queue_size < QueueMax
      BY <2>2, PoolAssumption DEF TypeOK, MustWaitFull
    <3>2. Holding' = Holding
      BY <2>2, WakeSteps, WokenHolds
    <3> QED BY <2>2, <3>1, <3>2 DEF AddLock, TaskStep, Submits
  <2>3. CASE AddLock(t) /\ ~ (~MustWaitFull /\ ~shutdown /\ Enqueue(t)
             /\ SignalNotEmpty /\ call' = [call EXCEPT ![t] = "added"])
    <3>1. SignalNotEmpty \/ BroadcastNotEmpty \/ UNCHANGED wpc
      BY <2>3 DEF AddLock, AddBody
    <3>2. SameAdded /\ UNCHANGED <<queueVars, task, ran, shutdown>>
      BY <2>3 DEF AddLock, AddBody, TypeOK, SameAdded
    <3> QED BY <2>1, <3>1, <3>2, WakeSteps
  <2>4. CASE AddWait(t)
    BY <2>1, <2>4 DEF AddWait, TypeOK, SameAdded, Woken
  <2> QED BY <1>2, <2>2, <2>3, <2>4 DEF Add
<1>3. ASSUME NEW w \in Tid, Worker(w) PROVE TaskStep
  <2>1. CASE WorkerLock(w) \/ WorkerWake(w)
    BY <2>1, BodyTask DEF WorkerLock, WorkerWake
  <2>2. CASE WorkerWait(w) \/ WorkerShrink(w) \/ WorkerStart(w) \/ WorkerGone(w)
    BY <2>2 DEF WorkerWait, WorkerShrink, WorkerStart, WorkerGone, WorkerMove,
                TypeOK, Holding, TaskStep, Keeps, SameAdded
  <2>3. CASE WorkerRun(w)
    BY <2>3 DEF WorkerRun, WorkerMove, Runs, TaskStep
  <2>4. CASE WorkerEnd(w)
    BY <2>4 DEF WorkerEnd, WorkerMove, TypeOK, Holding, TaskStep, Keeps,
                SameAdded
  <2> QED BY <1>3, <2>1, <2>2, <2>3, <2>4 DEF Worker
<1>4. CASE Spurious
  <2>1. Woken /\ SameAdded
    BY <1>4 DEF Spurious, Sleepers, TypeOK, Woken, SameAdded
  <2> QED BY <1>4, <2>1, WokenHolds DEF Spurious, TaskStep, Keeps
<1>5. CASE Adjust
  <2>1. UNCHANGED <<queueVars, ran, task, call, shutdown>>
    BY <1>5 DEF Adjust, AdjustLook, AdjustGrowLock, AdjustGrow, AdjustShrink,
                AdjustSignal
  <2>2. Woken \/ \E w \in Fresh : wpc' = [wpc EXCEPT ![w] = "lock"]
    BY <1>5, WakeSteps DEF Adjust, AdjustLook, AdjustGrowLock, AdjustGrow,
       AdjustShrink, AdjustSignal, CreateThread
  <2>3. Holding' = Holding
    BY <2>2, WokenHolds DEF Fresh, Holding, TypeOK
  <2> QED BY <2>1, <2>3 DEF TaskStep, Keeps, SameAdded
<1>6. CASE Destroy
  <2>1. /\ UNCHANGED <<queueVars, ran, task, call>>
        /\ UNCHANGED shutdown \/ DestroyCall
    BY <1>6 DEF Destroy, DestroyMove, DestroyCall, DestroyJoinAdjust,
       DestroyBroadcast, DestroyJoin, DestroyFree
  <2>2. Woken
    BY <1>6, WakeSteps DEF Destroy, DestroyMove, DestroyCall, DestroyJoinAdjust,
       DestroyBroadcast, DestroyJoin, DestroyFree
  <2> QED BY <2>1, <2>2, WokenHolds DEF TaskStep, Keeps, SameAdded
<1> QED BY <1>1, <1>2, <1>3, <1>4, <1>5, <1>6 DEF Next, Returned

-----------------------------------------------------------------------------
(* The ring as a sequence                                                    *)

LEMMA PendingType ==
  ASSUME TypeOK
  PROVE  /\ DOMAIN Pending = 1..queue_size
         /\ \A k \in 1..queue_size :
              /\ Pending[k] = task_queue[RingIndex(k - 1)]
              /\ RingIndex(k - 1) \in Ring
<1>1. ASSUME NEW k \in 1..queue_size PROVE RingIndex(k - 1) \in Ring
  BY PoolAssumption DEF TypeOK, RingIndex, Ring
<1> QED BY <1>1 DEF Pending

\* Enqueueing writes a slot that no pending task is in.
LEMMA PendingEnqueue ==
  ASSUME TypeOK, RingAgrees, NEW t \in Tasks, Enqueue(t), queue_size < QueueMax
  PROVE  /\ queue_size' = queue_size + 1
         /\ Pending'[queue_size + 1] = t
         /\ \A k \in 1..queue_size : Pending'[k] = Pending[k]
<1> DEFINE f == queue_front  n == queue_size
<1>1. f \in Ring /\ n \in Nat /\ n < QueueMax /\ queue_rear \in Ring
  BY DEF TypeOK
<1>2. /\ queue_size' = n + 1 /\ queue_front' = f
      /\ task_queue' = [task_queue EXCEPT ![queue_rear] = t]
  BY DEF Enqueue
<1>3. Pending' = [k \in 1..n + 1 |-> task_queue'[(f + (k - 1)) % QueueMax]]
  BY <1>2 DEF Pending, RingIndex
<1>4. queue_rear = (f + n) % QueueMax
  BY DEF RingAgrees, RingIndex
<1>5. Pending'[n + 1] = t
  <2>1. (n + 1) - 1 = n /\ n + 1 \in 1..n + 1
    BY <1>1
  <2>2. Pending'[n + 1] = task_queue'[(f + n) % QueueMax]
    BY <1>3, <2>1
  <2> QED BY <1>1, <1>2, <1>4, <2>2 DEF TypeOK
<1>6. ASSUME NEW k \in 1..n PROVE Pending'[k] = Pending[k]
  <2>1. /\ k - 1 \in 0..QueueMax /\ n \in 0..QueueMax
        /\ k - 1 < n /\ k \in 1..n + 1
    BY <1>1, PoolAssumption
  <2>2. (f + (k - 1)) % QueueMax # (f + n) % QueueMax
    <3>1. (f + (k - 1)) % QueueMax = IF f + (k - 1) < QueueMax THEN f + (k - 1)
                                             ELSE (f + (k - 1)) - QueueMax
      BY <1>1, <2>1, RingValue
    <3>2. (f + n) % QueueMax = IF f + n < QueueMax THEN f + n
                                                 ELSE (f + n) - QueueMax
      BY <1>1, <2>1, RingValue
    <3> QED BY <1>1, <2>1, <3>1, <3>2, PoolAssumption DEF Ring
  <2>3. (f + (k - 1)) % QueueMax \in Ring
    BY PendingType DEF RingIndex
  <2>4. Pending'[k] = task_queue'[(f + (k - 1)) % QueueMax]
    BY <1>3, <2>1
  <2>5. Pending[k] = task_queue[(f + (k - 1)) % QueueMax]
    BY PendingType DEF RingIndex
  <2> QED BY <1>2, <1>4, <2>2, <2>3, <2>4, <2>5 DEF TypeOK
<1> QED BY <1>2, <1>5, <1>6

\* Dequeueing gives the first pending task and moves the others up.
LEMMA PendingDequeue ==
  ASSUME TypeOK, NEW w \in Tid, Dequeue(w), queue_size > 0
  PROVE  /\ queue_size' = queue_size - 1
         /\ task' = [task EXCEPT ![w] = Pending[1]]
         /\ \A k \in 1..queue_size - 1 : Pending'[k] = Pending[k + 1]
<1> DEFINE f == queue_front  n == queue_size
<1>1. f \in Ring /\ n \in Nat /\ n <= QueueMax /\ n > 0
  BY DEF TypeOK
<1>2. /\ queue_size' = n - 1 /\ queue_front' = (f + 1) % QueueMax
      /\ task' = [task EXCEPT ![w] = task_queue[f]] /\ task_queue' = task_queue
  BY DEF Dequeue
<1>3. Pending[1] = task_queue[f]
  <2>1. 1 \in 1..n /\ 1 - 1 = 0 /\ f + 0 = f
    BY <1>1, PoolAssumption DEF Ring
  <2>2. Pending[1] = task_queue[RingIndex(1 - 1)]
    BY <2>1, PendingType
  <2>3. f % QueueMax = f
    BY <1>1, PoolAssumption DEF Ring
  <2> QED BY <2>1, <2>2, <2>3 DEF RingIndex
<1>4. ASSUME NEW k \in 1..n - 1 PROVE Pending'[k] = Pending[k + 1]
  <2>1. /\ k \in Int /\ k - 1 \in 0..QueueMax /\ k \in 0..QueueMax
        /\ k + 1 \in 1..n /\ (k + 1) - 1 = k /\ 1 \in 0..QueueMax
    BY <1>1, PoolAssumption
  <2>2. (((f + 1) % QueueMax) + (k - 1)) % QueueMax = (f + k) % QueueMax
    <3> DEFINE g == (f + 1) % QueueMax
    <3>1. g = IF f + 1 < QueueMax THEN f + 1 ELSE (f + 1) - QueueMax
      BY <1>1, <2>1, RingValue
    <3>2. g \in Ring
      BY <1>1, RingStep
    <3>3. (g + (k - 1)) % QueueMax = IF g + (k - 1) < QueueMax THEN g + (k - 1)
                                     ELSE (g + (k - 1)) - QueueMax
      BY <2>1, <3>2, RingValue
    <3>4. (f + k) % QueueMax = IF f + k < QueueMax THEN f + k
                               ELSE (f + k) - QueueMax
      BY <1>1, <2>1, RingValue
    <3> HIDE DEF g
    <3>5. (g + (k - 1)) % QueueMax = (f + k) % QueueMax
      <4>1. k <= QueueMax - 1 /\ f <= QueueMax - 1 /\ f >= 0 /\ k >= 1
            /\ f \in Int /\ QueueMax \in Int
        BY <1>1, PoolAssumption DEF Ring
      <4>2. CASE f + 1 < QueueMax
        <5>1. g + (k - 1) = f + k
          BY <3>1, <4>1, <4>2, <2>1
        <5> QED BY <5>1, <3>3, <3>4
      <4>3. CASE ~(f + 1 < QueueMax)
        <5>1. f = QueueMax - 1 /\ g = 0
          BY <3>1, <4>1, <4>3
        <5>2. g + (k - 1) = k - 1 /\ (f + k) - QueueMax = k - 1
              /\ ~(f + k < QueueMax) /\ k - 1 < QueueMax
          BY <4>1, <5>1, <2>1
        <5> QED BY <5>2, <3>3, <3>4
      <4> QED BY <4>2, <4>3
    <3> QED BY <3>5 DEF g
  <2>3. Pending' = [i \in 1..n - 1 |->
                      task_queue[(((f + 1) % QueueMax) + (i - 1)) % QueueMax]]
    BY <1>2 DEF Pending, RingIndex
  <2>4. Pending[k + 1] = task_queue[RingIndex((k + 1) - 1)]
    BY <2>1, PendingType
  <2> QED BY <2>1, <2>2, <2>3, <2>4 DEF RingIndex
<1> QED BY <1>2, <1>3, <1>4

-----------------------------------------------------------------------------
(* Where the tasks are                                                       *)

Queued(t) == \E k \in 1..queue_size : Pending[k] = t
Held(t) == \E w \in Holding : task[w] = t

\* No task is twice in the ring or in two workers; a task that was accepted is
\* in one of the ring, a worker and the history, and no other is anywhere.
QueueInv == /\ \A k \in 1..queue_size : Pending[k] \in Tasks
            /\ \A k, l \in 1..queue_size : Pending[k] = Pending[l] => k = l
HeldInv  == /\ \A w \in Holding : task[w] \in Tasks
            /\ \A v, w \in Holding : task[v] = task[w] => v = w
PlaceInv == \A t \in Tasks :
  /\ ran[t] \in {0, 1}
  /\ call[t] = "added" <=> Queued(t) \/ Held(t) \/ ran[t] = 1
  /\ ~(Queued(t) /\ Held(t))
  /\ ran[t] = 1 => ~Queued(t) /\ ~Held(t)
TaskInv == QueueInv /\ HeldInv /\ PlaceInv

LEMMA InitTask == Init => TaskInv
  BY DEF Init, TaskInv, QueueInv, HeldInv, PlaceInv, Queued, Held, Holding

LEMMA SubmitTask ==
  ASSUME TypeOK, RingAgrees, TaskInv, NEW t \in Tasks, Submits(t)
  PROVE  TaskInv'
<1> DEFINE n == queue_size
<1>1. n \in Nat /\ ~Queued(t) /\ ~Held(t) /\ ran[t] = 0
  BY DEF TypeOK, TaskInv, PlaceInv, Submits
<1>2. /\ queue_size' = n + 1 /\ Pending'[n + 1] = t
      /\ \A k \in 1..n : Pending'[k] = Pending[k]
  BY PendingEnqueue DEF Submits
<1>3. \A k \in 1..n + 1 : k \in 1..n \/ k = n + 1
  BY <1>1
<1>4. 1..n \subseteq 1..n + 1 /\ n + 1 \in 1..n + 1
  BY <1>1
<1>5. QueueInv'
  BY <1>1, <1>2, <1>3 DEF TaskInv, QueueInv, Queued
<1>6. UNCHANGED <<Holding, task, ran>>
  BY DEF Submits
<1>7. HeldInv'
  BY <1>6 DEF TaskInv, HeldInv
<1>8. \A s \in Tasks : Queued(s)' <=> Queued(s) \/ s = t
  BY <1>2, <1>3, <1>4 DEF Queued
<1>9. \A s \in Tasks : Held(s)' <=> Held(s)
  BY <1>6 DEF Held
<1>10. \A s \in Tasks : call'[s] = "added" <=> call[s] = "added" \/ s = t
  BY DEF Submits, TypeOK
<1>11. PlaceInv'
  BY <1>1, <1>6, <1>8, <1>9, <1>10 DEF TaskInv, PlaceInv
<1> QED BY <1>5, <1>7, <1>11 DEF TaskInv

LEMMA TakeTask ==
  ASSUME TypeOK, TaskInv, NEW w \in Tid, Takes(w)
  PROVE  TaskInv'
<1> DEFINE n == queue_size
           t == Pending[1]
<1>1. n \in Nat /\ n > 0
  BY DEF TypeOK, Takes
<1>2. /\ queue_size' = n - 1 /\ task' = [task EXCEPT ![w] = t]
      /\ \A k \in 1..n - 1 : Pending'[k] = Pending[k + 1]
  BY PendingDequeue DEF Takes
<1>3. /\ 1 \in 1..n
      /\ \A k \in 1..n - 1 : k + 1 \in 1..n /\ k + 1 # 1 /\ k \in Int
      /\ \A k \in 1..n : k = 1 \/ (k - 1 \in 1..n - 1 /\ (k - 1) + 1 = k)
  BY <1>1
<1>4. t \in Tasks /\ Queued(t) /\ ~Held(t) /\ ran[t] = 0
  BY <1>3 DEF TaskInv, QueueInv, PlaceInv, Queued
<1>5. QueueInv'
  BY <1>2, <1>3 DEF TaskInv, QueueInv
<1>6. w \notin Holding /\ Holding' = Holding \union {w}
  BY DEF Takes, Holding, TypeOK
<1>7. task'[w] = t /\ \A v \in Tid : v # w => task'[v] = task[v]
  BY <1>2 DEF TypeOK
<1>8. Holding \subseteq Tid
  BY DEF Holding
<1>9. HeldInv'
  BY <1>4, <1>6, <1>7, <1>8 DEF TaskInv, HeldInv, Held
<1>10. \A s \in Tasks : Queued(s)' <=> Queued(s) /\ s # t
  <2> SUFFICES ASSUME NEW s \in Tasks PROVE Queued(s)' <=> Queued(s) /\ s # t
    OBVIOUS
  <2>1. ASSUME NEW k \in 1..n - 1, Pending'[k] = s PROVE Queued(s) /\ s # t
    BY <1>2, <1>3, <2>1 DEF TaskInv, QueueInv, Queued
  <2>2. ASSUME NEW k \in 1..n, Pending[k] = s, s # t
        PROVE \E l \in 1..n - 1 : Pending'[l] = s
    BY <1>2, <1>3, <2>2
  <2> QED BY <1>2, <2>1, <2>2 DEF Queued
<1>11. \A s \in Tasks : Held(s)' <=> Held(s) \/ s = t
  BY <1>6, <1>7, <1>8 DEF Held
<1>12. UNCHANGED ran /\ SameAdded
  BY DEF Takes
<1>13. PlaceInv'
  BY <1>4, <1>10, <1>11, <1>12 DEF TaskInv, PlaceInv, SameAdded
<1> QED BY <1>5, <1>9, <1>13 DEF TaskInv

LEMMA RunTask ==
  ASSUME TypeOK, TaskInv, NEW w \in Tid, Runs(w)
  PROVE  TaskInv'
<1> DEFINE t == task[w]
<1>1. w \in Holding /\ Holding' = Holding \ {w} /\ UNCHANGED task
  BY DEF Runs, Holding, TypeOK
<1>2. t \in Tasks /\ Held(t) /\ ran[t] = 0 /\ call[t] = "added" /\ ~Queued(t)
  BY <1>1 DEF TaskInv, HeldInv, PlaceInv, Held
<1>3. UNCHANGED Pending /\ UNCHANGED <<queue_size, call>>
  BY DEF Runs, queueVars, Pending, RingIndex
<1>4. QueueInv' /\ HeldInv'
  BY <1>1, <1>3 DEF TaskInv, QueueInv, HeldInv
<1>5. ran'[t] = 1 /\ \A s \in Tasks : s # t => ran'[s] = ran[s]
  BY <1>2 DEF Runs
<1>6. \A s \in Tasks : Queued(s)' <=> Queued(s)
  BY <1>3 DEF Queued
<1>7. \A s \in Tasks : Held(s)' <=> Held(s) /\ s # t
  BY <1>1 DEF Held, TaskInv, HeldInv
<1>8. PlaceInv'
  BY <1>2, <1>3, <1>5, <1>6, <1>7 DEF TaskInv, PlaceInv
<1> QED BY <1>4, <1>8 DEF TaskInv

LEMMA KeepTask ==
  ASSUME TaskInv, Keeps
  PROVE  TaskInv'
<1>1. UNCHANGED <<Pending, queue_size, ran, Holding>>
  BY DEF Keeps, queueVars, Pending, RingIndex
<1>2. \A s \in Tasks : Queued(s)' <=> Queued(s)
  BY <1>1 DEF Queued
<1>3. \A s \in Tasks : Held(s)' <=> Held(s)
  BY <1>1 DEF Held, Keeps
<1>4. QueueInv' /\ HeldInv'
  BY <1>1 DEF TaskInv, QueueInv, HeldInv, Keeps
<1>5. PlaceInv'
  BY <1>1, <1>2, <1>3 DEF TaskInv, PlaceInv, Keeps, SameAdded
<1> QED BY <1>4, <1>5 DEF TaskInv

LEMMA TaskInvariant == Spec => []TaskInv
<1>1. TypeOK /\ RingAgrees /\ TaskInv /\ [Next]_vars => TaskInv'
  BY NextTaskStep, SubmitTask, TakeTask, RunTask, KeepTask DEF TaskStep
<1> QED BY <1>1, InitTask, TypeCorrect, RingCorrect, PTL DEF Spec

\* An accepted task is in the queue, in one worker, or done, in one of these
\* places and once, whatever the threads, the ring and their numbers.
THEOREM EachTaskOnce == Spec => []NoTaskLostOrDuplicated
<1>1. TypeOK /\ TaskInv => NoTaskLostOrDuplicated
  <2> SUFFICES ASSUME TypeOK, TaskInv, NEW t \in Tasks
               PROVE  Cardinality({i \in DOMAIN Pending : Pending[i] = t})
                        + Cardinality({w \in Holding : task[w] = t}) + ran[t]
                      = IF call[t] = "added" THEN 1 ELSE 0
    BY DEF NoTaskLostOrDuplicated
  <2> DEFINE Q == {i \in DOMAIN Pending : Pending[i] = t}
             H == {w \in Holding : task[w] = t}
  <2>1. Cardinality(Q) = IF Queued(t) THEN 1 ELSE 0
    <3>1. DOMAIN Pending = 1..queue_size
      BY PendingType
    <3>2. CASE Queued(t)
      <4>1. PICK k \in 1..queue_size : Pending[k] = t
        BY <3>2 DEF Queued
      <4>2. Q = {k}
        BY <3>1, <4>1 DEF TaskInv, QueueInv
      <4> QED BY <3>2, <4>2, FS_Singleton
    <3>3. CASE ~Queued(t)
      <4>1. Q = {}
        BY <3>1, <3>3 DEF Queued
      <4> QED BY <3>3, <4>1, FS_EmptySet
    <3> QED BY <3>2, <3>3
  <2>2. Cardinality(H) = IF Held(t) THEN 1 ELSE 0
    <3>1. CASE Held(t)
      <4>1. PICK w \in Holding : task[w] = t
        BY <3>1 DEF Held
      <4>2. H = {w}
        BY <4>1 DEF TaskInv, HeldInv
      <4> QED BY <3>1, <4>2, FS_Singleton
    <3>2. CASE ~Held(t)
      <4>1. H = {}
        BY <3>2 DEF Held
      <4> QED BY <3>2, <4>1, FS_EmptySet
    <3> QED BY <3>1, <3>2
  <2>3. ran[t] \in {0, 1}
    BY DEF TaskInv, PlaceInv
  <2> HIDE DEF Q, H
  <2>4. Cardinality(Q) + Cardinality(H) + ran[t]
        = IF call[t] = "added" THEN 1 ELSE 0
    BY <2>1, <2>2, <2>3 DEF TaskInv, PlaceInv
  <2> QED BY <2>4 DEF Q, H
<1> QED BY <1>1, TypeCorrect, TaskInvariant, PTL

-----------------------------------------------------------------------------
(* The queue of tasks that the header promises                               *)

\* The pool is shut down from the first step of threadpool_destroy on.
ShutInv == shutdown <=> des.pc # "none"

LEMMA ShutInvariant == Spec => []ShutInv
<1>1. Init => ShutInv
  BY DEF Init, ShutInv
<1>2. TypeOK /\ ShutInv /\ [Next]_vars => ShutInv'
  <2> SUFFICES ASSUME TypeOK, ShutInv, [Next]_vars PROVE ShutInv'
    OBVIOUS
  <2>1. CASE UNCHANGED <<shutdown, des>>
    BY <2>1 DEF ShutInv
  <2>2. CASE Destroy
    BY <2>2 DEF Destroy, DestroyMove, DestroyCall, DestroyJoinAdjust,
       DestroyBroadcast, DestroyJoin, DestroyFree, ShutInv
  <2>3. ASSUME NEW t \in Tasks, Add(t) PROVE UNCHANGED <<shutdown, des>>
    BY <2>3 DEF Add, AddLock, AddWait, endVars
  <2>4. ASSUME NEW w \in Tid, Worker(w) PROVE UNCHANGED <<shutdown, des>>
    BY <2>4 DEF Worker, WorkerLock, WorkerWait, WorkerShrink, WorkerWake,
       WorkerStart, WorkerRun, WorkerEnd, WorkerGone, WorkerMove, endVars
  <2>5. CASE Spurious \/ Adjust
    BY <2>1, <2>5 DEF Spurious, Adjust, AdjustLook, AdjustGrowLock, AdjustGrow,
       AdjustShrink, AdjustSignal, endVars
  <2> QED BY <2>1, <2>2, <2>3, <2>4, <2>5 DEF Next, Returned, vars, endVars
<1> QED BY <1>1, <1>2, TypeCorrect, PTL DEF Spec

\* The values of the abstract queue's variables, by the names used below.
Running == {task[w] : w \in Holding}
Finished == {t \in Tasks : ran[t] > 0}

LEMMA PendingSeq ==
  ASSUME TypeOK, QueueInv
  PROVE  Pending \in Seq(Tasks) /\ Len(Pending) = queue_size
<1>1. queue_size \in Nat
  BY DEF TypeOK
<1>2. Pending \in [1..queue_size -> Tasks]
  BY DEF QueueInv, Pending
<1> QED BY <1>1, <1>2

\* A worker at the queue is counted and holds nothing, so fewer tasks than
\* max_thr_num are held.
LEMMA RoomToRun ==
  ASSUME TypeOK, CountInv, NEW w \in Tid, wpc[w] \in {"lock", "woken"}
  PROVE  Cardinality(Running) < MaxThr
<1>1. Holding \subseteq Counted \ {w} /\ w \in Counted
  BY DEF Holding, Counted
<1>2. /\ IsFiniteSet(Counted \ {w})
      /\ Cardinality(Counted \ {w}) = Cardinality(Counted) - 1
  BY <1>1, FiniteThreads, FS_RemoveElement
<1>3. /\ IsFiniteSet(Holding) /\ Cardinality(Holding) \in Nat
      /\ Cardinality(Holding) <= Cardinality(Counted) - 1
  BY <1>1, <1>2, FS_Subset, FS_CardinalityType
<1>4. Cardinality(Running) <= Cardinality(Holding) /\ IsFiniteSet(Running)
  <2> DEFINE f == [v \in Holding |-> task[v]]
  <2>1. f \in Surjection(Holding, Running)
    BY DEF Surjection, Running
  <2> QED BY <1>3, <2>1, FS_Surjection
<1>5. Cardinality(Running) \in Nat
  BY <1>4, FS_CardinalityType
<1>6. Cardinality(Counted) <= live_thr_num /\ live_thr_num <= MaxThr
      /\ live_thr_num \in Int
  BY DEF CountInv, TypeOK
<1> QED BY <1>3, <1>4, <1>5, <1>6, FiniteThreads, PoolAssumption

LEMMA SameCardinality ==
  ASSUME NEW S
  PROVE  Abstract!Cardinality(S) = Cardinality(S)
  BY DEF Abstract!Cardinality, Cardinality

LEMMA SubmitRefines ==
  ASSUME TypeOK, RingAgrees, TaskInv, NEW t \in Tasks, Submits(t)
  PROVE  Abstract!Submit(t)
<1> DEFINE n == queue_size
<1>1. TaskInv'
  BY SubmitTask
<1>2. n \in Nat /\ n < QueueMax /\ ~shutdown /\ UNCHANGED <<Holding, task, ran,
        shutdown>>
  BY DEF TypeOK, Submits
<1>3. ~Queued(t) /\ ~Held(t) /\ ran[t] = 0
  BY DEF TypeOK, TaskInv, PlaceInv, Submits
<1>4. Pending \in Seq(Tasks) /\ Len(Pending) = n /\ DOMAIN Pending = 1..n
  BY PendingSeq, PendingType DEF TaskInv
<1>5. t \notin Abstract!Known
  BY <1>3, <1>4 DEF Abstract!Known, Queued, Held
<1>6. Pending' = Append(Pending, t)
  <2>1. /\ queue_size' = n + 1 /\ Pending'[n + 1] = t
        /\ \A k \in 1..n : Pending'[k] = Pending[k]
    BY PendingEnqueue DEF Submits
  <2>2. Pending' \in Seq(Tasks) /\ Len(Pending') = n + 1
    <3>1. n + 1 \in Nat /\ \A k \in 1..n + 1 : Pending'[k] \in Tasks
      BY <1>1, <1>2, <2>1 DEF TaskInv, QueueInv
    <3>2. Pending' \in [1..n + 1 -> Tasks]
      BY <2>1, <3>1 DEF Pending
    <3> QED BY <3>1, <3>2
  <2>3. /\ Append(Pending, t) \in Seq(Tasks) /\ Len(Append(Pending, t)) = n + 1
        /\ \A k \in 1..n : Append(Pending, t)[k] = Pending[k]
        /\ Append(Pending, t)[n + 1] = t
    BY <1>2, <1>4, AppendProperties
  <2>4. \A k \in 1..n + 1 : k \in 1..n \/ k = n + 1
    BY <1>2
  <2>5. \A k \in 1..Len(Pending') : Pending'[k] = Append(Pending, t)[k]
    BY <2>1, <2>2, <2>3, <2>4
  <2> QED BY <2>2, <2>3, <2>5, SeqEqual
<1> QED BY <1>2, <1>4, <1>5, <1>6 DEF Abstract!Submit

LEMMA TakeRefines ==
  ASSUME TypeOK, CountInv, TaskInv, NEW w \in Tid, Takes(w)
  PROVE  Abstract!Start
<1> DEFINE n == queue_size
<1>1. n \in Nat /\ n > 0 /\ ~shutdown /\ UNCHANGED <<ran, shutdown>>
  BY DEF TypeOK, Takes
<1>2. Pending \in Seq(Tasks) /\ Len(Pending) = n /\ Pending # <<>>
  BY <1>1, PendingSeq DEF TaskInv
<1>3. /\ queue_size' = n - 1 /\ task' = [task EXCEPT ![w] = Pending[1]]
      /\ \A k \in 1..n - 1 : Pending'[k] = Pending[k + 1]
  BY PendingDequeue DEF Takes
<1>4. Head(Pending) = Pending[1]
  BY <1>2
<1>5. Pending' = Tail(Pending)
  <2>1. Pending' \in Seq(Tasks) /\ Len(Pending') = n - 1
    <3>1. n - 1 \in Nat /\ \A k \in 1..n - 1 : Pending'[k] \in Tasks
      BY <1>1, <1>3, TakeTask DEF TaskInv, QueueInv
    <3>2. Pending' \in [1..n - 1 -> Tasks]
      BY <1>3, <3>1 DEF Pending
    <3> QED BY <3>1, <3>2
  <2>2. /\ Tail(Pending) \in Seq(Tasks) /\ Len(Tail(Pending)) = n - 1
        /\ \A k \in 1..n - 1 : Tail(Pending)[k] = Pending[k + 1]
    BY <1>2, HeadTailProperties
  <2>3. \A k \in 1..Len(Pending') : Pending'[k] = Tail(Pending)[k]
    BY <1>3, <2>1, <2>2
  <2> QED BY <2>1, <2>2, <2>3, SeqEqual
<1>6. Running' = Running \union {Pending[1]}
  <2>1. /\ w \notin Holding /\ Holding' = Holding \union {w}
        /\ Holding \subseteq Tid
    BY DEF Takes, Holding, TypeOK
  <2> QED BY <1>3, <2>1 DEF Running, TypeOK
<1>7. Cardinality(Running) < MaxThr
  BY RoomToRun DEF Takes
<1> QED BY <1>1, <1>2, <1>4, <1>5, <1>6, <1>7, SameCardinality
       DEF Abstract!Start, Running

LEMMA RunRefines ==
  ASSUME TypeOK, TaskInv, NEW w \in Tid, Runs(w)
  PROVE  \E t \in Tasks : Abstract!Finish(t)
<1> DEFINE t == task[w]
<1>1. w \in Holding /\ Holding' = Holding \ {w} /\ UNCHANGED <<task, shutdown>>
  BY DEF Runs, Holding, TypeOK
<1>2. t \in Tasks /\ t \in Running /\ ran[t] \in Nat
  BY <1>1 DEF TaskInv, HeldInv, TypeOK, Running
<1>3. UNCHANGED Pending
  BY DEF Runs, queueVars, Pending, RingIndex
<1>4. Running' = Running \ {t}
  BY <1>1 DEF Running, TaskInv, HeldInv
<1>5. Finished' = Finished \union {t}
  BY <1>2 DEF Finished, Runs
<1> QED BY <1>1, <1>2, <1>3, <1>4, <1>5
        DEF Abstract!Finish, Running, Finished

LEMMA KeepRefines ==
  ASSUME Keeps
  PROVE  UNCHANGED <<Pending, Running, Finished>>
<1>1. UNCHANGED <<Pending, ran, Holding>>
  BY DEF Keeps, queueVars, Pending, RingIndex
<1> QED BY <1>1 DEF Keeps, Running, Finished

\* However many threads, callers and tasks there are, the pool is the bounded
\* queue of tasks that TaskPool describes: every step is one of its steps, on
\* the ring read as a sequence, or leaves it alone.
THEOREM PoolImplementsTaskPool == Spec => ImplementsTaskPool
<1>1. Init => Abstract!PInit
  <2> SUFFICES ASSUME Init PROVE Abstract!PInit
    OBVIOUS
  <2>1. /\ queue_size = 0 /\ Holding = {} /\ ~shutdown
        /\ \A t \in Tasks : ran[t] = 0
    BY DEF Init, Holding
  <2>2. Pending = <<>>
    BY <2>1 DEF Pending
  <2> QED BY <2>1, <2>2 DEF Abstract!PInit
<1>2. TypeOK /\ RingAgrees /\ CountInv /\ TaskInv /\ ShutInv /\ [Next]_vars
        => [Abstract!PNext]_Abstract!pvars
  <2> SUFFICES ASSUME TypeOK, RingAgrees, CountInv, TaskInv, ShutInv,
                      [Next]_vars
               PROVE  [Abstract!PNext]_Abstract!pvars
    OBVIOUS
  <2>1. ASSUME NEW t \in Tasks, Submits(t) PROVE Abstract!PNext
    BY <2>1, SubmitRefines DEF Abstract!PNext
  <2>2. ASSUME NEW w \in Tid, Takes(w) PROVE Abstract!PNext
    BY <2>2, TakeRefines DEF Abstract!PNext
  <2>3. ASSUME NEW w \in Tid, Runs(w) PROVE Abstract!PNext
    BY <2>3, RunRefines DEF Abstract!PNext
  <2>4. CASE Keeps /\ UNCHANGED shutdown
    BY <2>4, KeepRefines DEF Abstract!pvars, Running, Finished
  <2>5. CASE Keeps /\ DestroyCall
    <3>1. shutdown = FALSE /\ shutdown' = TRUE
      BY <2>5 DEF DestroyCall, DestroyMove, ShutInv, TypeOK
    <3>2. Abstract!Close
      BY <2>5, <3>1, KeepRefines DEF Abstract!Close, Running, Finished
    <3> QED BY <3>2 DEF Abstract!PNext
  <2> QED BY <2>1, <2>2, <2>3, <2>4, <2>5, NextTaskStep DEF TaskStep
<1> QED BY <1>1, <1>2, TypeCorrect, RingCorrect, Counts, TaskInvariant,
           ShutInvariant, PTL DEF Spec, ImplementsTaskPool, Abstract!PSpec

=============================================================================
