# TLA+ models of linux28

linux28 is a collection of C programs about Linux system programming: a thread
pool, event-driven TCP servers, two HTTP servers, socket wrappers, and smaller
programs on processes, pipes, signals, threads and synchronisation. There is
no single program; the models follow the programs with logic of their own.

## 1. Inventory

| part | code | state | operations | what is hard |
|---|---|---|---|---|
| thread pool | `thread_pool/threadpool.c` | ring of tasks, slots of threads, four counters, `shutdown`, a mutex and two condition variables | create, add, worker loop, manager loop (grow, shrink), destroy, free | every pair of actors interleaves; wake-ups can be lost or taken by the wrong thread; memory is freed while threads may use it |
| event loop | `tcp_socket/moreIO_concurrent/epoll_ET_LT/epoll_loop.c` | `g_events` table, epoll set, one buffer per connection | accept, receive, send, timeout sweep | one callback changes what later events of the same batch mean; table full; idle timeout racing data |
| HTTP servers | `http_server_BS/myhttpd.c`, `server.c`, `libevent_http_server/` | epoll set, connections in edge-triggered mode | accept, read a request line by line, send a file | the peer closes or stops in the middle of a request; non-blocking reads and writes that return less, or EAGAIN |
| socket wrappers | `*/wrap.c` (nine copies), `wrap.h` | static buffer of `my_read` | Accept, Read, Readn, Writen, Readline | interrupted and short calls; one static buffer for every descriptor |
| select, poll and epoll servers | `tcp_socket/moreIO_concurrent/select_concurrent`, `poll_concurrent`, `epoll_concurrent` | table of clients, ready set | accept, echo, close | table full, compaction while scanning, count of ready descriptors |
| process and thread servers | `tcp_socket/mult_process_concurrent`, `mult_pthread_concurrent` | children or threads, one per client | fork or create, reap | signal between fork and the handler's installation, table of threads never bounded |
| producer and consumer | `pthread_sync/sem_produce_consumer.c`, `cond_produce_consumer.c` | ring of NUM places, or a list | produce, consume | blocking, wake-ups, order |
| other synchronisation programs | `pthread_sync/pthread_LOCK.c`, `pthread_shareMutex.c`, `rwlock.c` | mutexes, a counter | lock in two orders, print under a lock, read and write | deadlock, destroying a mutex in use, counter read outside the lock |
| parents and children | `signal_test/signal_1/catch_child.c`, `kill_loopfork.c`, `IPC_test/process/numfork.c`, `wait/` | pending and blocked signal, zombies | fork, catch, wait, poll, kill | signals merge, a child ends before the handler is there |
| pipes, FIFOs and epoll on a stream | `IPC_test/IPC_test/pipe`, `fifo`, `epoll_ET_LT/1-epoll`, `3-nonblock_epoll`, `libevent/event` | a stream, its open ends, the edge | open, write, read, exec | opens that wait for each other, end of file, an edge reported once |
| datagram servers | `udp_socket` | ports, queues of datagrams | sendto, recvfrom | datagrams are dropped, a port passes to another client |
| bufferevent examples | `libevent/bufferevent` | a bufferevent per client at each end | callbacks of terminal, read and event | a callback frees what another keeps a pointer to |
| recursive listings | `mysys/ls-R.c`, `IPC_test/homework/ls1-R.c` | open directories, one per call | list, descend | links back, paths too long, directories left open |
| shared maps | `IPC_test/IPC_test/mmap` | a mapped page | store, load | no protocol |
| threads, daemons, signals, timers | `pthread`, the rest of `signal_test` | - | one library call per program | - |
| libraries, build, commands | `staticlib`, `dynamiclib`, `maketest`, the rest of `mysys`, `build` | - | - | no state to speak of |

The thread pool's actors meet only in the pool structure; the servers' actors
(the loop, the peers, the kernel) meet in the descriptors. The programs share
no state with one another.

What makes each correct: the pool runs every accepted task once, in order, loses
no wake-up, keeps its counters true and ends cleanly; the event loop keeps its
table, the epoll set and the open descriptors in agreement and serves every
connection; an HTTP connection gets one answer and is closed once; a wrapper
transfers the bytes in order whatever interrupts it; an echo server keeps its
clients apart, serves each and closes who has left, however it keeps them; a
buffer delivers each item once and blocks nobody for good; a parent waits for
all its children; a listing's links lead where they say.

## 2. Plan

All of it is done.

1. `TaskPool` (abstract queue of tasks), `ThreadPool` (the code), `MCThreadPool`
   and its runs, `ThreadPoolProofs`.
2. `EventLoop`: the table of connections and the epoll set of `epoll_loop.c`.
3. `HttpServer`: `myhttpd.c` and `server.c`, from accept to disconnect.
4. `Producers` over an abstract `Buffer`, and `Locks`.
5. `Sockets` (a client, the kernel and the wrappers' calls), with two modules on
   top: `TableServers` (one process, a table) and `ForkServers` (a process or a
   thread per client); `StreamWrap` for the wrappers that read in parts.
6. `Children`, `Streams`, `LibeventHttp`, `Datagrams`, `Bufferevents`,
   `Listing`; `MCPrograms` puts 4 to 6 together for TLC.
7. Theorems (section 5): the pool, the event loop, the HTTP servers, the two
   producer-consumer programs, the locks, the children, the wrappers, the
   libevent server and the bufferevents; then the echo servers, whose
   `EchoWhole` needs the invariants of `TableServers`, `ForkServers` and
   `Datagrams`; then links and listings, and the types of all these modules.

Abstract specifications: `TaskPool` and `Buffer`.

## 3. Modules and code

A module's actions keep the names of the functions of the code where it has
one for them; `PROJECT.json` gives the lines of each definition.

### ThreadPool and TaskPool

State: the fields of `threadpool_t`, one variable each; `wpc` and `task` are a
worker's position and local, `call` the position of each call of
`threadpool_add`, `adj` the manager with the values it has sampled, `des` the
call of `threadpool_destroy`. `locked` is `pool->lock` as seen between steps.

A critical section under `pool->lock` is one step. It is split where someone
outside can tell: between the test of a wait loop and `pthread_cond_wait`
(`threadpool_destroy` writes `shutdown` without the lock, so the test can be out
of date when the thread falls asleep), and during the manager's growing loop.
The sections under `thread_counter` touch one field and are one step.

Where `pthread_create` fails, its result is ignored: `live_thr_num` counts the
thread all the same, and the slot, which POSIX then leaves undefined, keeps what
it held or names a thread that is yet to be born (`FirstIds`, `CreateThread`).

| code | actions |
|---|---|
| `threadpool_thread`, 162-223 | `WorkerLock`, `WorkerWait`, `WorkerWake`, `WorkerShrink`, `WorkerStart`, `WorkerRun`, `WorkerEnd`, `WorkerGone` |
| `threadpool_add`, 123-154 | `AddLock`, `AddWait` |
| `adjust_thread`, 229-280 | `AdjustLook`, `AdjustGrowLock`, `AdjustGrow`, `AdjustShrink`, `AdjustSignal` |
| `threadpool_destroy`, `threadpool_free`, 282-327 | `DestroyCall`, `DestroyJoinAdjust`, `DestroyBroadcast`, `DestroyJoin`, `DestroyFree` |
| the C library | `Spurious` wake-ups; `ProbeSeesExit`: what `pthread_kill(tid, 0)` says of a thread that has exited; `CreateMayFail` |

`TaskPool` is the promise of `threadpool.h`: a bounded queue from which at most
so many tasks run at a time, each once. `ThreadPool` refines it with `pending`
read off the ring, `running` the tasks workers hold, `finished` those run and
`open` the absence of shutdown.

### EventLoop

State: `g_events`, `checkpos`, the events of the batch not yet looked at, and
the kernel's side (`file`: the connection behind each descriptor; `epoll`;
`backlog`; `unread`). A callback is one step, because the program has one thread
and no call in a callback blocks; peers and the clock move between steps.
`AcceptConn`, `RecvData`, `SendData`/`SendFails` are the callbacks with all the
calls of `eventset`, `eventadd` and `eventdel` they make, `Sweep` the loop over
100 entries, `Wait` `epoll_wait`, `HandleAccept`, `HandleRecv`, `HandleSend` the
body of the loop over the batch. `last_active` is kept as the ticks since
(`idle`), capped at the limit, which is all the sweep looks at. Descriptor
numbers are reused lowest first, as the kernel does; without one, `accept` fails
and the connection stays queued, so that the listener is ready all the time.

A writable socket takes a whole buffer: Linux reports it writable only with a
third of its buffer free, at least 5 KiB, and `BUFLEN` is 4 KiB.

### HttpServer

One module for `myhttpd.c` and `server.c`, which share their text but for the
handling of failed calls; `prog` says which runs. Input is a sequence of lines,
a line a token; `half` is the beginning of a request line, cut in its method or
in its path, whose end comes in a later segment or never. `GetLine` returns what the two `get_line` return: a whole line, a
part of one with -1 when the data ends for now or by a reset, or what there is
at the end of the file. `do_read` is a sequence of steps (`RequestLine`,
`HeaderLine`, `AnswerFile`, `SendChunk` ...), so that data, closes and resets
can arrive between any two calls. `edge` is the edge-triggered event of a
descriptor; it is raised by arrivals, and when a descriptor that is readable is
added, and lowered when `epoll_wait` reports it.

Undefined behaviour is a choice: `server.c:152` calls `fcntl` without its third
argument, so the descriptor blocks or not; `myhttpd.c:235` compares `method`
when nothing set it, so the server goes on or ends (every way through
`http_request` and the second `disconnect` of a closed descriptor ends it).

### Sockets, TableServers, ForkServers

`Sockets` has what the echo servers share. `conn` is a connection from the
server's side, `peer` the client: a client of `Lockstep` is `client.c`, which
sends a line, waits for its answer and closes after the last; another may end
its side, close, or reset whenever it likes. `ReadReturns`, `ReadResult` and
`ReadEffect` are `Read` and what the kernel gives it (data, then the end or one
error, then 0); `WriteEffect` and `WriteKills` are `Write`: an answer to a
client that has closed brings a reset, and the next write is SIGPIPE, which no
server handles. A local socket knows at once: there the first write is SIGPIPE
(`Kills`, for `domain_socket/server.c`). A write with length -1 (the result of a failed `Read`) fails.

`TableServers` is one module for six servers, because they differ in the table
and in what follows a close, and in nothing else; `prog` says which.

| `prog` | code | table | after a close |
|---|---|---|---|
| `primary` | `select_primary/server.c` | the descriptors up to `maxfd` | nothing moves |
| `server` | `select_concurrent/server.c` | `client[]`, `maxi` | an empty place |
| `myserver` | `select_concurrent/myserver.c` | `client[]`, `maxi`, `num` | an empty place; `maxi` goes down to the last one in use |
| `myserver1` | `select_concurrent/myserver1.c` | `client[]`, `num`, dense | those behind move up by one |
| `poll` | `poll_concurrent/server.c` | `client[]` of `pollfd`, `maxi` | an empty place |
| `epoll` | `epoll_concurrent/server.c` | the batch of events | nothing moves |

A step is one system call with what the code does up to the next: `Wait` (the
sets are copied, `ready` filled in), `Accept`, `AcceptFails`, `TooMany`,
`AcceptBeyond`, `ReadData`, `ReadEnd`, `ReadFails`, `Writen`, `SigPipe`.
`ScanOn` and `BatchOn` find the next entry that counts as ready, with `nready`
counted down as the code does. A place never used has `revents` of any value
(`poll`). Past the end of a table or of an `fd_set` the behaviour is undefined,
and the model stops (`pc = "undefined"`).

`ForkServers` is the process server, the thread server, `domain_socket` and
`tcp_socket/server.c`. `task[n]` serves the n-th accepted client; `holders` says
which processes have a connection's descriptor, since a connection ends with
its last one. `Install` is the parent after `fork`, `Catch`, `Reap` and
`CatchReturns` the handler with SIGCHLD blocked.

### Producers and Buffer, Locks

`Producers`: a step is a `sem_wait`, an access to the ring or a `sem_post`
(`sem_produce_consumer.c`), or a critical section (`cond_produce_consumer.c`,
where the signal after the unlock is a step of its own). `Buffer` is what both
promise: a set of products `held` that grows by one and from which each is
taken once, for a ring at most `NUM` and oldest first. The mapping reads `held`
off the ring or the list and `taken` off what was printed or is in a consumer's
hand.

`Locks`: a step is a call on a lock or an access to what it protects, so that
`++counter` is a load and a store. Destroying a mutex somebody holds fails
(EBUSY), and locking a destroyed one too (EINVAL).

### Children, Streams, StreamWrap

`Children`: parents that fork several children and wait in a handler
(`catch_child.c`, with SIGCHLD blocked until the handler is there), by polling,
for one of them, or not at all. `Streams`: a writer, a reader, the open of a
FIFO (which waits for the other side, and may be of a FIFO somebody left or
removes), and `edge`, the edge-triggered event. `StreamWrap`: `Writen`,
`Readn`, `my_read` and `Readline` with the static buffer; their caller is any
caller, because no program of the repository calls the last three. Any read or
write of theirs may fail: the call returns -1, what it had stored before is
there but uncounted, and a sender whose `Writen` has failed (`failedTo`) sends
no more.

### LibeventHttp, Bufferevents, Datagrams, Listing

`LibeventHttp`: a callback of `libevent_http.c` in two steps, between which a
file may go away or change its size. Names are sequences of characters, so that
`strencode` and `strdecode` are what they are: the page has a link, the browser
resolves it against the page it asked for, the server decodes it. `.` and `..`,
which `scandir` gives too, are links of every listing that the browser takes
out of the url itself (`FollowDots`). libevent's
side: output is sent between callbacks; the end of the input frees the
bufferevent with what it has not sent. `Bufferevents`: `ev_server.c` and
several `ev_client.c`; an answer is counted as the lines that were read with it.
`Datagrams`: a full buffer or an unbound port drops a datagram, and `heirs` are
clients that got a port with a datagram to its last owner under way. `Listing`:
`calls` is the stack of `fetchdir`, each with the entries `readdir` has not
given yet, in any order.

### MCPrograms

These programs never run together. `MCPrograms` declares the variables of all
of them, and `which` says whose actions are taken; the others stay in one
initial state. Its properties are the modules' own, of the one that runs. The
modules name their assumptions on the constants without assuming them;
`ProgramsAssumption` does, so that TLC evaluates each.

## 4. Runs

| run | instance | shows |
|---|---|---|
| `PoolDynamic` | 3 tasks, 1 to 3 workers, queue of 2, callers active during destroy | types, counters, ring, exactly-once, mutual exclusion, joins, and that the pool implements `TaskPool` |
| `PoolGrow` | 2 tasks, 1 to 2 workers, queue of 1, 3 threads in all, `pthread_create` may fail, exited threads can be told, fair manager | every thread is counted; exactly-once survives; there is a slot whenever the pool may grow; the manager stops after shutdown, from its growing and shrinking too |
| `PoolLive` | 2 tasks, 2 workers, queue of 1, fair | no wake-up lost, tasks run, callers let in, nothing freed in use |
| `PoolHang` | 1 task, 1 worker, fair | **violated**: `threadpool_destroy` may never return |
| `PoolFreedInUse` | 2 tasks, 1 to 2 workers | **violated**: a live worker in a high slot is not joined, and uses freed memory |
| `PoolStranded` | 3 tasks, 1 to 2 workers, queue of 2, fair | **violated**: a worker woken for a task leaves instead; the task waits for ever with every worker asleep |
| `EventTable` | 3 clients, 1 entry, 2 descriptors, 2 units each, buffer of 2 | table and epoll set agree, data goes back to its sender, all of it |
| `EventLive` | 2 clients, 2 entries, sweep of 1, 2 units each, fair | no stale event in a batch; every client in the table is closed in the end |
| `EventSilent` | 2 clients, 1 entry, fair | **violated**: an accepted client without an entry is never closed |
| `HttpServe` | 2 clients, both programs, file of 5 units in chunks of 3 | one answer per connection, the file in order, no event of an orderly client lost |
| `HttpClosed` | 1 client, both programs, fair | **violated**: a close in the middle of the headers makes the loop spin |
| `Programs` | every module of `MCPrograms` in turn | the thirteen properties below |

The properties of `Programs`, and what each says of which program:

| property | says |
|---|---|
| `TypeOK` | the types of the module that runs |
| `TableHolds` | tables: between rounds the server watches its open connections, each once, in the scan's reach, counted right |
| `EchoWhole` | tables, forks: a client gets back what it sent, in order, nobody else's; datagrams: each answer shown is the one to the line, unless the port was inherited |
| `OneServerEach` | forks: while main accepts, each open connection is served by one task, and its descriptor is nobody else's |
| `Undivided` | locks: no line is cut by another, no write lost, no write under a reader |
| `NoneLeft` | children: no zombie without a signal on its way; none left at the end |
| `StreamInOrder` | wrappers: bytes in order and none lost, unless the static buffer has another descriptor's |
| `LinksOpen` | libevent server: a link leads to what it names; listings: everything printed once, unless below a directory that was given up |
| `AnswersWhole` | libevent server: header and body of one file, of one length; bufferevents: freed memory is used only once the server has ended, and how that comes about |
| `ImplementsBuffer` | both producer-consumer programs are `Buffer` |
| `Served` | servers of every kind: who keeps to the protocol is answered, who has left is closed |
| `Reaped` | children: a dead one is waited for |
| `GoesOn` | products are used, the two locks end or cross, streams are read to their end, a listing ends |

Each has its exceptions in its text (a table run out of descriptors, a hang-up
passed over, a datagram dropped, ...), and these are the observations of
section 6. What is promised "in the end" is written `[]<>~(Owed /\ ~Settled)`:
what is owed stays owed until it is settled, so this is `Owed ~> Settled`, which
is how the modules put it. Without deadlock check: programs end, threads block
for good, clients leave.

The violated ones are disagreements between the code and what its comments say;
`PROJECT.json`, "findings", quotes them. `PoolHang` is the reason why
`ManagerStops` is about the manager and not about destroy: the first join
returns, the later ones may not. In `PoolStranded` the manager goes round for
ever and sends no further signal, since the pool is at its minimum: only another
call of `threadpool_add` would wake anybody. Where `pthread_create` fails, a
pool may have no thread at all while `live_thr_num` is at its minimum, which is
why the bounds of that counter are checked in `PoolDynamic`, where it counts
threads; `PoolGrow` checks that it never counts too few.
`PoolGrow` ends where the code would pass tid 0 to
`pthread_join`, hence no deadlock check there.

Every property has a mutant: an operator defined just before the one it would
replace, which changes it as a plausible slip would (a signal forgotten, a
counter not decremented, a free entry not looked for). With it, TLC finds the
property violated.

### Bounds

Tasks, clients and units of data are interchangeable, so two of a kind show any
interference between two actors, a third one what the other two leave behind. A
queue of two wraps; with one it is full after one call. Three workers are the
least with which a slot in the middle can be empty while those beside it live.
`MaxTid` bounds the threads a process creates: at 3 a slot of the pool of 2 is
used a second time. `Vary` of 2 lets the manager ask for more exits than there
are idle workers. In `PoolGrow` one waiting task makes the manager grow the
pool from one to two, and two idle workers make it shrink, at any moment of a
destroy. One entry and two descriptors make both the table and the
descriptors run out with three clients; with two entries and a sweep of one, an
entry is out of the sweep's sight every other round. A file of five units in
chunks of three, in a buffer of three: a chunk is sent whole, in part and not at
all.

In `Programs` three clients do what clients can: one runs `client.c`, one sends
a line and leaves in any way at any time, one says nothing. `TableSize` and
`SetSize` of 3 are full with the listener and two clients; `Limits` gives
descriptors for two clients, or for three with which the table or the set
overflows. `Slots` of 2 is exceeded by the third client. `NUM` 2 with 4
`Products` goes round the ring twice; two consumers compete for the list, as the
comment at `cond_produce_consumer.c:30` foresees. `Writes` 3 by two writers
lets a printed value be two writes old. `Count` 3 children are enough for two
ends in one signal and a third after it. `ReadBuf` 2 is less than a line of
three, so that a line needs a refill; `Sizes` 1 and 3 are below and above a
line. `Data`, the names in the tree of `LibeventHttp` and what a user types
(`Typed`) have the characters the code treats on their own: the end of a line, a
space, `%`, and a name that looks like an escape; three `Asks` go down a
directory and back through a link. `Room` 1 drops a second datagram; with two
`Ports` a client that starts after the other has ended may get its port or not.
The tree of `Listing` has two directories with a file each, a file with a long
name and a link to the top: `PATH_LEN` 7 holds all of it but not all of what
comes again behind the link, so that directories are given up there, and with
those left open `DirLimit`, 3, can be used up before the end. Two `Keys` at
two clients: one line read while the other is under way is what ends
`ev_server.c`.

### Fairness

`ThreadPool`: weak for steps that need no lock or hold it; strong for taking the
mutex, because a mutex is free infinitely often and glibc's waiters get their
turn; strong as well for the manager's, which sleeps with a timer. Nothing is
assumed of callers, of destroy or of spurious wake-ups, and task functions
return. `ManagerSpec` keeps of this what `ManagerStops` needs: the manager runs,
and whoever holds the mutex on the way into a wait lets go of it. `EventLoop`: the loop runs and time passes; clients owe nothing.
`HttpServer`: the loop runs, clients send what their script has and read what
they are sent. A client that does not is a departure from the script, of which
`OrderlyServed` makes no claim.

`Programs`: weak fairness for each process, thread or task that runs, in the
middle of its code or at a call that returns; for the clients that run
`client.c`; for children that end. Nothing is owed by other clients, users or
interrupts. Weak is enough where a semaphore has one thread at each end, where
each mutex is taken once (`pthread_LOCK.c`), and where a critical section is
one step (`cond_produce_consumer.c`). Strong fairness for a client of the
libevent server, because every event that is ready is handled in each round of
its loop, but the loop may be with another client whenever one looks. As
`which` never changes, one formula states the fairness of all (`FairAction`).

## 5. Proofs

Everything here is proved for every value of the constants that the modules'
assumptions allow. A module of proofs goes with each component, and its
invariant is a conjunction of named parts, each with the reason it is needed.

### The thread pool

Any number of tasks, threads and places, failing `pthread_create`, either
answer of `pthread_kill`, callers of `threadpool_add` that meet
`threadpool_destroy`, unless a hypothesis says otherwise.

`ThreadPoolProofs`:

- `TypeCorrect`: `TypeOK`. The ranges of `queue_size` and `live_thr_num` come
  from the guards of `threadpool_add` and `AdjustGrow`.
- `LiveBounded`: `LiveWithinBounds`, inductive beside `TypeOK`. The manager's
  samples do not matter because the growing loop and the leaving worker test
  the counter again, under the mutex. It is about the counter; `LiveCounted`
  makes it the number of threads where `pthread_create` does not fail.
- `RingCorrect`: `RingAgrees`, from a lemma on the remainder (`ModWrap`): adding
  at the rear and taking at the front both keep the distance.
- `MutexCorrect`: `OneHolder`. A step that ends inside a critical section starts
  from a free mutex; all others leave the holders alone.
- `NoLostWakeup`: `NotStranded`, assuming `FixedPool` (minimum equals maximum
  and `pthread_create` does not fail). Without the assumption it is false
  (`PoolStranded`). `NotStranded` is not inductive: a worker about to sleep
  with a task in the queue would break it. `StrandInv` adds that the mutex has
  one holder (so the queue cannot change between a worker's test and its sleep)
  and `Staffed`: no worker of a fixed pool leaves before shutdown, so that
  worker 1 stands for "some worker is there", asleep (then the signal of
  `threadpool_add` wakes someone) or on its way.

What the counters count (also in `ThreadPoolProofs`): `StepTaken` sorts the actions by
what they do to the counters (`Step`): a thread made, started, busy, idle
again, leaving, gone. Each invariant is then kept by each sort of step.

- `LiveCounted`, `BusyCounted`: `LiveCountsThreads` (if `pthread_create` does
  not fail, see section 6) and `BusyCountsWorkers`. `CountInv` gives each
  counter as the size of a set of threads; one step puts one thread in or takes
  one out.
- `JoinsCreated`: `JoinsOnlyCreated`, if `pthread_create` does not fail and an
  exited thread cannot be told. `SlotInv`: the slots in use are the first ones,
  as many as `live_thr_num` at least, and the growing loop has not passed them.
- `GrowFindsASlot`: `GrowHasASlot`, with an exited thread that can be told. A
  slot that is not free was counted when it was filled, so that the taken slots
  of threads that have not left are at most `live_thr_num` (`TakenInv`), fewer
  than there are slots; a failed `pthread_create` counts without taking one.
- `NoneAfterFree`: `NoUseAfterFree` of a fixed pool whose callers have stopped
  before it is destroyed; `PoolFreedInUse` shows it false for one that grows.
  `FixedInv` (threads 1 to the maximum, each in its slot), `EndInv` (a joined
  thread has ended).

Where the tasks are (the last part of `ThreadPoolProofs`): `TaskStep` sorts the
actions by what they do to a task.

- `EachTaskOnce`: `NoTaskLostOrDuplicated`. `QueueInv`: the places of the ring in
  use hold distinct tasks that were added and are not with a worker; `HeldInv`:
  two workers hold different tasks; `PlaceInv`: a task is in one place.
- `PoolImplementsTaskPool`: the refinement of `TaskPool`. `WorkerStart` is its
  dequeue, which needs room to run one more task (from `CountInv`: a worker that
  starts was not busy), `WorkerRun` its end, `AddLock` its enqueue, and
  `DestroyCall` its close, which happens once (`ShutInv`).

### The event loop

`EventLoopProofs`: any number of clients, entries, descriptors and units.
`IInv` is `TypeOK` with three parts. `TableInv`: entries in use have
descriptors of their own, open, and in the epoll set with what the entry waits
for; callback and event of an entry go together; the listener keeps its entry; a
connection is open while one descriptor refers to it. `DataInv`: what a client
sent is unread, in the buffer of its entry, or echoed. `BatchAgrees`: a batch
has one event per entry and is empty between batches; with it a callback, which
closes or changes its own entry and registers free ones only, leaves the events
of the rest of the batch as they were reported, which is `NoStaleEvent`.

Theorems: `TypeCorrect`, `TableCorrect` (`TableAgrees`), `EventsCurrent`
(`NoStaleEvent`), `EchoCorrect` (`EchoToSender`), `EchoKept` (`EchoComplete`).

### The HTTP servers

`HttpServerProofs`: `TypeCorrect`, `AnsweredOnce` (`OneAnswer`), `BodyOrdered`
(`BodyInOrder`), for both programs, any script of the clients and any file.
`accept` gives the least free descriptor; that there is one is the least-number
principle (`LeastNumber`, from the well-ordering of finite sets by inclusion,
because the induction theorems are out of reach). `ServeInv`: the
connections of the batch are open, the one served as well and no longer in the
batch (`BatchOpen`, `CurOpen`); one that was given a head is closed, or its
file is on the way, or the program has ended (`Answered`); what was sent of the
file is before the position in it, and all of that where the descriptor blocks
(`FileSent`).

### Producers, locks

`SyncProofs`:

- `ProducersImplementBuffer`: the refinement of `Buffer`, for any `NUM`, any
  number of products, producers and consumers of the list, one of each for the
  ring. For the ring, `Wrap` (add one and start again at the end) stands for
  the remainder; `RingHolds` says that the places from the consumer's to the
  producer's hold the products made and not taken, in order, and `Tokens` that
  the two semaphores count these and the free places, less what a thread between
  `sem_wait` and `sem_post` has in hand. For the list, `OnePlace`: a product is
  in the list, in one hand or used.
- `LocksUndivided`: `Undivided`. `LockInv`: who is at a line holds the mutex
  (`LineHeld`), who writes holds the lock alone (`WriteHeld`), a loaded counter is
  still the counter (`LoadedNow`), and the counter is the number of writes done
  (`CountedOnce`).

### Children, wrappers, libevent

`ProgramProofs`, for `MCPrograms` with `which` at any of its values:

- `ChildrenWaitedFor`: `NoneLeft`. `WaitInv`: in `catch_child.c` SIGCHLD is
  blocked or caught all the time, so that with a zombie about the signal is
  pending or the handler at work (`Kept`); the others have done their waiting, or
  killing, when they end (`Waited`, `Forking`).
- `StreamRead`: `StreamInOrder`. `WrapInv`: taken, buffered and unread make up
  what was sent (`TakenInOrder`) while the static buffer has one user (`CallAlone`),
  and a short answer comes at the end only (`ShortAtEnd`).
- `AnswersKept`: `AnswersWhole`. `HttpInv`, per browser: a callback under way
  belongs to its request, a header waits for its body, what is queued and what
  was sent are one answer, of the length announced; the server crashes only
  through a file that has gone or an error page that is missing
  (`CrashCause`). `BevInv`: the server frees a bufferevent after its client has
  left, and a client frees its own only when the server has ended
  (`FreedAfter`); the server ends by writing to a client that left with a line
  unanswered (`LineLost`).

### The echo servers

These too are about `MCPrograms`, with `which` at any of its values.

`ForkServerProofs`, for finitely many clients:

- `OneServer`: `OneServerEach`. `ForkInv`: `num` is the number of clients
  accepted and the tasks after it are unused, so that there is one left for the
  next client (`NumCounts`); a connection is open while somebody has its
  descriptor, and no two tasks serve the same (`SlotsOpen`); a child has the
  descriptor it serves and no other, main only the one it has just accepted
  (`ChildHolds`); in one process each open connection has its thread
  (`MainHolds`).
- `Flow`, for one client: the units back at the client, in the server's hand
  and unread follow one another in the order sent, with none missing while the
  client listens. Its lemmas are one per way the units move: `FlowSend`,
  `FlowRead`, `FlowWrite`, `FlowLeave` and `FlowDrop`. `ForkData` says
  it of each client, with the buffer of its task as the hand.

`ServerProofs` extends it with the servers that keep a table and those of
datagrams:

- `TablesHold`: `TableHolds`, for the six programs at once. `TableInv`: every
  open connection has one descriptor (`FilesOwn`); the set watched is the open
  descriptors and the listener, all within `maxfd` (`WatchesOpen`); the scanned
  part of the table has each open descriptor in one place (`EntriesHold`); `num`
  counts them (`NumHolds`). `Covers` is that relation of table and descriptors,
  and `CoversAdd`, `CoversClear` and `CoversCompact` are the three ways the
  programs change a table. `TableHolds` speaks of the moments between two
  rounds; in a round the proof needs `ScanHolds`: the scan stands at an open
  descriptor, and what `primary` and `epoll` will look at next, by number and
  not by the table, has not been closed meanwhile. `Least` and `Greatest` give
  the `Min` and `Max` of the model a value, by well-foundedness of finite
  sets; for this the limits on descriptors have to be finitely many.
- `EachEchoed`: `EchoWhole`, the answers of a client are its own lines, whole
  and in order. `TableData` is `Flow` for each client of a table server, with the
  buffer in the hand of the client the scan stands at. A client is closed only
  when it has left, and has its answers if it still listened: for this `myserver`
  must never turn anybody away, which holds because an `fd_set` has no
  more descriptors than the table has places (`NeverTooMany`, by counting).
  `DgramInv`: a port has one user (`PortsOwn`); who types a line has had all
  answers before, and nothing is on its way to its port; who waits
  lacks the last answer, and nothing else can come (`Told`). That is said of
  users who got their port with nothing under way to it, as `EchoWhole` is
  (`heirs` are the others).

### Names, trees and types

`LinkProofs` extends the other proofs about `MCPrograms`. What it says of
recursive functions and of sums needs induction over data, and the library's
induction theorems take an operator as a parameter, which the provers cannot
instantiate. So induction is a lemma about sets: a set of numbers has a least
one (`LeastOne`, from the well-foundedness of finite sets by inclusion), hence
what holds of 0 and passes from each number to the next holds of all up to n
(`CountUp`), and likewise from a set without one element to the set (`BuildUp`).
A recursive function is the CHOOSE of one that satisfies its equation; that there
is one is shown by counting up from its first arguments.

- `NameBack`: `strdecode(strencode(name)) = name` for any name. `Flattened`:
  the pieces of `FlattenSeq` lie one after the other; `EscapedFacts`: an
  escaped character is `%` and two digits that stand for it, and any other is
  not `%`; then, from the end of the name to its beginning, what `strdecode`
  makes of the rest from the j-th piece on is the rest of the name.
- `LinksLead`: `LinksOpen`. For the libevent server `LinkInv`, per browser: the
  request under way is what it asked last; the link it followed names something
  that is gone or that the request finds (`Meant`), as long as the page it was on
  was asked for with its last `/`; the callback, the header and the body are about
  what the link names (`AtGoal`), and the links of a page stand for the
  entries of the directory to which the page's own request leads (`Page`,
  `LinkTo`). `LinksOpen` itself says nothing of pages that are on their way or of
  links not yet followed, so it is not inductive. `Find` is a fold over the names;
  `Leads` is the walk it takes, and a file that is removed changes no other walk
  (`LeadsLess`), since nothing is below a file.
  For listings `ListingInv`: each call was made by the one before it for an entry
  it has read (`Nested`), no printed path is still ahead of a call
  (`PrintedOnce`), and every path down the tree is printed, below a directory that
  was cut, or ahead of a call (`Covered`). `PathOfIs`: the recursive path of a
  node is the only way down the tree to it.
- `TypesKept`: `TypeOK`, of all modules of `MCPrograms` at once. A type is seldom
  inductive by itself: the invariants above carry it, with a few parts of
  its own. `Counted`: what `select`, `poll` or `epoll_wait` counted is not used up
  before the last of what they reported has been looked at, so `nready` never
  falls below zero; `WorkTyped`: a datagram server has one datagram in hand at
  most; `InPairs`: the writers of the epoll examples write two units at a time, so
  that one who has not written all has two left; `ReadFits`: the static buffer
  holds no more than one `read`; `BevMore`: no user types more lines than it
  has; `HttpMore`, with the sum of the hasty clients' requests, which grows by
  one when one of them sends (`BotheredMore`).

These proofs rest on assumptions about the constants that TLC evaluates and that
the file system and the code justify. `LibeventAssumption`: a file's
parent is a directory or the top; siblings have different names; `strencode` puts
two characters for one, different for different characters (`%%%02x`), and
escapes `%` itself; the clients are finitely many. `ListingAssumption`: parents
as above, and every set of files has one whose parent is not in it, which is to
say that going up a directory tree ends. `StreamsAssumption`: the bound on the
units written is even, for these writers, and not zero, for `pipe.c`, which
writes one.

### What is only model-checked

- Everything that is a matter of fairness, and deadlock: the prover handles
  neither liveness under fairness nor ENABLED.
- `NotStranded` and `NoUseAfterFree` of a pool that grows, because they are
  false there; of their kind, `LiveCountsThreads` with failing `pthread_create`.
- `ThreadsCounted`, the half of it that is left then.

## 6. Left out, and other observations

- Allocation failure in `threadpool_create`; failing `fcntl` and `epoll_ctl` in
  the event loop; lines longer than their buffer and a segment that ends between
  `\r` and `\n` in the HTTP servers; what a close with unread data does to an
  answer under way.
- `threadpool_add` returns 0, its code for success, when it drops a task at
  shutdown (the state `refused`). `live_thr_num` counts a thread whose
  `pthread_create` failed (255), so that a worker may leave (178) when no more than
  `min_thr_num` threads exist, the last one too; `LiveCountsThreads` is checked
  without failures, and `ThreadsCounted` with them.
- Whether slots are ever reused hangs on `pthread_kill` of an exited thread that
  was never joined. From glibc 2.34 on it returns 0, the slot stays taken, and a
  pool that has shrunk cannot grow again: `GrowHasASlot` is checked with the
  older answer (`ProbeSeesExit`).
- A slot whose `pthread_create` failed is taken to keep its value or to name a
  thread not created yet, as a C library does that allots the thread before it
  fails; POSIX would allow any value, and `pthread_kill` of that is undefined.
- A worker that detaches itself while destroy joins it is undefined behaviour;
  the model lets the join return.
- The comment at `threadpool.c:12` has more waiting tasks than
  `MIN_WAIT_TASK_NUM` start growth; line 247 starts it at that number.
- The comment at `epoll_loop.c:66` says the opposite of the test under it (the
  entry is *not* in the tree yet). `eventadd` uses `op` unset when the status is
  1, which no caller brings about: every call follows `eventset`.
- The epoll loop's tests of `ev->events` (266, 270) never fail: `NoStaleEvent`
  includes that.

Of the programs of `MCPrograms`:

- Not modelled in them: a failing `pthread_create` in the thread server, a full
  send buffer of the echo servers (their clients read what they are sent), the
  text and the media type of an HTTP answer.
- `poll_concurrent/server.c:82` compares `revents` with `POLLIN`: a client that
  has hung up is reported as more than that, is never read nor closed, and keeps
  `poll` from waiting.
- `myserver.c` and `myserver1.c` go back to `select` when `accept` fails: with
  no descriptor left and someone in the queue they serve nobody. The branch of
  the select servers for too many clients comes after `FD_SET`, which has
  overflowed by then.
- The thread server's `ts[256]` is indexed by the clients ever accepted.
- The process server installs its handler after the first `fork`: a child that
  ends before is waited for only when a later one ends.
- `rwlock.c:17` says it keeps the value before the write; what it prints may be
  older by what the other writers have added.
- `read_fifo.c` removes and makes its FIFO anew: a writer that is opening the
  old one waits for ever. `fifo_w.c` gives up when the FIFO is there already,
  and its reader waits for ever.
- `kill_loopfork.c` exits when a `fork` fails and leaves behind the child that
  never ends; `numfork.c` waits for any child if the one to wait for could not
  be forked.
- A UDP client waits for ever after a lost datagram, and takes an answer meant
  for the port's last owner for its own.
- `libevent_http.c`: a file that goes away between `stat` and `open`, or a
  missing `404.html`, ends in `read` of -1 until it crashes; the links of a page
  asked for without its last `/` lead astray; `Connection: close` is announced
  and never done.
- `ls-R.c:30` gives up a directory without closing it.
- `ev_client.c` writes `len + 1` bytes of a buffer of 1024, and after the end of
  the terminal sends empty lines without pause.
- A line read together with another is consumed but not printed
  (`read_fifo.c`, `myread.c`): `AllConsumed` says consumed.

Not modelled at all:

- Shared maps: stores and loads with no protocol between the processes that a
  property could be about.
- Threads, daemons, and the signal and timer demonstrations: one library call
  each, whose effect is the kernel's.
- Commands, libraries, makefiles, `stdio.h` (a copy of the system's header): no
  state.
