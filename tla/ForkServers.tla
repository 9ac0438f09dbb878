---------------------------- MODULE ForkServers ----------------------------
(***************************************************************************)
(* The echo servers that serve a client in one place: a process for each   *)
(* (mult_process_concurrent), a thread for each (mult_pthread_concurrent), *)
(* one client after the other (domain_socket), or one client and no other  *)
(* (tcp_socket/server.c). What serves the n-th accepted client is task n.  *)
(***************************************************************************)
EXTENDS Sockets, FiniteSets, FiniteSetsExt

CONSTANTS
  Programs,    \* "process", "thread", "domain", "tcp"
  Slots,       \* the places of ts[] in the thread server, 256 there
  ForkMayFail

ForkAssumption ==
  /\ Programs \subseteq {"process", "thread", "domain", "tcp"}
  /\ Slots \in Nat \ {0} /\ ForkMayFail \in BOOLEAN
  /\ IsFiniteSet(Clients)

VARIABLES
  prog,
  main,        \* accept, fork, install, serve; ended, undefined
  cfd,         \* the connection main's cfd stands for
  num,         \* clients accepted: i of the thread server
  task,        \* none, read, write, zombie, reaped, per task
  slot,        \* the connection a task serves: its cfd, or its ts[].connfd
  buf,         \* what it has read
  holders,     \* who has a connection's descriptor: tasks, and 0 for main
  handler,     \* catch_child is installed
  pending,     \* SIGCHLD is pending
  handling,    \* catch_child runs, SIGCHLD is blocked
  unheard      \* history: children that ended before handler

Tasks == 1..Cardinality(Clients)

mainVars == <<main, cfd, num, slot>>
taskVars == <<task, buf>>
signalVars == <<handler, pending, handling, unheard>>
vars == <<prog, socketVars, mainVars, taskVars, holders, signalVars>>

Init ==
  /\ SocketInit
  /\ prog \in Programs
  /\ main = "accept" /\ cfd = NoClient /\ num = 0
  /\ slot = [n \in Tasks |-> NoClient]
  /\ task = [n \in Tasks |-> "none"] /\ buf = [n \in Tasks |-> <<>>]
  /\ holders = [c \in Clients |-> {}]
  /\ handler = FALSE /\ pending = FALSE /\ handling = FALSE /\ unheard = {}

\* main runs on unless the signal handler does.
Running(label) == main = label /\ ~handling
MainStep == UNCHANGED <<prog, peer, input, sent, echo, buf, signalVars>>

-----------------------------------------------------------------------------
(* main *)

Started(c) == /\ task' = [task EXCEPT ![num + 1] = "read"]
              /\ slot' = [slot EXCEPT ![num + 1] = c]

\* The process server forks next. The thread server fills in ts[i] and starts
\* a thread; past the end of ts anything goes. The others serve the client.
Accept(c) ==
  /\ Running("accept") /\ conn[c] = "queued" /\ MainStep
  /\ conn' = [conn EXCEPT ![c] = "open"]
  /\ holders' = [holders EXCEPT ![c] = {0}]
  /\ cfd' = c /\ num' = num + 1
  /\ CASE prog = "process" -> main' = "fork" /\ UNCHANGED <<task, slot>>
       [] prog = "thread" ->
            IF num < Slots THEN Started(c) /\ UNCHANGED main
            ELSE main' = "undefined" /\ UNCHANGED <<task, slot>>
       [] OTHER -> Started(c) /\ main' = "serve"

\* fork: the child has every descriptor the parent has, and its own cfd.
Fork ==
  /\ Running("fork") /\ MainStep
  /\ task' = [task EXCEPT ![num] = "read"]
  /\ slot' = [slot EXCEPT ![num] = cfd]
  /\ holders' = [c \in Clients |-> IF 0 \in holders[c]
                                   THEN holders[c] \union {num} ELSE holders[c]]
  /\ main' = "install"
  /\ UNCHANGED <<conn, cfd, num>>

ForkFails ==
  /\ ForkMayFail /\ Running("fork") /\ MainStep
  /\ main' = "ended"
  /\ UNCHANGED <<conn, cfd, num, task, slot, holders>>

\* who closes its descriptor of c: the last one closes the connection.
Closed(who, c) ==
  /\ holders' = [holders EXCEPT ![c] = @ \ {who}]
  /\ conn' = [conn EXCEPT ![c] = IF holders'[c] = {} THEN "closed" ELSE @]

\* Mutant: the parent keeps its copy.
ParentKeeps == UNCHANGED <<holders, conn>>
ParentCloses == Closed(0, cfd)

\* sigaction(SIGCHLD), by the parent, after each fork, and Close.
Install ==
  /\ Running("install")
  /\ handler' = TRUE
  /\ ParentCloses
  /\ main' = "accept"
  /\ UNCHANGED <<prog, peer, input, sent, echo, cfd, num, slot, taskVars,
                 pending, handling, unheard>>

-----------------------------------------------------------------------------
(* The loop that serves a client *)

\* Mutant: the thread looks at main's variable, not at its own entry.
ServesShared(n) == IF prog = "thread" THEN cfd ELSE slot[n]
Serves(n) == slot[n]

TaskStep == UNCHANGED <<prog, cfd, num, slot>>

Read(n) == /\ task[n] = "read" /\ ReadReturns(Serves(n))
           /\ ReadEffect(Serves(n)) /\ TaskStep
           /\ UNCHANGED <<sent, echo>>

\* tcp goes on with nothing at the end of the file.
ReadData(n) ==
  /\ Read(n)
  /\ ReadResult(Serves(n)) > 0 \/ (ReadResult(Serves(n)) = 0 /\ prog = "tcp")
  /\ buf' = [buf EXCEPT ![n] = SubSeq(input[Serves(n)], 1, Taken(Serves(n)))]
  /\ task' = [task EXCEPT ![n] = "write"]
  /\ UNCHANGED <<conn, main, holders, signalVars>>

\* The others take -1 for a length: write refuses it, and they read again.
ReadAgain(n) ==
  /\ Read(n) /\ prog # "domain" /\ ReadResult(Serves(n)) = -1
  /\ UNCHANGED <<conn, main, task, buf, holders, signalVars>>

\* The end of a child: its descriptors are closed; SIGCHLD is pending, or
\* forgotten while its action is to ignore it. init takes the child of a
\* parent that has gone.
ChildEnds(n) ==
  /\ holders' = [c \in Clients |-> holders[c] \ {n}]
  /\ conn' = [c \in Clients |->
                IF n \in holders[c] /\ holders'[c] = {} THEN "closed"
                ELSE conn[c]]
  /\ task' = [task EXCEPT ![n] = IF main = "ended" THEN "reaped" ELSE "zombie"]
  /\ pending' = handler
  /\ unheard' = IF handler THEN unheard ELSE unheard \union {n}
  /\ UNCHANGED <<main, handler, handling>>

\* The client has closed: the child or the thread ends, domain takes the next.
\* domain stops at an error too.
ReadEnd(n) ==
  /\ Read(n) /\ prog # "tcp"
  /\ ReadResult(Serves(n)) = 0 \/
       (ReadResult(Serves(n)) = -1 /\ prog = "domain")
  /\ IF prog = "process" THEN ChildEnds(n)
     ELSE /\ Closed(0, Serves(n))
          /\ task' = [task EXCEPT ![n] = "reaped"]
          /\ main' = IF prog = "domain" THEN "accept" ELSE main
          /\ UNCHANGED signalVars
  /\ UNCHANGED buf

\* SIGPIPE comes with the first write to a local socket whose peer has closed,
\* reset or not; over TCP when the peer's own reset is known.
Kills(c) == IF prog = "domain" THEN peer[c] \notin {"up", "shut"}
                               ELSE WriteKills(c)

Write(n) ==
  /\ task[n] = "write" /\ ~Kills(Serves(n))
  /\ WriteEffect(Serves(n), buf[n]) /\ TaskStep
  /\ task' = [task EXCEPT ![n] = "read"]
  /\ buf' = [buf EXCEPT ![n] = <<>>]
  /\ UNCHANGED <<conn, input, sent, main, holders, signalVars>>

\* SIGPIPE ends the child, or the process with all its threads.
SigPipe(n) ==
  /\ task[n] = "write" /\ Kills(Serves(n)) /\ TaskStep
  /\ IF prog = "process" THEN ChildEnds(n)
     ELSE main' = "ended" /\ UNCHANGED <<conn, task, holders, signalVars>>
  /\ UNCHANGED <<peer, input, sent, echo, buf>>

-----------------------------------------------------------------------------
(* catch_child *)

Alive == main \notin {"ended", "undefined"}
SignalStep == UNCHANGED <<prog, socketVars, cfd, num, slot, buf, holders,
                          handler, unheard>>

Catch == /\ Alive /\ pending /\ ~handling /\ SignalStep
         /\ handling' = TRUE /\ pending' = FALSE
         /\ UNCHANGED <<main, task>>

\* Mutant: waitpid is called once.
ReapOnce(n) == handling' = FALSE
ReapNext(n) == UNCHANGED handling

\* waitpid(0, NULL, WNOHANG) > 0
Reap(n) == /\ Alive /\ handling /\ task[n] = "zombie" /\ SignalStep
           /\ task' = [task EXCEPT ![n] = "reaped"]
           /\ ReapNext(n)
           /\ UNCHANGED <<main, pending>>

\* Accept calls accept again after EINTR; fork, sigaction and close go on.
CatchReturns ==
  /\ Alive /\ handling /\ \A n \in Tasks : task[n] # "zombie"
  /\ SignalStep
  /\ handling' = FALSE
  /\ UNCHANGED <<main, task, pending>>

-----------------------------------------------------------------------------
\* Threads, and main where it serves, stop with the process; children do not.
Runs(n) == prog = "process" \/ Alive

Main == \/ \E c \in Clients : Accept(c)
        \/ Fork \/ Install
        \/ Catch \/ CatchReturns \/ \E n \in Tasks : Reap(n)

Task(n) == /\ Runs(n)
           /\ ReadData(n) \/ ReadAgain(n) \/ ReadEnd(n) \/ Write(n)
              \/ SigPipe(n)

Client(c) ==
  /\ main # "undefined"
  /\ Connect(c) \/ Send(c) \/ Finish(c)
  /\ UNCHANGED <<prog, mainVars, taskVars, holders, signalVars>>

Departs(c) ==
  /\ main # "undefined" /\ Leave(c)
  /\ UNCHANGED <<prog, mainVars, taskVars, holders, signalVars>>

Next == \/ Main \/ ForkFails
        \/ \E n \in Tasks : Task(n)
        \/ \E c \in Clients : Client(c) \/ Departs(c)

Fairness == /\ WF_vars(Main)
            /\ \A n \in Tasks : WF_vars(Task(n))
            /\ \A c \in Lockstep : WF_vars(Client(c))
Spec == Init /\ [][Next]_vars /\ Fairness

-----------------------------------------------------------------------------
(* Properties *)

TypeOK ==
  /\ SocketTypeOK
  /\ prog \in Programs
  /\ main \in {"accept", "fork", "install", "serve", "ended", "undefined"}
  /\ cfd \in Clients \union {NoClient} /\ num \in 0..Cardinality(Clients)
  /\ slot \in [Tasks -> Clients \union {NoClient}]
  /\ task \in [Tasks -> {"none", "read", "write", "zombie", "reaped"}]
  /\ buf \in [Tasks -> Seq(Clients \X Nat)]
  /\ holders \in [Clients -> SUBSET (Tasks \union {0})]
  /\ handler \in BOOLEAN /\ pending \in BOOLEAN /\ handling \in BOOLEAN
  /\ unheard \subseteq Tasks

\* While main waits for a client, each connection that is open has one task of
\* its own that serves it, and in the process server nobody else has its
\* descriptor: no child inherits another's and the parent keeps none, so that
\* a connection ends when its child does.
OneServerEach ==
  main = "accept" =>
    \A c \in Clients : conn[c] = "open" =>
      \E n \in Tasks :
        /\ task[n] \in {"read", "write"} /\ Serves(n) = c
        /\ \A m \in Tasks \ {n} : task[m] \in {"read", "write"} =>
                                     Serves(m) # c
        /\ holders[c] = IF prog = "process" THEN {n} ELSE {0}

\* A child is waited for in the end, if catch_child was installed when it
\* ended, however many end at once and whatever accept was doing.
Dead(n) == task[n] = "zombie" /\ n \notin unheard
Buried(n) == task[n] = "reaped" \/ ~Alive
Reaped == \A n \in Tasks : Dead(n) ~> Buried(n)

\* Every client that client.c serves gets its answers, and every client that
\* has left is closed: at once in the process and the thread server, in its
\* turn in domain; in tcp never.
Owed(c) == conn[c] = "open" /\ (c \in Lockstep \/ peer[c] # "up")
Settled(c) == conn[c] = "closed" \/ ~Alive \/ (prog = "tcp" /\ input[c] = <<>>)
Served == \A c \in Clients : Owed(c) ~> Settled(c)

=============================================================================
