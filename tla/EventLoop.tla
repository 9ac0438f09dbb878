----------------------------- MODULE EventLoop -----------------------------
(***************************************************************************)
(* The event loop of tcp_socket/moreIO_concurrent/epoll_ET_LT/epoll_loop.c *)
(* an echo server with one callback per connection, kept in a table whose  *)
(* entries the epoll set points to, and a sweep that closes idle clients.  *)
(*                                                                         *)
(* A callback is one step: it runs in the only thread, and no system call  *)
(* of it blocks. The peers and the clock move between callbacks. Socket,   *)
(* descriptor table and epoll are the kernel's, as the code uses them.     *)
(***************************************************************************)
EXTENDS Integers, FiniteSets

CONSTANTS
  Conns,         \* the client connections, each made at most once
  NoConn,        \* what a closed descriptor refers to
  MaxEvents,     \* MAX_EVENTS: entries of the table, the listener's apart
  MaxFd,         \* descriptors the process may have beside the listener
  BufLen,        \* BUFLEN, in units of data
  IdleLimit,     \* 60 s, in ticks of the clock
  SweepLen,      \* 100: entries checked per round of the loop
  MaxSend        \* bound: units a client sends

ASSUME LoopAssumption ==
  /\ NoConn \notin Conns
  /\ {MaxEvents, MaxFd, BufLen, IdleLimit, SweepLen} \subseteq Nat \ {0}
  /\ MaxSend \in Nat

VARIABLES
  g_events,      \* the table; entry MaxEvents is the listener's
  checkpos,      \* where the next sweep starts
  pc,            \* the loop: sweep, wait, batch (callbacks), exited, killed
  batch,         \* events epoll_wait returned and not yet looked at
  file,          \* kernel: the connection of every descriptor
  epoll,         \* kernel: the epoll set, as [fd, pos, events]
  backlog,       \* kernel: connections made and not accepted
  unread,        \* kernel: units received and not read, per connection
  conn,          \* the server's side of a connection
  peer,          \* the client's side: up, stalled, shut, reset
  sent, echoed   \* history: units sent by the client, echoed to it

tableVars  == <<g_events, epoll, file>>
peerVars   == <<peer, sent>>
vars == <<tableVars, peerVars, checkpos, pc, batch, backlog, unread, conn,
          echoed>>

Lfd == 0
Fd  == 1..MaxFd
Pos == 0..MaxEvents - 1
Listener == MaxEvents

Entry(fd, call_back, events, status) ==
  [fd |-> fd, call_back |-> call_back, events |-> events, status |-> status,
   len |-> 0, buf |-> NoConn, idle |-> 0]

\* initlistensocket
Init ==
  /\ g_events = [i \in 0..MaxEvents |->
                   IF i = Listener THEN Entry(Lfd, "acceptconn", "in", 1)
                                   ELSE Entry(0, "none", "none", 0)]
  /\ epoll = {[fd |-> Lfd, pos |-> Listener, events |-> "in"]}
  /\ file = [fd \in Fd |-> NoConn]
  /\ checkpos = 0 /\ pc = "sweep" /\ batch = {} /\ backlog = {}
  /\ unread = [c \in Conns |-> 0]
  /\ conn = [c \in Conns |-> "new"]
  /\ peer = [c \in Conns |-> "up"]
  /\ sent = [c \in Conns |-> 0]
  /\ echoed = [c \in Conns |-> 0]

-----------------------------------------------------------------------------
(* eventset, eventadd, eventdel                                             *)

Without(fd) == {e \in epoll : e.fd # fd}

\* eventset and eventadd, which the callbacks always call one after the other:
\* the entry leaves eventset with status 0, so eventadd adds it.
Register(i, fd, call_back, events, len, buf) ==
  /\ g_events' = [g_events EXCEPT ![i] =
       [fd |-> fd, call_back |-> call_back, events |-> events, status |-> 1,
        len |-> len, buf |-> buf, idle |-> 0]]
  /\ epoll' = Without(fd) \union {[fd |-> fd, pos |-> i, events |-> events]}

\* Mutant: eventdel leaves the status.
RemovedStatusKept(entry) == entry
\* eventdel takes the entry off the epoll set.
Removed(entry) == [entry EXCEPT !.status = 0]

\* eventdel of the entries in P and close of their descriptors, which leaves
\* the epoll set with the descriptor.
CloseAll(P) ==
  LET closed == {g_events[i].fd : i \in P}
  IN  /\ g_events' = [i \in 0..MaxEvents |->
           IF i \in P THEN Removed(g_events[i]) ELSE g_events[i]]
      /\ epoll' = {e \in epoll : e.fd \notin closed}
      /\ file' = [fd \in Fd |-> IF fd \in closed THEN NoConn ELSE file[fd]]
      /\ conn' = [c \in Conns |-> IF \E fd \in closed : file[fd] = c
                                  THEN "closed" ELSE conn[c]]

-----------------------------------------------------------------------------
(* acceptconn: the lowest free descriptor, the first entry not in use       *)

FreeFd == {fd \in Fd : file[fd] = NoConn}
\* Mutant: the table is not searched for a free entry.
IsFreeUnchecked(i) == i \in Pos
IsFree(i) == g_events[i].status = 0
FirstFree(i) == IsFree(i) /\ \A j \in Pos : j < i => ~IsFree(j)

\* With no descriptor left, accept fails and the connection stays queued.
AcceptConn ==
  \/ /\ FreeFd = {}
     /\ UNCHANGED <<tableVars, backlog, conn>>
  \/ \E c \in backlog, fd \in FreeFd :
       /\ \A other \in FreeFd : fd <= other
       /\ backlog' = backlog \ {c}
       /\ file' = [file EXCEPT ![fd] = c]
       /\ conn' = [conn EXCEPT ![c] = "open"]
       /\ \/ \E i \in Pos : /\ FirstFree(i)
                            /\ Register(i, fd, "recvdata", "in",
                                        g_events[i].len, g_events[i].buf)
          \/ /\ \A i \in Pos : ~IsFree(i)
             /\ UNCHANGED <<g_events, epoll>>

RecvLen(c) == IF unread[c] < BufLen THEN unread[c] ELSE BufLen

\* recvdata: data makes the entry a sender's; end of file and errors close it.
RecvData(i) ==
  LET fd == g_events[i].fd
  IN  \/ \E c \in Conns :
           /\ file[fd] = c /\ unread[c] > 0
           /\ unread' = [unread EXCEPT ![c] = @ - RecvLen(c)]
           /\ Register(i, fd, "senddata", "out", RecvLen(c), c)
           /\ UNCHANGED <<file, conn>>
      \/ /\ \A c \in Conns : ~(file[fd] = c /\ unread[c] > 0)
         /\ CloseAll({i})
         /\ UNCHANGED unread

\* Mutant: one unit is sent and the rest of the buffer is forgotten.
SendLenOne(i) == IF g_events[i].len = 0 THEN 0 ELSE 1
\* A socket is ready for writing while a third of its buffer is free, which is
\* more than BUFLEN: send takes the whole of buf.
SendLen(i) == g_events[i].len

\* senddata to a peer that is there.
SendData(i) ==
  LET fd == g_events[i].fd
  IN  \E c \in Conns :
        /\ file[fd] = c /\ peer[c] # "reset"
        /\ echoed' = [echoed EXCEPT ![c] = @ + SendLen(i)]
        /\ Register(i, fd, "recvdata", "in", g_events[i].len, g_events[i].buf)
        /\ UNCHANGED <<file, conn>>

\* senddata to a peer that reset the connection: send returns an error.
SendFails(i) ==
  LET fd == g_events[i].fd
  IN  /\ ~ \E c \in Conns : file[fd] = c /\ peer[c] # "reset"
      /\ CloseAll({i})
      /\ UNCHANGED echoed

-----------------------------------------------------------------------------
(* main                                                                     *)

\* The entries a sweep visits.
Visited == {(checkpos + k) % MaxEvents : k \in 0..SweepLen - 1}

\* Mutant: the position of the sweep is not kept.
NextCheckposReset == 0
\* Mutant: the sweep does not go back to the start of the table.
NextCheckposUnwrapped == checkpos + SweepLen
\* Where a sweep leaves checkpos: MaxEvents is read as 0 by the next one.
NextCheckpos == ((checkpos + SweepLen - 1) % MaxEvents) + 1

Expired == {i \in Visited : g_events[i].status = 1
                            /\ g_events[i].idle >= IdleLimit}

Sweep ==
  /\ pc = "sweep"
  /\ CloseAll(Expired)
  /\ checkpos' = NextCheckpos
  /\ pc' = "wait"
  /\ UNCHANGED <<peerVars, batch, backlog, unread, echoed>>

InReady(c)  == unread[c] > 0 \/ peer[c] \in {"shut", "reset"}
OutReady(c) == peer[c] # "stalled"
Ready == {e \in epoll :
            \/ e.fd = Lfd /\ backlog # {}
            \/ \E c \in Conns : /\ e.fd \in Fd /\ file[e.fd] = c
                                /\ IF e.events = "in" THEN InReady(c)
                                                      ELSE OutReady(c)}
Owner(fd) == IF fd = Lfd THEN NoConn ELSE file[fd]

\* epoll_wait has room for every event. It returns early only with events.
Wait ==
  /\ pc = "wait"
  /\ batch' = {[pos |-> e.pos, events |-> e.events, conn |-> Owner(e.fd)]
                 : e \in Ready}
  /\ pc' = IF Ready = {} THEN "sweep" ELSE "batch"
  /\ UNCHANGED <<tableVars, peerVars, checkpos, backlog, unread, conn, echoed>>

\* An interrupted epoll_wait ends the program.
WaitFails ==
  /\ pc = "wait" /\ pc' = "exited"
  /\ UNCHANGED <<tableVars, peerVars, checkpos, batch, backlog, unread, conn,
                 echoed>>

\* An event is taken from the batch; the last one ends the round.
Take(b) ==
  /\ pc = "batch" /\ b \in batch
  /\ batch' = batch \ {b}
  /\ pc' = IF batch' = {} THEN "sweep" ELSE "batch"
  /\ UNCHANGED <<peerVars, checkpos>>

\* The tests of 266 and 270. They never fail (NoStaleEvent); a batch with an
\* event that failed them would be left standing, a deadlock.
Wanted(b) == b.events = g_events[b.pos].events
Callback(b, name) == Wanted(b) /\ g_events[b.pos].call_back = name

HandleAccept(b) == /\ Take(b) /\ Callback(b, "acceptconn")
                   /\ AcceptConn /\ UNCHANGED <<unread, echoed>>
HandleRecv(b) == /\ Take(b) /\ Callback(b, "recvdata")
                 /\ RecvData(b.pos) /\ UNCHANGED <<backlog, echoed>>
HandleSend(b) == /\ Take(b) /\ Callback(b, "senddata")
                 /\ SendData(b.pos) \/ SendFails(b.pos)
                 /\ UNCHANGED <<backlog, unread>>

\* Writing to a connection the peer has reset may raise SIGPIPE, which the
\* program leaves at its default: the process is killed.
SendKilled(b) ==
  /\ pc = "batch" /\ b \in batch /\ Callback(b, "senddata")
  /\ \E c \in Conns : file[g_events[b.pos].fd] = c /\ peer[c] = "reset"
  /\ pc' = "killed"
  /\ UNCHANGED <<tableVars, peerVars, checkpos, batch, backlog, unread, conn,
                 echoed>>

Server == \/ Sweep \/ Wait
          \/ \E b \in batch : \/ HandleAccept(b) \/ HandleRecv(b)
                              \/ HandleSend(b)

-----------------------------------------------------------------------------
(* The clock and the peers                                                  *)

\* A tick of the clock, seen as the time since last_active of every entry.
Tick ==
  /\ \E i \in Pos : g_events[i].idle < IdleLimit
  /\ g_events' = [i \in 0..MaxEvents |->
       IF i # Listener /\ g_events[i].idle < IdleLimit
       THEN [g_events[i] EXCEPT !.idle = @ + 1] ELSE g_events[i]]
  /\ UNCHANGED <<epoll, file, peerVars, checkpos, pc, batch, backlog, unread,
                 conn, echoed>>

PeerMove(c) ==
  /\ conn[c] \in {"queued", "open"}
  /\ UNCHANGED <<tableVars, checkpos, pc, batch, backlog, conn, echoed>>

Connect(c) ==
  /\ conn[c] = "new"
  /\ conn' = [conn EXCEPT ![c] = "queued"]
  /\ backlog' = backlog \union {c}
  /\ UNCHANGED <<tableVars, peerVars, checkpos, pc, batch, unread, echoed>>

PeerSend(c) ==
  /\ PeerMove(c)
  /\ peer[c] \in {"up", "stalled"} /\ sent[c] < MaxSend
  /\ sent' = [sent EXCEPT ![c] = @ + 1]
  /\ unread' = [unread EXCEPT ![c] = @ + 1]
  /\ UNCHANGED peer

\* The client reads no more, or again, or ends its side, or resets. (One that
\* reads no more and ends its side is, to the server, one that reads again and
\* then ends it.)
PeerChange(c) ==
  /\ PeerMove(c)
  /\ \/ peer[c] = "up" /\ peer' = [peer EXCEPT ![c] = "stalled"]
     \/ peer[c] = "stalled" /\ peer' = [peer EXCEPT ![c] = "up"]
     \/ peer[c] = "up" /\ peer' = [peer EXCEPT ![c] = "shut"]
     \/ peer[c] # "reset" /\ peer' = [peer EXCEPT ![c] = "reset"]
  /\ UNCHANGED <<sent, unread>>

Peer(c) == Connect(c) \/ PeerSend(c) \/ PeerChange(c)

Down == pc \in {"exited", "killed"}
Stopped == Down /\ UNCHANGED vars

Next ==
  \/ Server
  \/ WaitFails
  \/ \E b \in batch : SendKilled(b)
  \/ Tick /\ ~Down
  \/ \E c \in Conns : Peer(c) /\ ~Down
  \/ Stopped

Spec == Init /\ [][Next]_vars

\* The loop runs and time passes; no client has to do anything.
FairSpec == Spec /\ WF_vars(Server) /\ WF_vars(Tick /\ ~Down)

-----------------------------------------------------------------------------
(* Properties *)

TypeOK ==
  /\ g_events \in [0..MaxEvents ->
       [fd : Fd \union {Lfd}, events : {"none", "in", "out"}, status : {0, 1},
        call_back : {"none", "acceptconn", "recvdata", "senddata"},
        len : 0..BufLen, buf : Conns \union {NoConn}, idle : 0..IdleLimit]]
  /\ checkpos \in 0..MaxEvents
  /\ pc \in {"sweep", "wait", "batch", "exited", "killed"}
  /\ batch \subseteq [pos : 0..MaxEvents, events : {"in", "out"},
                      conn : Conns \union {NoConn}]
  /\ file \in [Fd -> Conns \union {NoConn}]
  /\ epoll \subseteq [fd : Fd \union {Lfd}, pos : 0..MaxEvents,
                      events : {"in", "out"}]
  /\ backlog \subseteq Conns
  /\ unread \in [Conns -> 0..MaxSend]
  /\ conn \in [Conns -> {"new", "queued", "open", "closed"}]
  /\ peer \in [Conns -> {"up", "stalled", "shut", "reset"}]
  /\ sent \in [Conns -> 0..MaxSend] /\ echoed \in [Conns -> 0..MaxSend]

\* The table and the epoll set agree: the entries with status 1 are those the
\* epoll set points to, with the descriptor and the event of the entry, each
\* descriptor is open and in one entry only (status, line 29; 66-69, 85-91).
TableAgrees ==
  /\ epoll = {[fd |-> g_events[i].fd, pos |-> i, events |-> g_events[i].events]
                : i \in {j \in 0..MaxEvents : g_events[j].status = 1}}
  /\ \A i, j \in 0..MaxEvents :
       /\ g_events[i].status = 1 /\ g_events[j].status = 1
       /\ g_events[i].fd = g_events[j].fd
       => i = j
  /\ \A i \in Pos : g_events[i].status = 1 => file[g_events[i].fd] # NoConn

\* An event still to be handled belongs to the connection its entry is about,
\* whatever the callbacks before it in the batch closed or accepted: the
\* pointer the kernel returned is not stale (262-267).
NoStaleEvent ==
  \A b \in batch :
    b.pos # Listener /\ ~Down =>
      /\ g_events[b.pos].status = 1
      /\ Wanted(b)
      /\ file[g_events[b.pos].fd] = b.conn

\* What an entry waits to send came from the connection it will send it to,
\* although entries and their buffers are reused (buf is never cleared, 49).
EchoToSender ==
  \A i \in Pos :
    g_events[i].status = 1 /\ g_events[i].call_back = "senddata" =>
      g_events[i].buf = file[g_events[i].fd]

\* While a connection is open, every unit its client sent is unread, held by
\* the one entry that sends it, or echoed (139-190).
Held(c) == {i \in Pos : /\ g_events[i].status = 1 /\ g_events[i].buf = c
                        /\ g_events[i].call_back = "senddata"}
EchoComplete ==
  \A c \in Conns : conn[c] = "open" =>
    \/ Held(c) = {} /\ sent[c] = unread[c] + echoed[c]
    \/ \E i \in Pos : /\ Held(c) = {i}
                      /\ sent[c] = unread[c] + g_events[i].len + echoed[c]

\* A connection that has an entry of the table is closed in the end, whatever
\* its client does: clients send finitely often here, so it falls idle and the
\* sweep comes by, or its end is seen first (240-253).
Registered(c) == \E i \in Pos : /\ g_events[i].status = 1
                                /\ file[g_events[i].fd] = c
RegisteredClosed ==
  \A c \in Conns : Registered(c) ~> conn[c] = "closed" \/ Down

\* The comment of line 237: a client that has not communicated with the server
\* for 60 seconds has its connection closed. Clients fall silent here, so every
\* connection that was accepted would be.
IdleClosed == \A c \in Conns : conn[c] = "open" ~> conn[c] = "closed" \/ Down

=============================================================================
