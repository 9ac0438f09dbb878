---------------------------- MODULE TableServers ----------------------------
(***************************************************************************)
(* The single-threaded echo servers of moreIO_concurrent: four on select   *)
(* (select_primary/server.c, server.c, myserver.c, myserver1.c), one on    *)
(* poll and one on epoll. They keep the clients in tables of different     *)
(* kinds; prog says which server runs. A step is one system call with what *)
(* the code does up to the next one, so that clients can move in between.  *)
(*                                                                         *)
(* Descriptors are numbered from the listening one, which is 0.            *)
(***************************************************************************)
EXTENDS Sockets, FiniteSets, FiniteSetsExt, Functions

CONSTANTS
  Programs,    \* which servers to look at
  TableSize,   \* FD_SETSIZE or OPEN_MAX, the entries of client[]
  SetSize,     \* descriptors an fd_set has room for
  Limits       \* how many descriptors each of them may have

Selects == {"primary", "server", "myserver", "myserver1"}

TableAssumption ==
  /\ Programs \subseteq Selects \union {"poll", "epoll"}
  /\ {TableSize, SetSize} \subseteq Nat \ {0, 1} /\ SetSize <= TableSize
  /\ Limits \in [Programs -> SUBSET (Nat \ {0, 1})]
  /\ IsFiniteSet(UNION Range(Limits))

NoFd == -1
Listener == 0

VARIABLES
  prog, limit,
  pc,          \* wait, accept, read, write, batch; ended, undefined
  file,        \* the connection behind each descriptor
  watch,       \* allset, or the epoll set
  ready,       \* rset, the revents equal to POLLIN, or the events of a batch
  nready,
  client,      \* client[], and the memory behind it
  i,           \* where the scan is; for epoll, the descriptor
  maxi, num, maxfd,  \* num is cfdNum
  buf

tableVars == <<file, watch, client, maxi, num, maxfd>>
scanVars == <<pc, ready, nready, i, buf>>
vars == <<prog, limit, socketVars, tableVars, scanVars>>

Descriptors == 0..Max(UNION Range(Limits)) - 1
Places == 0..TableSize

Init ==
  /\ SocketInit
  /\ prog \in Programs /\ limit \in Limits[prog]
  /\ pc = "wait" /\ ready = {} /\ nready = 0 /\ i = 0 /\ buf = <<>>
  /\ file = [f \in Descriptors |-> NoClient]
  /\ watch = {Listener}
  /\ client = [k \in Places |-> IF prog = "poll" /\ k = 0 THEN Listener
                                                          ELSE NoFd]
  /\ maxi = IF prog = "poll" THEN 0 ELSE -1
  /\ num = 0 /\ maxfd = 0

-----------------------------------------------------------------------------
(* The places a scan looks at: descriptors up to maxfd, or entries *)

First == IF prog \in {"primary", "poll"} THEN 1 ELSE 0
Last == CASE prog = "primary" -> maxfd
          [] prog = "myserver1" -> num - 1
          [] OTHER -> maxi
FdAt(k) == IF prog \in {"primary", "epoll"} THEN k ELSE client[k]
Current == file[FdAt(i)]

\* Where the scan finds a descriptor of ready, from place k on, after the step.
Hits(k) == {j \in k..Last' : FdAt(j)' \in ready'}

ScanOn(k) ==
  IF Hits(k) = {} \/ (prog # "primary" /\ nready' <= 0)
  THEN pc' = "wait" /\ i' = 0
  ELSE pc' = "read" /\ i' = Min(Hits(k))

\* The next event of epoll's batch, in any order.
BatchOn == pc' = (IF ready' = {} THEN "wait" ELSE "batch") /\ i' = 0

Handled == IF prog = "epoll" THEN UNCHANGED <<ready, nready>> /\ BatchOn
           ELSE /\ UNCHANGED ready
                /\ nready' = IF prog = "primary" THEN nready ELSE nready - 1
                /\ ScanOn(i + 1)

-----------------------------------------------------------------------------
(* select, poll, epoll_wait *)

Watched == CASE prog = "poll" -> {client[k] : k \in 0..maxi} \ {NoFd}
             [] prog = "epoll" -> watch
             [] OTHER -> watch \intersect 0..maxfd

Reported == {f \in Watched \ {Listener} : Readable(file[f])} \union
            {f \in Watched \intersect {Listener} :
               \E c \in Clients : conn[c] = "queued"}

\* The poll server looks for revents equal to POLLIN (82): one that also says
\* POLLHUP is counted and passed over.
Seen == IF prog = "poll"
        THEN {f \in Reported : f # Listener => ~HungUp(file[f])} ELSE Reported

Wait ==
  /\ pc = "wait" /\ Reported # {}
  /\ ready' = Seen /\ nready' = Cardinality(Reported)
  /\ UNCHANGED <<prog, limit, socketVars, tableVars, buf>>
  /\ IF prog = "epoll" THEN BatchOn
     ELSE IF Listener \in ready' THEN pc' = "accept" /\ i' = 0
     ELSE ScanOn(First)

EpollEvent ==
  /\ pc = "batch"
  /\ \E f \in ready : /\ ready' = ready \ {f} /\ i' = f
                      /\ pc' = IF f = Listener THEN "accept" ELSE "read"
  /\ UNCHANGED <<prog, limit, socketVars, tableVars, nready, buf>>

-----------------------------------------------------------------------------
(* A new client *)

FreeFds == {f \in 1..limit - 1 : file[f] = NoClient}
FreePlaces == {k \in First..TableSize - 1 : client[k] = NoFd}

\* Mutant: maxi stays where it is.
HighestKept(place) == maxi
Highest(place) == Max({maxi, place})

\* client[i] = connfd, and the marks that follow.
AddEntry(fd) ==
  CASE prog \in {"server", "myserver", "poll"} ->
         /\ client' = [client EXCEPT ![Min(FreePlaces)] = fd]
         /\ maxi' = Highest(Min(FreePlaces))
         /\ num' = IF prog = "myserver" THEN num + 1 ELSE num
    [] prog = "myserver1" ->
         /\ client' = [client EXCEPT ![num] = fd] /\ num' = num + 1
         /\ UNCHANGED maxi
    [] OTHER -> UNCHANGED <<client, maxi, num>>

\* poll: revents of an entry not used before holds anything (82).
FreshReady(fd) == IF prog = "poll" /\ Min(FreePlaces) > maxi
                  THEN {ready \ {Listener}, (ready \ {Listener}) \union {fd}}
                  ELSE {ready \ {Listener}}

\* After the listener: on to the clients, unless it was the only one ready.
AfterAccept == /\ nready' = nready - 1
               /\ IF prog = "epoll" THEN BatchOn
                  ELSE IF nready' <= 0 THEN pc' = "wait" /\ i' = 0
                  ELSE ScanOn(First)

Accepting(c) == /\ pc = "accept" /\ conn[c] = "queued" /\ FreeFds # {}
                /\ UNCHANGED <<prog, limit, buf, peer, input, sent, echo>>

Table == IF prog = "myserver1" THEN num < TableSize
         ELSE prog \in {"primary", "epoll"} \/ FreePlaces # {}

\* FD_SET beyond an fd_set is undefined; the table, which has a place for each
\* of FD_SETSIZE descriptors, is not full by then.
Accept(c) ==
  LET fd == Min(FreeFds) IN
  /\ Accepting(c) /\ Table
  /\ prog \in Selects => fd < SetSize
  /\ conn' = [conn EXCEPT ![c] = "open"]
  /\ file' = [file EXCEPT ![fd] = c]
  /\ watch' = IF prog = "poll" THEN watch ELSE watch \union {fd}
  /\ maxfd' = IF prog \in Selects THEN Max({maxfd, fd}) ELSE maxfd
  /\ AddEntry(fd)
  /\ ready' \in FreshReady(fd)
  /\ AfterAccept

AcceptBeyond(c) ==
  /\ Accepting(c) /\ prog \in Selects /\ Min(FreeFds) >= SetSize
  /\ pc' = "undefined"
  /\ UNCHANGED <<conn, tableVars, ready, nready, i>>

\* "too many clients"
TooMany(c) ==
  /\ Accepting(c) /\ ~Table
  /\ IF prog = "myserver"
     THEN /\ conn' = [conn EXCEPT ![c] = "closed"]
          /\ ready' = ready \ {Listener} /\ AfterAccept
     ELSE pc' = "ended" /\ UNCHANGED <<conn, ready, nready, i>>
  /\ UNCHANGED tableVars

\* No descriptor is left. Accept ends the program; myserver.c and myserver1.c
\* go back to select and leave the clients alone.
AcceptFails ==
  /\ pc = "accept" /\ FreeFds = {}
  /\ pc' = IF prog \in {"myserver", "myserver1"} THEN "wait" ELSE "ended"
  /\ UNCHANGED <<prog, limit, socketVars, tableVars, ready, nready, i, buf>>

-----------------------------------------------------------------------------
(* A client has something to say *)

findcfd(arr, size, target) ==
  IF \E k \in 0..size - 1 : arr[k] = target
  THEN Min({k \in 0..size - 1 : arr[k] = target}) ELSE -1

Compact(ret) ==
  [k \in Places |-> IF k \in ret..num - 1 THEN client[k + 1] ELSE client[k]]

Emptied == [client EXCEPT ![i] = NoFd]

\* maxi goes down to the last entry in use.
LastUsed == Max({-1} \union {k \in 0..maxi : Emptied[k] # NoFd})

\* Mutant: the client is not taken out of the descriptors to watch.
CloseWatched(fd) == /\ file' = [file EXCEPT ![fd] = NoClient]
                    /\ client' = IF prog = "poll" THEN Emptied ELSE client
                    /\ UNCHANGED <<watch, maxfd, maxi, num>>
CloseClient(fd) ==
  /\ file' = [file EXCEPT ![fd] = NoClient]
  /\ watch' = watch \ {fd} /\ UNCHANGED maxfd
  /\ CASE prog \in {"server", "poll"} ->
            client' = Emptied /\ UNCHANGED <<maxi, num>>
       [] prog = "myserver" ->
            /\ client' = Emptied /\ num' = num - 1
            /\ maxi' = IF i = maxi THEN LastUsed ELSE maxi
       [] prog = "myserver1" ->
            /\ client' = Compact(findcfd(client, num, fd)) /\ num' = num - 1
            /\ UNCHANGED maxi
       [] OTHER -> UNCHANGED <<client, maxi, num>>

Reading == /\ pc = "read" /\ ReadReturns(Current) /\ ReadEffect(Current)
           /\ UNCHANGED <<prog, limit, sent, echo>>

ReadData ==
  /\ Reading /\ ReadResult(Current) > 0
  /\ buf' = SubSeq(input[Current], 1, Taken(Current))
  /\ pc' = "write"
  /\ UNCHANGED <<conn, tableVars, ready, nready, i>>

\* The end of the file; poll and epoll close after a reset (ECONNRESET) too.
ReadEnd ==
  /\ Reading
  /\ ReadResult(Current) = 0 \/
       (ReadResult(Current) = -1 /\ prog \in {"poll", "epoll"})
  /\ conn' = [conn EXCEPT ![Current] = "closed"]
  /\ CloseClient(FdAt(i))
  /\ UNCHANGED buf
  /\ Handled

\* The select servers do nothing after an error: the next round reads again.
ReadFails ==
  /\ Reading /\ ReadResult(Current) = -1 /\ prog \in Selects
  /\ UNCHANGED <<conn, tableVars, buf>>
  /\ Handled

\* Writen goes on until everything is written or an error.
Writen ==
  /\ pc = "write" /\ ~WriteKills(Current)
  /\ WriteEffect(Current, buf)
  /\ buf' = <<>>
  /\ UNCHANGED <<prog, limit, conn, input, sent, tableVars>>
  /\ Handled

SigPipe ==
  /\ pc = "write" /\ WriteKills(Current)
  /\ pc' = "ended"
  /\ UNCHANGED <<prog, limit, socketVars, tableVars, ready, nready, i, buf>>

-----------------------------------------------------------------------------
Server == \/ Wait \/ EpollEvent \/ AcceptFails
          \/ \E c \in Clients : Accept(c) \/ AcceptBeyond(c) \/ TooMany(c)
          \/ ReadData \/ ReadEnd \/ ReadFails \/ Writen \/ SigPipe

Over == pc \in {"ended", "undefined"}

Client(c) == /\ ~Over
             /\ Connect(c) \/ Send(c) \/ Finish(c)
             /\ UNCHANGED <<prog, limit, tableVars, scanVars>>

Departs(c) == /\ ~Over /\ Leave(c)
              /\ UNCHANGED <<prog, limit, tableVars, scanVars>>

Next == Server \/ \E c \in Clients : Client(c) \/ Departs(c)

Fairness == WF_vars(Server) /\ \A c \in Lockstep : WF_vars(Client(c))
Spec == Init /\ [][Next]_vars /\ Fairness

-----------------------------------------------------------------------------
(* Properties *)

TypeOK ==
  /\ SocketTypeOK
  /\ prog \in Programs /\ limit \in Limits[prog]
  /\ pc \in {"wait", "accept", "read", "write", "batch", "ended", "undefined"}
  /\ file \in [Descriptors -> Clients \union {NoClient}]
  /\ watch \subseteq Descriptors /\ ready \subseteq Descriptors
  /\ nready \in 0..Cardinality(Descriptors)
  /\ client \in [Places -> Descriptors \union {NoFd}]
  /\ i \in Descriptors \union Places
  /\ maxi \in -1..TableSize - 1 /\ num \in 0..TableSize /\ maxfd \in Descriptors
  /\ buf \in Seq(Clients \X Nat)

\* Between two rounds the server watches its open connections and no closed
\* one: none is past maxfd, none has two entries or an entry out of the scan's
\* reach, and the count agrees with the table that is compacted, or shortened,
\* while it is scanned.
TableHolds ==
  LET Open == {f \in Descriptors : file[f] # NoClient} IN
  pc = "wait" =>
    /\ Watched = Open \union {Listener}
    /\ prog \in Selects \union {"poll"} =>
         \A f \in Open : Cardinality({k \in First..Last : FdAt(k) = f}) = 1
    /\ prog \in {"myserver", "myserver1"} => num = Cardinality(Open)

\* myserver.c and myserver1.c without a descriptor for who waits in the queue:
\* they go round and look at no client again.
Exhausted == prog \in {"myserver", "myserver1"} /\ FreeFds = {} /\
             \E c \in Clients : conn[c] = "queued"

\* poll: Read of a client that had nothing to say, or a hang-up passed over.
Blocked == pc = "read" /\ ~ReadReturns(Current)
PassedOver(c) == prog = "poll" /\ HungUp(c)

\* Every client that client.c serves gets its answers, and every client that
\* has left is closed, unless the server ends, or one of the three above.
Owed(c) == conn[c] = "open" /\ (c \in Lockstep \/ peer[c] # "up")
Settled(c) == \/ conn[c] = "closed" \/ Over
              \/ Exhausted \/ Blocked \/ PassedOver(c)
Served == \A c \in Clients : Owed(c) ~> Settled(c)

=============================================================================
