----------------------------- MODULE MCPrograms -----------------------------
(***************************************************************************)
(* The smaller programs of the repository, one module for each kind, with  *)
(* values for TLC. They have nothing to do with each other: which says the *)
(* module that runs, and the others stay in an initial state.              *)
(***************************************************************************)
EXTENDS Integers, Sequences, FiniteSets

CONSTANTS
  \* Sockets, TableServers, ForkServers
  Clients, NoClient, Lockstep, Leaver, Units, Departures, BufLen,
  TablePrograms, TableSize, SetSize, Limits, ForkPrograms, Slots, ForkMayFail,
  \* Producers, Locks, Children, Streams, StreamWrap
  ProducerOf, ConsumerOf, NUM, Products, Writers, Readers, Writes,
  Count, Chosen, StreamUnits, Fds, Data, ReadBuf, SocketBuf, Sizes,
  \* LibeventHttp
  Browsers, Hasty, Asks, Bothers, Nodes, Kind, Parent, Name, Target,
  ErrorPage, Chars, Hex, Typed,
  \* Datagrams, Listing
  UdpClients, Ports, NoPort, Lines, Room,
  Tree, TreeKind, TreeParent, TreeTarget, NameLen, PATH_LEN, MaxLinks, DirLimit,
  \* Bufferevents
  BevClients, Keys

VARIABLES
  which,       \* which of the modules runs
  tableConn, tablePeer, tableInput, tableSent, tableEcho, tableProg, limit,
  tablePc, file, watch, ready, nready, client, tableI, maxi, tableNum,
  maxfd, tableBuf,
  forkConn, forkPeer, forkInput, forkSent, forkEcho, forkProg, forkMain,
  cfd, forkNum, task, slot, forkBuf, holders, forkHandler, forkPending,
  forkHandling, unheard,
  prodProg, prodPc, item, made, used, blank_number, product_number, queue,
  index, head, asleep,
  lockProg, lockPc, owner, destroyed, sharing, counter, t, loaded,
  lockWritten,
  waitProg, waitMain, waitI, child, failed, waitHandler, blocked,
  waitPending, waitHandling,
  strmProg, fifo, writer, reader, opened, writeEnds, strmWritten, consumed,
  edge,
  sentTo, failedTo, taken, buffer, call, result, out, mixed,
  bev, httpPeer, arrived, asked, output, url, goal, astray, got, cb, raced,
  present, size, changes, down,
  at, port, typed, inbox, bound, mail, work, answers, lost, heirs,
  calls, leaked, printed, cut,
  user, served, keys, toServer, bevPending, toClient, shown, reset, broken,
  alive

tableVars == <<
  tableConn, tablePeer, tableInput, tableSent, tableEcho, tableProg, limit,
  tablePc, file, watch, ready, nready, client, tableI, maxi, tableNum,
  maxfd, tableBuf>>
forkVars == <<
  forkConn, forkPeer, forkInput, forkSent, forkEcho, forkProg, forkMain,
  cfd, forkNum, task, slot, forkBuf, holders, forkHandler, forkPending,
  forkHandling, unheard>>
prodVars == <<
  prodProg, prodPc, item, made, used, blank_number, product_number, queue,
  index, head, asleep>>
lockVars == <<
  lockProg, lockPc, owner, destroyed, sharing, counter, t, loaded,
  lockWritten>>
waitVars == <<
  waitProg, waitMain, waitI, child, failed, waitHandler, blocked,
  waitPending, waitHandling>>
strmVars == <<
  strmProg, fifo, writer, reader, opened, writeEnds, strmWritten, consumed,
  edge>>
wrapVars == <<
  sentTo, failedTo, taken, buffer, call, result, out, mixed>>
httpVars == <<
  bev, httpPeer, arrived, asked, output, url, goal, astray, got, cb, raced,
  present, size, changes, down>>
dgramVars == <<
  at, port, typed, inbox, bound, mail, work, answers, lost, heirs>>
listVars == <<calls, leaked, printed, cut>>
bevVars == <<
  user, served, keys, toServer, bevPending, toClient, shown, reset, broken,
  alive>>

T == INSTANCE TableServers WITH
  Programs <- TablePrograms, conn <- tableConn, peer <- tablePeer,
  input <- tableInput, sent <- tableSent, echo <- tableEcho,
  prog <- tableProg, pc <- tablePc, i <- tableI, num <- tableNum,
  buf <- tableBuf
F == INSTANCE ForkServers WITH
  Programs <- ForkPrograms, conn <- forkConn, peer <- forkPeer,
  input <- forkInput, sent <- forkSent, echo <- forkEcho, prog <- forkProg,
  main <- forkMain, num <- forkNum, buf <- forkBuf, handler <- forkHandler,
  pending <- forkPending, handling <- forkHandling
P == INSTANCE Producers WITH
  prog <- prodProg, pc <- prodPc
L == INSTANCE Locks WITH
  prog <- lockProg, pc <- lockPc, written <- lockWritten
C == INSTANCE Children WITH
  prog <- waitProg, main <- waitMain, i <- waitI, handler <- waitHandler,
  pending <- waitPending, handling <- waitHandling
S == INSTANCE Streams WITH
  Units <- StreamUnits, prog <- strmProg, written <- strmWritten
W == INSTANCE StreamWrap
H == INSTANCE LibeventHttp WITH
  peer <- httpPeer
D == INSTANCE Datagrams WITH
  queue <- mail
R == INSTANCE Listing
B == INSTANCE Bufferevents WITH
  pending <- bevPending

\* What the modules ask of the constants.
ASSUME ProgramsAssumption ==
  /\ T!SocketAssumption /\ T!TableAssumption /\ F!ForkAssumption
  /\ P!ProducersAssumption /\ L!LocksAssumption /\ C!ChildrenAssumption
  /\ S!StreamsAssumption /\ W!StreamWrapAssumption /\ H!LibeventAssumption
  /\ D!DatagramsAssumption /\ R!ListingAssumption
  /\ B!BuffereventsAssumption

-----------------------------------------------------------------------------
(* Values *)

\* A client of client.c sends one line; so may one that leaves as it likes; the
\* last comes and says nothing.
MCUnits == [c \in Clients |-> IF c \in Lockstep \union {Leaver} THEN 1 ELSE 0]
MCDepartures == [c \in Clients |->
                   IF c = Leaver THEN {"shut", "closed", "reset"} ELSE {}]
\* Descriptors for two clients or for three: what each server does at its end.
MCLimits == [p \in TablePrograms |->
               CASE p = "server" -> {3}
                 [] p \in {"myserver", "myserver1"} -> {3, 4}
                 [] OTHER -> {4}]

MCProducers == [sem |-> {"p1"}, cond |-> {"p1"}]
MCConsumers == [sem |-> {"c1"}, cond |-> {"c1", "c2"}]

MCData == [f |-> <<"x", "nl", "x">>, g |-> <<"x">>]

\* A directory whose name looks like an escape, with a file whose name has a
\* space, and a link to it.
MCNodes == {"d", "l", "f"}
MCKind == [d |-> "dir", l |-> "link", f |-> "file"]
MCParent == [d |-> "root", l |-> "root", f |-> "d"]
MCName == [d |-> <<"%", "2", "0">>, l |-> <<"a">>, f |-> <<"a", " ">>]
MCTarget == [l |-> "d"]
MCChars == {"%", " ", "2", "0", "5", "a"}
MCHex == [ch \in {"%", " "} |-> IF ch = "%" THEN <<"2", "5">> ELSE <<"2", "0">>]
MCTyped == {[names |-> <<<<"%", "2", "5", "2", "0">>>>, slash |-> FALSE]}

\* Two directories with a file each, a file with a long name, a link back.
MCTree == {"d", "df", "e", "ef", "g", "l"}
MCTreeKind == [d |-> "dir", df |-> "file", e |-> "dir", ef |-> "file",
               g |-> "file", l |-> "link"]
MCTreeParent == [d |-> ".", df |-> "d", e |-> ".", ef |-> "e",
                 g |-> ".", l |-> "."]
MCTreeTarget == [l |-> "."]
MCNameLen == [n \in MCTree |-> IF n = "g" THEN 3 ELSE 1]

-----------------------------------------------------------------------------
Init ==
  /\ which \in {"table", "fork", "prod", "lock", "wait", "strm", "wrap", "http",
               "dgram", "list", "bev"}
  /\ T!Init /\ (which = "table" \/ tableProg = "primary")
  /\ F!Init /\ (which = "fork" \/ forkProg = "process")
  /\ P!Init /\ (which = "prod" \/ prodProg = "sem")
  /\ L!Init /\ (which = "lock" \/ lockProg = "share")
  /\ C!Init /\ (which = "wait" \/ waitProg = "catch_child")
  /\ S!Init /\ (which = "strm" \/ strmProg = "level")
  /\ W!Init /\ H!Init /\ D!Init /\ R!Init /\ B!Init

\* A is a step of one module, and the others stay.
InTableServers(A) == /\ which = "table" /\ A
  /\ UNCHANGED <<which, forkVars, prodVars, lockVars, waitVars, strmVars,
                wrapVars, httpVars, dgramVars, listVars, bevVars>>
InForkServers(A) == /\ which = "fork" /\ A
  /\ UNCHANGED <<which, tableVars, prodVars, lockVars, waitVars, strmVars,
                wrapVars, httpVars, dgramVars, listVars, bevVars>>
InProducers(A) == /\ which = "prod" /\ A
  /\ UNCHANGED <<which, tableVars, forkVars, lockVars, waitVars, strmVars,
                wrapVars, httpVars, dgramVars, listVars, bevVars>>
InLocks(A) == /\ which = "lock" /\ A
  /\ UNCHANGED <<which, tableVars, forkVars, prodVars, waitVars, strmVars,
                wrapVars, httpVars, dgramVars, listVars, bevVars>>
InChildren(A) == /\ which = "wait" /\ A
  /\ UNCHANGED <<which, tableVars, forkVars, prodVars, lockVars, strmVars,
                wrapVars, httpVars, dgramVars, listVars, bevVars>>
InStreams(A) == /\ which = "strm" /\ A
  /\ UNCHANGED <<which, tableVars, forkVars, prodVars, lockVars, waitVars,
                wrapVars, httpVars, dgramVars, listVars, bevVars>>
InStreamWrap(A) == /\ which = "wrap" /\ A
  /\ UNCHANGED <<which, tableVars, forkVars, prodVars, lockVars, waitVars,
                strmVars, httpVars, dgramVars, listVars, bevVars>>
InLibevent(A) == /\ which = "http" /\ A
  /\ UNCHANGED <<which, tableVars, forkVars, prodVars, lockVars, waitVars,
                strmVars, wrapVars, dgramVars, listVars, bevVars>>
InDatagrams(A) == /\ which = "dgram" /\ A
  /\ UNCHANGED <<which, tableVars, forkVars, prodVars, lockVars, waitVars,
                strmVars, wrapVars, httpVars, listVars, bevVars>>
InListing(A) == /\ which = "list" /\ A
  /\ UNCHANGED <<which, tableVars, forkVars, prodVars, lockVars, waitVars,
                strmVars, wrapVars, httpVars, dgramVars, bevVars>>
InBufferevents(A) == /\ which = "bev" /\ A
  /\ UNCHANGED <<which, tableVars, forkVars, prodVars, lockVars, waitVars,
                strmVars, wrapVars, httpVars, dgramVars, listVars>>

Next == \/ InTableServers(T!Next) \/ InForkServers(F!Next)
        \/ InProducers(P!Next) \/ InLocks(L!Next) \/ InChildren(C!Next)
        \/ InStreams(S!Next) \/ InStreamWrap(W!Next) \/ InLibevent(H!Next)
        \/ InDatagrams(D!Next) \/ InListing(R!Next) \/ InBufferevents(B!Next)

vars == <<which, tableVars, forkVars, prodVars, lockVars, waitVars, strmVars,
          wrapVars, httpVars, dgramVars, listVars, bevVars>>

\* The fairness of the modules: the n-th fair action of the one that runs, a
\* step of its variables. As which never changes, one formula for all of them
\* says it of each.
Active == CASE which = "table" -> tableVars [] which = "fork" -> forkVars
            [] which = "prod" -> prodVars [] which = "lock" -> lockVars
            [] which = "wait" -> waitVars [] which = "strm" -> strmVars
            [] which = "wrap" -> wrapVars [] which = "http" -> httpVars
            [] which = "dgram" -> dgramVars [] which = "list" -> listVars
            [] which = "bev" -> bevVars

FairAction(n) ==
  /\ UNCHANGED which
  /\ \/ /\ which = "table"
        /\ \/ n = 0 /\ T!Server
           \/ n = 1 /\ \E c \in Lockstep : T!Client(c)
     \/ /\ which = "fork"
        /\ \/ n = 0 /\ F!Main
           \/ n = 1 /\ \E c \in Lockstep : F!Client(c)
           \/ n > 1 /\ n - 1 \in F!Tasks /\ F!Task(n - 1)
     \/ /\ which = "prod"
        /\ \/ n = 0 /\ P!Step("p1")
           \/ n = 1 /\ P!Step("c1")
           \/ n = 2 /\ P!Step("c2")
     \/ /\ which = "lock"
        /\ \/ n = 0 /\ L!Step("main")
           \/ n = 1 /\ L!Step("child")
     \/ /\ which = "wait"
        /\ \/ n = 0 /\ C!Main
           \/ n = 1 /\ C!Handler
           \/ n > 1 /\ n - 1 <= Count /\ (C!ChildEnds(n - 1) \/ C!Poll(n - 1))
     \/ /\ which = "strm"
        /\ \/ n = 0 /\ S!Reader
           \/ n = 1 /\ S!Opens
           \/ n = 2 /\ S!Write
           \/ n = 3 /\ S!WriterEnds /\ S!Finite
     \/ which = "http" /\ n = 0 /\ H!Sends
     \/ /\ which = "dgram"
        /\ \/ n = 0 /\ D!Server
           \/ n = 1 /\ \E c \in UdpClients : D!Recvfrom(c)
     \/ which = "list" /\ n = 0 /\ R!Next
     \/ /\ which = "bev"
        /\ \/ n = 0 /\ B!Server
           \/ n = 1 /\ B!Dispatch

ClientTurn(c) == UNCHANGED which /\ which = "http" /\ H!OneClient(c)

Fairness == /\ \A n \in 0..4 : WF_Active(FairAction(n))
            /\ \A c \in Browsers \union Hasty : SF_Active(ClientTurn(c))

Spec == Init /\ [][Next]_vars /\ Fairness

-----------------------------------------------------------------------------
(* Properties of the modules, of the one that runs *)

TypeOK == CASE which = "table" -> T!TypeOK [] which = "fork" -> F!TypeOK
            [] which = "prod" -> P!TypeOK [] which = "lock" -> L!TypeOK
            [] which = "wait" -> C!TypeOK [] which = "strm" -> S!TypeOK
            [] which = "wrap" -> W!TypeOK [] which = "http" -> H!TypeOK
            [] which = "dgram" -> D!TypeOK [] which = "list" -> R!TypeOK
            [] which = "bev" -> B!TypeOK

TableHolds == which = "table" => T!TableHolds
EchoWhole == CASE which = "table" -> T!EchoWhole
               [] which = "fork" -> F!EchoWhole
               [] which = "dgram" -> D!AnswersOwn [] OTHER -> TRUE
OneServerEach == which = "fork" => F!OneServerEach
Undivided == which = "lock" => L!Undivided
NoneLeft == which = "wait" => C!NoneLeft
StreamInOrder == which = "wrap" => W!StreamInOrder
LinksOpen == CASE which = "http" -> H!LinksOpen
               [] which = "list" -> R!AllListed [] OTHER -> TRUE
AnswersWhole == CASE which = "http" -> H!AnswersWhole
                  [] which = "bev" -> B!FreedWithServer [] OTHER -> TRUE

ImplementsBuffer == P!ImplementsBuffer

\* What is owed stays owed until it is settled, so that P ~> Q of a module is
\* []<>~(P /\ ~Q) here: the state P /\ ~Q does not last for ever.
\* Served of the table and the fork servers, Answered of the libevent server, of
\* the datagrams and of the bufferevents.
Served ==
  LET Waits(c) ==
        \/ which = "table" /\ T!Owed(c) /\ ~T!Settled(c)
        \/ which = "fork" /\ F!Owed(c) /\ ~F!Settled(c)
        \/ /\ which = "http" /\ c \in Lockstep
           /\ \E x \in Browsers : H!Owed(x) /\ ~H!Settled(x)
        \/ which = "dgram" /\ c \in UdpClients /\ D!Owed(c) /\ ~D!Settled(c)
        \/ which = "bev" /\ c \in BevClients /\ B!Owed(c) /\ ~B!Settled(c)
  IN \A c \in Clients : []<>~Waits(c)

\* Reaped of the process server and of the programs that wait.
Reaped ==
  LET Remains(n) ==
        \/ which = "fork" /\ n \in F!Tasks /\ F!Dead(n) /\ ~F!Buried(n)
        \/ which = "wait" /\ n \in 1..Count /\ C!Dead(n) /\ ~C!Buried(n)
  IN \A n \in 1..3 : []<>~Remains(n)

\* AllUsed of the producers, EndsOrCrossed of the locks, AllConsumed of the
\* streams, Ends of the listing.
GoesOn ==
  LET Unfinished(n) ==
        \/ which = "prod" /\ n <= Products /\ P!Made(n) /\ ~P!Used(n)
        \/ which = "lock" /\ n = 1 /\ L!Running /\ ~L!Finished
        \/ which = "list" /\ n = 1 /\ ~R!Ended
        \/ which = "strm" /\ n <= StreamUnits + 2 /\ S!Begun(n) /\ ~S!Done(n)
  IN \A n \in 1..4 : []<>~Unfinished(n)

=============================================================================
