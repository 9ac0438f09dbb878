-------------------------- MODULE EventLoopProofs --------------------------
(* Theorems about EventLoop for every number of connections, descriptors and *)
(* entries of the table, and every length of the buffer, the sweep and the   *)
(* idle limit.                                                               *)
EXTENDS EventLoop, TLAPS

InUse(i) == g_events[i].status = 1

\* The two parts of TableAgrees about the table alone.
FdsDistinct ==
  \A i, j \in 0..MaxEvents :
    InUse(i) /\ InUse(j) /\ g_events[i].fd = g_events[j].fd => i = j
FdsOpen == \A i \in Pos : InUse(i) => file[g_events[i].fd] # NoConn

\* What epoll points to is what the table says is in use.
InSet(i) == [fd |-> g_events[i].fd, pos |-> i, events |-> g_events[i].events]
EpollAgrees == epoll = {InSet(i) : i \in {j \in 0..MaxEvents : InUse(j)}}

\* The listener's entry is never reused or closed.
ListenerKept ==
  /\ InUse(Listener) /\ g_events[Listener].fd = Lfd
  /\ g_events[Listener].call_back = "acceptconn"
  /\ g_events[Listener].events = "in"

\* The callback and the event of an entry in use go together.
EntriesAgree ==
  \A i \in Pos : InUse(i) =>
    /\ g_events[i].fd \in Fd
    /\ \/ g_events[i].call_back = "recvdata" /\ g_events[i].events = "in"
       \/ g_events[i].call_back = "senddata" /\ g_events[i].events = "out"

\* A connection is open while one descriptor refers to it, and queued while it
\* is in the backlog.
FilesAgree ==
  /\ \A d, e \in Fd : file[d] = file[e] /\ file[d] # NoConn => d = e
  /\ \A c \in Conns : conn[c] = "open" <=> \E fd \in Fd : file[fd] = c
  /\ \A c \in Conns : conn[c] = "queued" <=> c \in backlog

\* One event per entry in a batch, which is empty outside the callbacks.
BatchAgrees ==
  /\ \A a, b \in batch : a.pos = b.pos => a = b
  /\ \A b \in batch : b.pos = Listener => b.events = "in"
  /\ pc \in {"sweep", "wait"} => batch = {}

\* Nothing of a connection was read before it is accepted.
Untouched ==
  \A c \in Conns :
    /\ conn[c] = "new" => sent[c] = 0 /\ unread[c] = 0 /\ echoed[c] = 0
    /\ conn[c] = "queued" => sent[c] = unread[c] /\ echoed[c] = 0

\* EchoComplete, one entry at a time.
Holds(i, c) == /\ InUse(i) /\ g_events[i].buf = c
               /\ g_events[i].call_back = "senddata"
Accounted ==
  \A c \in Conns : conn[c] = "open" =>
    /\ (\A i \in Pos : ~Holds(i, c)) => sent[c] = unread[c] + echoed[c]
    /\ \A i \in Pos : Holds(i, c) =>
         sent[c] = unread[c] + g_events[i].len + echoed[c]

TableInv == /\ EpollAgrees /\ FdsDistinct /\ FdsOpen /\ ListenerKept
            /\ EntriesAgree /\ FilesAgree
DataInv == EchoToSender /\ Accounted /\ Untouched
IInv == TypeOK /\ TableInv /\ DataInv /\ BatchAgrees /\ NoStaleEvent
\* The type of an entry of the table.
EntryType ==
  [fd : Fd \union {Lfd}, events : {"none", "in", "out"}, status : {0, 1},
   call_back : {"none", "acceptconn", "recvdata", "senddata"},
   len : 0..BufLen, buf : Conns \union {NoConn}, idle : 0..IdleLimit]

LEMMA RemovedEntry ==
  ASSUME NEW e \in EntryType
  PROVE  /\ Removed(e) \in EntryType
         /\ Removed(e).status = 0 /\ Removed(e).fd = e.fd
  BY DEF EntryType, Removed

-----------------------------------------------------------------------------
(* What Register and CloseAll do to the table                                *)

\* A descriptor registered in entry i, which no other entry in use holds.
LEMMA RegisterTable ==
  ASSUME TypeOK, EpollAgrees, FdsDistinct, ListenerKept, EntriesAgree,
         NEW i \in Pos, NEW fd \in Fd, NEW cb, NEW ev, NEW len, NEW buf,
         (cb = "recvdata" /\ ev = "in") \/ (cb = "senddata" /\ ev = "out"),
         \A j \in 0..MaxEvents : j # i /\ InUse(j) => g_events[j].fd # fd,
         InUse(i) => g_events[i].fd = fd,
         Register(i, fd, cb, ev, len, buf)
  PROVE  EpollAgrees' /\ FdsDistinct' /\ ListenerKept' /\ EntriesAgree'
<1> USE LoopAssumption
<1>1. /\ i \in 0..MaxEvents /\ i # Listener /\ Listener \in 0..MaxEvents
      /\ Pos \subseteq 0..MaxEvents
  BY DEF Pos, Listener
<1>2. \A j \in 0..MaxEvents : j # i => g_events'[j] = g_events[j]
  BY DEF Register, TypeOK
<1>3. g_events'[i] = [fd |-> fd, call_back |-> cb, events |-> ev, status |-> 1,
                      len |-> len, buf |-> buf, idle |-> 0]
  BY <1>1 DEF Register, TypeOK
<1>4. \A j \in 0..MaxEvents : InUse(j)' <=> InUse(j) \/ j = i
  BY <1>2, <1>3 DEF InUse
<1>5. EpollAgrees'
  <2>1. epoll' = {e \in epoll : e.fd # fd}
                   \union {[fd |-> fd, pos |-> i, events |-> ev]}
    BY DEF Register, Without
  <2>2. InSet(i)' = [fd |-> fd, pos |-> i, events |-> ev]
    BY <1>3 DEF InSet
  <2>3. \A j \in 0..MaxEvents : j # i => InSet(j)' = InSet(j)
    BY <1>2 DEF InSet
  <2>4. \A j \in 0..MaxEvents : InSet(j).fd = g_events[j].fd
    BY DEF InSet
  <2> DEFINE after == {InSet(j)' : j \in {k \in 0..MaxEvents : InUse(k)'}}
  <2>5. ASSUME NEW e \in epoll' PROVE e \in after
    <3>1. CASE e = InSet(i)'
      BY <3>1, <1>1, <1>4
    <3>2. CASE e \in epoll /\ e.fd # fd
      <4>1. PICK j \in 0..MaxEvents : InUse(j) /\ e = InSet(j)
        BY <3>2 DEF EpollAgrees
      <4>2. j # i
        BY <3>2, <4>1, <2>4
      <4> QED BY <4>1, <4>2, <2>3, <1>4
    <3> QED BY <2>1, <2>2, <2>5, <3>1, <3>2
  <2>6. ASSUME NEW e \in after PROVE e \in epoll'
    <3>1. PICK j \in 0..MaxEvents : InUse(j)' /\ e = InSet(j)'
      BY <2>6
    <3>2. CASE j = i
      BY <3>1, <3>2, <2>1, <2>2
    <3>3. CASE j # i
      <4>1. InUse(j) /\ e = InSet(j) /\ e.fd # fd
        BY <3>1, <3>3, <1>4, <2>3, <2>4
      <4> QED BY <4>1, <2>1 DEF EpollAgrees
    <3> QED BY <3>2, <3>3
  <2> QED BY <2>5, <2>6 DEF EpollAgrees
<1>6. FdsDistinct'
  BY <1>1, <1>2, <1>3, <1>4 DEF FdsDistinct
<1>7. ListenerKept'
  BY <1>1, <1>2, <1>4 DEF ListenerKept
<1>8. EntriesAgree'
  BY <1>1, <1>2, <1>3, <1>4 DEF EntriesAgree
<1> QED BY <1>5, <1>6, <1>7, <1>8

\* CloseAll of entries in use takes them, and nothing else, out of use; their
\* descriptors are free afterwards and their connections closed.
LEMMA CloseTable ==
  ASSUME TypeOK, TableInv, NEW P \in SUBSET Pos, \A i \in P : InUse(i),
         CloseAll(P), UNCHANGED backlog
  PROVE  /\ TableInv'
         /\ g_events' \in [0..MaxEvents -> EntryType]
         /\ file' \in [Fd -> Conns \union {NoConn}]
         /\ conn' \in [Conns -> {"new", "queued", "open", "closed"}]
         /\ epoll' \subseteq epoll
         /\ \A j \in 0..MaxEvents :
              /\ InUse(j)' <=> InUse(j) /\ j \notin P
              /\ j \notin P => g_events'[j] = g_events[j]
              /\ j \in Pos /\ j \notin P /\ InUse(j) =>
                   file'[g_events[j].fd] = file[g_events[j].fd]
         /\ \A c \in Conns : conn'[c] # conn[c] => conn'[c] = "closed"
<1> USE LoopAssumption
<1> DEFINE closed == {g_events[i].fd : i \in P}
<1>1. /\ Pos \subseteq 0..MaxEvents
      /\ Listener \notin P /\ Listener \in 0..MaxEvents
  BY DEF Pos, Listener
<1>2. \A j \in 0..MaxEvents :
        g_events'[j] = IF j \in P THEN Removed(g_events[j])
                                  ELSE g_events[j]
  BY DEF CloseAll
<1> g_events \in [0..MaxEvents -> EntryType]
  BY DEF TypeOK, EntryType
<1>3. \A j \in 0..MaxEvents : InUse(j)' <=> InUse(j) /\ j \notin P
  BY <1>2, RemovedEntry DEF InUse
<1>4. g_events' \in [0..MaxEvents -> EntryType]
  BY RemovedEntry DEF CloseAll
<1>5. /\ file' = [fd \in Fd |-> IF fd \in closed THEN NoConn ELSE file[fd]]
      /\ conn' = [c \in Conns |-> IF \E fd \in closed : file[fd] = c
                                  THEN "closed" ELSE conn[c]]
      /\ epoll' = {e \in epoll : e.fd \notin closed}
  BY DEF CloseAll
<1>6. closed \subseteq Fd
  BY DEF TableInv, EntriesAgree
<1>7. \A j \in 0..MaxEvents :
        InUse(j) /\ j \notin P => g_events[j].fd \notin closed
  BY <1>1 DEF TableInv, FdsDistinct
<1>8. EpollAgrees'
  <2> DEFINE after == {InSet(j)' : j \in {k \in 0..MaxEvents : InUse(k)'}}
  <2>1. \A j \in 0..MaxEvents :
          InSet(j).fd = g_events[j].fd /\ (j \notin P => InSet(j)' = InSet(j))
    BY <1>2 DEF InSet
  <2>2. ASSUME NEW e \in epoll' PROVE e \in after
    <3>1. e \in epoll /\ e.fd \notin closed
      BY <2>2, <1>5
    <3>2. PICK j \in 0..MaxEvents : InUse(j) /\ e = InSet(j)
      BY <3>1 DEF TableInv, EpollAgrees
    <3>3. j \notin P
      BY <3>1, <3>2, <2>1
    <3> QED BY <3>2, <3>3, <2>1, <1>3
  <2>3. ASSUME NEW e \in after PROVE e \in epoll'
    <3>1. PICK j \in 0..MaxEvents : InUse(j)' /\ e = InSet(j)'
      BY <2>3
    <3>2. InUse(j) /\ j \notin P /\ e = InSet(j) /\ e.fd \notin closed
      BY <3>1, <1>3, <1>7, <2>1
    <3> QED BY <3>2, <1>5 DEF TableInv, EpollAgrees
  <2> QED BY <2>2, <2>3 DEF EpollAgrees
<1>9. FdsDistinct' /\ ListenerKept' /\ EntriesAgree'
  BY <1>1, <1>2, <1>3 DEF TableInv, FdsDistinct, ListenerKept, EntriesAgree
<1>10. \A j \in Pos : j \notin P /\ InUse(j) =>
         file'[g_events[j].fd] = file[g_events[j].fd]
  BY <1>1, <1>5, <1>7 DEF TableInv, EntriesAgree
<1>11. FdsOpen'
  BY <1>1, <1>2, <1>3, <1>10 DEF TableInv, FdsOpen
<1>12. FilesAgree'
  <2>1. \A d, e \in Fd : file'[d] = file'[e] /\ file'[d] # NoConn => d = e
    BY <1>5 DEF TableInv, FilesAgree
  <2>2. ASSUME NEW c \in Conns
        PROVE  conn'[c] = "open" <=> \E fd \in Fd : file'[fd] = c
    <3>1. CASE \E fd \in closed : file[fd] = c
      BY <3>1, <1>5, <1>6 DEF TableInv, FilesAgree
    <3>2. CASE ~ \E fd \in closed : file[fd] = c
      BY <3>2, <1>5, <1>6 DEF TableInv, FilesAgree
    <3> QED BY <3>1, <3>2
  <2>3. ASSUME NEW c \in Conns
        PROVE  conn'[c] = "queued" <=> c \in backlog'
    <3>1. CASE \E fd \in closed : file[fd] = c
      <4>1. conn[c] = "open"
        BY <3>1, <1>6 DEF TableInv, FilesAgree
      <4> QED BY <3>1, <4>1, <1>5 DEF TableInv, FilesAgree
    <3>2. CASE ~ \E fd \in closed : file[fd] = c
      BY <3>2, <1>5 DEF TableInv, FilesAgree
    <3> QED BY <3>1, <3>2
  <2> QED BY <2>1, <2>2, <2>3 DEF FilesAgree
<1>13. file' \in [Fd -> Conns \union {NoConn}]
  BY <1>5 DEF TypeOK
<1>14. conn' \in [Conns -> {"new", "queued", "open", "closed"}]
  BY <1>5 DEF TypeOK
<1>15. /\ epoll' \subseteq epoll
       /\ \A c \in Conns : conn'[c] # conn[c] => conn'[c] = "closed"
  BY <1>5
<1> QED BY <1>1, <1>2, <1>3, <1>4, <1>8, <1>9, <1>10, <1>11, <1>12, <1>13,
           <1>14, <1>15 DEF TableInv
-----------------------------------------------------------------------------
(* The invariant holds at first, and every action keeps it                   *)

LEMMA InitInv == Init => IInv
<1> SUFFICES ASSUME Init PROVE IInv
  OBVIOUS
<1> USE LoopAssumption
<1>1. g_events \in [0..MaxEvents -> EntryType]
  BY DEF Init, Entry, EntryType, Listener, Fd, Lfd
<1>2. \A i \in Pos :
        g_events[i].status = 0 /\ i # Listener /\ i \in 0..MaxEvents
  BY DEF Init, Entry, Pos, Listener
<1>3. /\ Listener \in 0..MaxEvents
      /\ g_events[Listener] = Entry(Lfd, "acceptconn", "in", 1)
      /\ \A i \in 0..MaxEvents : InUse(i) <=> i = Listener
  BY DEF Init, Entry, InUse, Listener
<1>4. TypeOK
  BY <1>1, <1>3 DEF Init, TypeOK, EntryType, Lfd
<1>5. EpollAgrees
  <2>1. InSet(Listener) = [fd |-> Lfd, pos |-> Listener, events |-> "in"]
    BY <1>3 DEF InSet, Entry
  <2>2. {InSet(i) : i \in {j \in 0..MaxEvents : InUse(j)}} = {InSet(Listener)}
    BY <1>3
  <2> QED BY <2>1, <2>2 DEF Init, EpollAgrees
<1>6. FdsDistinct /\ FdsOpen /\ ListenerKept /\ EntriesAgree
  BY <1>2, <1>3 DEF FdsDistinct, FdsOpen, ListenerKept, EntriesAgree, InUse,
                    Entry
<1>7. FilesAgree
  BY DEF Init, FilesAgree
<1>8. DataInv
  <2>1. EchoToSender
    BY <1>2 DEF EchoToSender
  <2>2. Accounted /\ Untouched
    BY DEF Init, Accounted, Untouched
  <2> QED BY <2>1, <2>2 DEF DataInv
<1>9. BatchAgrees /\ NoStaleEvent
  BY DEF Init, BatchAgrees, NoStaleEvent
<1> QED BY <1>4, <1>5, <1>6, <1>7, <1>8, <1>9 DEF IInv, TableInv

LEMMA CloseData ==
  ASSUME IInv, NEW P \in SUBSET Pos, \A i \in P : InUse(i),
         CloseAll(P), UNCHANGED <<peerVars, backlog, unread, echoed>>
  PROVE  DataInv'
<1> USE LoopAssumption
<1>1. /\ \A j \in Pos :
           /\ InUse(j)' <=> InUse(j) /\ j \notin P
           /\ j \notin P => g_events'[j] = g_events[j]
           /\ j \notin P /\ InUse(j) =>
                   file'[g_events[j].fd] = file[g_events[j].fd]
      /\ \A c \in Conns : conn'[c] # conn[c] => conn'[c] = "closed"
      /\ TableInv'
  BY CloseTable DEF IInv, Pos
<1>2. EchoToSender'
  BY <1>1 DEF IInv, DataInv, EchoToSender, InUse
<1>3. ASSUME NEW c \in Conns, conn'[c] = "open", conn[c] = "open"
      PROVE  \A i \in Pos : Holds(i, c)' <=> Holds(i, c)
  <2>1. ASSUME NEW i \in P, Holds(i, c) PROVE FALSE
    <3>1. file[g_events[i].fd] = c
      BY <2>1 DEF IInv, DataInv, EchoToSender, Holds, InUse
    <3>2. conn'[c] = "closed"
      BY <3>1 DEF CloseAll
    <3> QED BY <3>2, <1>3
  <2> QED BY <1>1, <2>1 DEF Holds
<1>4. Accounted'
  <2> SUFFICES ASSUME NEW c \in Conns, conn'[c] = "open"
               PROVE  /\ (\A i \in Pos : ~Holds(i, c)') =>
                            sent'[c] = unread'[c] + echoed'[c]
                      /\ \A i \in Pos : Holds(i, c)' =>
                           sent'[c] = unread'[c] + g_events'[i].len + echoed'[c]
    BY DEF Accounted
  <2>1. conn[c] = "open"
    BY <1>1
  <2>2. \A i \in Pos : Holds(i, c)' => g_events'[i] = g_events[i]
    BY <1>1 DEF Holds
  <2> QED BY <1>3, <2>1, <2>2 DEF IInv, DataInv, Accounted, peerVars
<1>5. Untouched'
  BY <1>1 DEF IInv, DataInv, Untouched, peerVars
<1> QED BY <1>2, <1>4, <1>5 DEF DataInv

LEMMA SweepInv ==
  ASSUME IInv, Sweep
  PROVE  IInv'
<1> USE LoopAssumption
<1>1. Expired \in SUBSET Pos /\ \A i \in Expired : InUse(i)
  <2>1. \A k \in Nat : (checkpos + k) % MaxEvents \in Pos
    BY DEF IInv, TypeOK, Pos
  <2> QED BY <2>1 DEF Expired, Visited, InUse
<1>2. /\ CloseAll(Expired)
      /\ UNCHANGED <<peerVars, batch, backlog, unread, echoed>>
  BY DEF Sweep
<1>3. /\ TableInv'
      /\ g_events' \in [0..MaxEvents -> EntryType]
      /\ file' \in [Fd -> Conns \union {NoConn}]
      /\ conn' \in [Conns -> {"new", "queued", "open", "closed"}]
      /\ epoll' \subseteq epoll
  BY <1>1, <1>2, CloseTable DEF IInv
<1>4. DataInv'
  BY <1>1, <1>2, CloseData DEF IInv
<1>5. checkpos' \in 0..MaxEvents
  <2>1. checkpos + SweepLen - 1 \in Int
    BY DEF IInv, TypeOK
  <2>2. \A x \in Int : (x % MaxEvents) + 1 \in 0..MaxEvents
    OBVIOUS
  <2> QED BY <2>1, <2>2 DEF Sweep, NextCheckpos
<1>6. batch' = {} /\ pc' = "wait"
  BY DEF Sweep, IInv, BatchAgrees
<1>7. TypeOK'
  BY <1>2, <1>3, <1>5, <1>6 DEF IInv, TypeOK, EntryType, peerVars
<1> QED BY <1>3, <1>4, <1>6, <1>7 DEF IInv, BatchAgrees, NoStaleEvent
LEMMA WaitInv ==
  ASSUME IInv, Wait
  PROVE  IInv'
<1> USE LoopAssumption
<1>1. UNCHANGED <<g_events, epoll, file, peer, sent, checkpos, backlog, unread,
                  conn, echoed>>
  BY DEF Wait, tableVars, peerVars
<1>2. \A e \in Ready :
        /\ e \in epoll /\ e.pos \in 0..MaxEvents
        /\ InUse(e.pos) /\ e = InSet(e.pos)
  BY DEF Ready, IInv, TableInv, EpollAgrees, InSet
<1>3. \A b \in batch' : \E e \in Ready :
        b = [pos |-> e.pos, events |-> e.events, conn |-> Owner(e.fd)]
  BY DEF Wait
<1>4. \A e \in Ready : /\ e.events \in {"in", "out"}
                       /\ Owner(e.fd) \in Conns \union {NoConn}
  BY <1>2 DEF IInv, TypeOK, Owner
<1>5. batch' \subseteq [pos : 0..MaxEvents, events : {"in", "out"},
                        conn : Conns \union {NoConn}]
  BY <1>2, <1>3, <1>4
<1>6. pc' \in {"sweep", "batch"} /\ (pc' = "sweep" => batch' = {})
  BY DEF Wait
<1>7. TypeOK'
  BY <1>1, <1>5, <1>6 DEF IInv, TypeOK
<1>8. TableInv' /\ DataInv'
  BY <1>1 DEF IInv, TableInv, DataInv, EpollAgrees, InSet, FdsDistinct, FdsOpen,
              ListenerKept, EntriesAgree, FilesAgree, EchoToSender, Accounted,
              Holds, Untouched, InUse
<1>9. \A b \in batch' :
        /\ b.pos \in 0..MaxEvents /\ InUse(b.pos)
        /\ b.events = g_events[b.pos].events
        /\ b.conn = Owner(g_events[b.pos].fd)
  BY <1>2, <1>3 DEF InSet
<1>10. BatchAgrees'
  <2>1. \A a, b \in batch' : a.pos = b.pos => a = b
    BY <1>5, <1>9
  <2>2. \A b \in batch' : b.pos = Listener => b.events = "in"
    BY <1>9 DEF IInv, TableInv, ListenerKept
  <2> QED BY <1>6, <2>1, <2>2 DEF BatchAgrees
<1>11. NoStaleEvent'
  <2> SUFFICES ASSUME NEW b \in batch', b.pos # Listener
               PROVE  /\ g_events'[b.pos].status = 1
                      /\ b.events = g_events'[b.pos].events
                      /\ file'[g_events'[b.pos].fd] = b.conn
    BY DEF NoStaleEvent, Wanted
  <2>1. b.pos \in Pos
    BY <1>9 DEF Pos, Listener
  <2>2. g_events[b.pos].fd # Lfd
    BY <1>9, <2>1 DEF IInv, TableInv, EntriesAgree, Fd, Lfd
  <2> QED BY <1>1, <1>9, <2>2 DEF Owner, InUse
<1> QED BY <1>7, <1>8, <1>10, <1>11 DEF IInv

\* A callback that leaves the other entries in use alone leaves the rest of
\* the batch as it should be.
LEMMA TakeBatch ==
  ASSUME IInv, NEW b \in batch, Take(b),
         \A j \in Pos : j # b.pos /\ InUse(j) =>
           /\ g_events'[j] = g_events[j]
           /\ file'[g_events[j].fd] = file[g_events[j].fd]
  PROVE  /\ BatchAgrees' /\ NoStaleEvent'
         /\ pc' \in {"sweep", "batch"} /\ checkpos' \in 0..MaxEvents
         /\ batch' \subseteq [pos : 0..MaxEvents, events : {"in", "out"},
                              conn : Conns \union {NoConn}]
         /\ peer' = peer /\ sent' = sent
<1> USE LoopAssumption
<1>1. /\ pc = "batch" /\ batch' = batch \ {b}
      /\ pc' = IF batch' = {} THEN "sweep" ELSE "batch"
      /\ checkpos' = checkpos /\ peer' = peer /\ sent' = sent
  BY DEF Take, peerVars
<1>2. BatchAgrees'
  BY <1>1 DEF IInv, BatchAgrees
<1>3. NoStaleEvent'
  <2> SUFFICES ASSUME NEW a \in batch', a.pos # Listener
               PROVE  /\ g_events'[a.pos].status = 1
                      /\ a.events = g_events'[a.pos].events
                      /\ file'[g_events'[a.pos].fd] = a.conn
    BY DEF NoStaleEvent, Wanted
  <2>1. a \in batch /\ a.pos # b.pos
    BY <1>1 DEF IInv, BatchAgrees
  <2>2. a.pos \in Pos
    BY <2>1 DEF IInv, TypeOK, Pos, Listener
  <2>3. InUse(a.pos) /\ Wanted(a) /\ file[g_events[a.pos].fd] = a.conn
    BY <1>1, <2>1 DEF IInv, NoStaleEvent, InUse, Down
  <2> QED BY <2>1, <2>2, <2>3 DEF Wanted, InUse
<1>4. checkpos' \in 0..MaxEvents /\
      batch' \subseteq [pos : 0..MaxEvents, events : {"in", "out"},
                        conn : Conns \union {NoConn}]
  BY <1>1 DEF IInv, TypeOK
<1> QED BY <1>1, <1>2, <1>3, <1>4

\* The callback of a connection runs for the connection of its event.
LEMMA CallbackEntry ==
  ASSUME IInv, NEW b \in batch, pc = "batch", NEW name,
         name \in {"recvdata", "senddata"}, Callback(b, name)
  PROVE  /\ b.pos \in Pos /\ InUse(b.pos) /\ g_events[b.pos].fd \in Fd
         /\ g_events[b.pos].call_back = name
<1> USE LoopAssumption
<1>1. b.pos \in 0..MaxEvents /\ g_events[b.pos].call_back = name
  BY DEF IInv, TypeOK, Callback
<1>2. b.pos # Listener
  BY <1>1 DEF IInv, TableInv, ListenerKept
<1>3. b.pos \in Pos
  BY <1>1, <1>2 DEF Pos, Listener
<1>4. InUse(b.pos)
  BY <1>2 DEF IInv, NoStaleEvent, InUse, Down
<1> QED BY <1>1, <1>3, <1>4 DEF IInv, TableInv, EntriesAgree

\* Only the entry of a connection's descriptor can wait to send to it.
LEMMA SoleHolder ==
  ASSUME IInv, NEW c \in Conns, NEW i \in Pos, InUse(i),
         file[g_events[i].fd] = c, NEW j \in Pos, Holds(j, c)
  PROVE  j = i
<1> USE LoopAssumption
<1>1. file[g_events[j].fd] = c /\ InUse(j)
  BY DEF IInv, DataInv, EchoToSender, Holds, InUse
<1>2. g_events[j].fd \in Fd /\ g_events[i].fd \in Fd
  BY <1>1 DEF IInv, TableInv, EntriesAgree
<1>3. g_events[j].fd = g_events[i].fd
  BY <1>1, <1>2 DEF IInv, TableInv, FilesAgree
<1>4. i \in 0..MaxEvents /\ j \in 0..MaxEvents
  BY DEF Pos
<1> QED BY <1>1, <1>3, <1>4 DEF IInv, TableInv, FdsDistinct
\* Closing the entry of the event that is handled.
LEMMA CloseInv ==
  ASSUME IInv, NEW b \in batch, Take(b), b.pos \in Pos, InUse(b.pos),
         CloseAll({b.pos}), UNCHANGED <<backlog, unread, echoed>>
  PROVE  IInv'
<1> USE LoopAssumption
<1>1. UNCHANGED <<peerVars, checkpos>>
  BY DEF Take
<1>2. {b.pos} \in SUBSET Pos /\ \A i \in {b.pos} : InUse(i)
  OBVIOUS
<1>3. /\ TableInv'
      /\ g_events' \in [0..MaxEvents -> EntryType]
      /\ file' \in [Fd -> Conns \union {NoConn}]
      /\ conn' \in [Conns -> {"new", "queued", "open", "closed"}]
      /\ epoll' \subseteq epoll
      /\ \A j \in 0..MaxEvents :
           /\ j \notin {b.pos} => g_events'[j] = g_events[j]
           /\ j \in Pos /\ j \notin {b.pos} /\ InUse(j) =>
                file'[g_events[j].fd] = file[g_events[j].fd]
  BY <1>2, CloseTable DEF IInv
<1>4. DataInv'
  BY <1>1, <1>2, CloseData DEF IInv
<1>5. \A j \in Pos : j # b.pos /\ InUse(j) =>
        /\ g_events'[j] = g_events[j]
        /\ file'[g_events[j].fd] = file[g_events[j].fd]
  BY <1>3 DEF Pos
<1>6. /\ BatchAgrees' /\ NoStaleEvent'
      /\ pc' \in {"sweep", "batch"} /\ checkpos' \in 0..MaxEvents
      /\ batch' \subseteq [pos : 0..MaxEvents, events : {"in", "out"},
                           conn : Conns \union {NoConn}]
      /\ peer' = peer /\ sent' = sent
  BY <1>5, TakeBatch
<1>7. TypeOK'
  BY <1>3, <1>6 DEF IInv, TypeOK, EntryType
<1> QED BY <1>3, <1>4, <1>6, <1>7 DEF IInv

\* What registering entry i again, for the descriptor it has, leaves alone.
LEMMA RegisterAgain ==
  ASSUME IInv, NEW i \in Pos, InUse(i), NEW cb, NEW ev, NEW len \in 0..BufLen,
         NEW buf \in Conns \union {NoConn},
         (cb = "recvdata" /\ ev = "in") \/ (cb = "senddata" /\ ev = "out"),
         Register(i, g_events[i].fd, cb, ev, len, buf),
         UNCHANGED <<file, conn, backlog>>
  PROVE  /\ TableInv'
         /\ g_events' \in [0..MaxEvents -> EntryType]
         /\ epoll' \subseteq [fd : Fd \union {Lfd}, pos : 0..MaxEvents,
                             events : {"in", "out"}]
         /\ \A j \in Pos : j # i => g_events'[j] = g_events[j]
         /\ g_events'[i] = [fd |-> g_events[i].fd, call_back |-> cb,
                            events |-> ev, status |-> 1, len |-> len,
                            buf |-> buf, idle |-> 0]
<1> USE LoopAssumption
<1> DEFINE new == [fd |-> g_events[i].fd, call_back |-> cb, events |-> ev,
                   status |-> 1, len |-> len, buf |-> buf, idle |-> 0]
<1>1. g_events[i].fd \in Fd /\ i \in 0..MaxEvents
  BY DEF IInv, TableInv, EntriesAgree, Pos
<1>2. \A j \in 0..MaxEvents :
        j # i /\ InUse(j) => g_events[j].fd # g_events[i].fd
  BY <1>1 DEF IInv, TableInv, FdsDistinct
<1>3. EpollAgrees' /\ FdsDistinct' /\ ListenerKept' /\ EntriesAgree'
  BY <1>1, <1>2, RegisterTable DEF IInv, TableInv
<1>4. new \in EntryType
  BY <1>1 DEF EntryType
<1>5. g_events' = [g_events EXCEPT ![i] = new]
  BY DEF Register
<1>6. g_events \in [0..MaxEvents -> EntryType]
  BY DEF IInv, TypeOK, EntryType
<1>7. g_events' \in [0..MaxEvents -> EntryType]
  BY <1>4, <1>5, <1>6
<1>8. /\ \A j \in Pos : j # i => g_events'[j] = g_events[j]
      /\ g_events'[i] = new
  BY <1>1, <1>5, <1>6 DEF Pos
<1>9. epoll' \subseteq [fd : Fd \union {Lfd}, pos : 0..MaxEvents,
                       events : {"in", "out"}]
  BY <1>1 DEF Register, Without, IInv, TypeOK
<1>10. FdsOpen'
  BY <1>8 DEF IInv, TableInv, FdsOpen, InUse
<1>11. FilesAgree'
  BY DEF IInv, TableInv, FilesAgree
<1> QED BY <1>3, <1>7, <1>8, <1>9, <1>10, <1>11 DEF TableInv

LEMMA HandleRecvInv ==
  ASSUME IInv, NEW b \in batch, HandleRecv(b)
  PROVE  IInv'
<1> USE LoopAssumption
<1> DEFINE i == b.pos
           fd == g_events[i].fd
<1>1. /\ i \in Pos /\ InUse(i) /\ fd \in Fd /\ Take(b)
      /\ g_events[i].call_back = "recvdata" /\ UNCHANGED <<backlog, echoed>>
  BY CallbackEntry DEF HandleRecv, Take
<1>2. CASE CloseAll({i}) /\ UNCHANGED unread
  BY <1>1, <1>2, CloseInv
<1>3. ASSUME NEW c \in Conns, file[fd] = c, unread[c] > 0,
             unread' = [unread EXCEPT ![c] = @ - RecvLen(c)],
             Register(i, fd, "senddata", "out", RecvLen(c), c),
             UNCHANGED <<file, conn>>
      PROVE  IInv'
  <2>1. /\ unread \in [Conns -> 0..MaxSend]
        /\ RecvLen(c) \in 0..BufLen /\ RecvLen(c) <= unread[c]
    BY DEF IInv, TypeOK, RecvLen
  <2>2. /\ TableInv'
        /\ g_events' \in [0..MaxEvents -> EntryType]
        /\ epoll' \subseteq [fd : Fd \union {Lfd}, pos : 0..MaxEvents,
                            events : {"in", "out"}]
        /\ \A j \in Pos : j # i => g_events'[j] = g_events[j]
        /\ g_events'[i] = [fd |-> fd, call_back |-> "senddata",
                           events |-> "out", status |-> 1,
                           len |-> RecvLen(c), buf |-> c, idle |-> 0]
    BY <1>1, <1>3, <2>1, RegisterAgain
  <2>3. \A j \in Pos : j # i /\ InUse(j) =>
          /\ g_events'[j] = g_events[j]
          /\ file'[g_events[j].fd] = file[g_events[j].fd]
    BY <1>3, <2>2
  <2>4. /\ BatchAgrees' /\ NoStaleEvent'
        /\ pc' \in {"sweep", "batch"} /\ checkpos' \in 0..MaxEvents
        /\ batch' \subseteq [pos : 0..MaxEvents, events : {"in", "out"},
                             conn : Conns \union {NoConn}]
        /\ peer' = peer /\ sent' = sent
    BY <1>1, <2>3, TakeBatch
  <2>5. unread' \in [Conns -> 0..MaxSend]
    BY <1>3, <2>1
  <2>6. TypeOK'
    BY <1>1, <1>3, <2>2, <2>4, <2>5 DEF IInv, TypeOK, EntryType
  <2>7. EchoToSender'
    BY <1>3, <2>2 DEF IInv, DataInv, EchoToSender
  <2>8. conn[c] = "open"
    BY <1>1, <1>3 DEF IInv, TableInv, FilesAgree
  <2>9. Untouched'
    BY <1>1, <1>3, <2>1, <2>4, <2>8 DEF IInv, DataInv, Untouched
  <2>10. \A j \in Pos : ~Holds(j, c)
    BY <1>1, <1>3, SoleHolder DEF Holds
  <2>11. \A d \in Conns, j \in Pos :
           Holds(j, d)' <=> (Holds(j, d) \/ (d = c /\ j = i))
    BY <1>1, <2>2 DEF Holds, InUse
  <2>12. Accounted'
    <3> SUFFICES ASSUME NEW d \in Conns, conn[d] = "open"
                 PROVE  /\ (\A j \in Pos : ~Holds(j, d)') =>
                              sent[d] = unread'[d] + echoed[d]
                        /\ \A j \in Pos : Holds(j, d)' =>
                             sent[d] = unread'[d] + g_events'[j].len + echoed[d]
      BY <1>1, <1>3, <2>4 DEF Accounted
    <3>1. CASE d = c
      <4>1. sent[c] = unread[c] + echoed[c]
        BY <2>8, <2>10 DEF IInv, DataInv, Accounted
      <4>2. unread'[c] = unread[c] - RecvLen(c) /\ g_events'[i].len = RecvLen(c)
        BY <1>3, <2>1, <2>2
      <4>3. \A j \in Pos : Holds(j, c)' <=> j = i
        BY <2>10, <2>11
      <4>4. sent[c] \in Nat /\ unread[c] \in Nat /\ echoed[c] \in Nat
        BY DEF IInv, TypeOK
      <4> QED BY <1>1, <2>1, <3>1, <4>1, <4>2, <4>3, <4>4
    <3>2. CASE d # c
      <4>1. unread'[d] = unread[d]
        BY <1>3, <2>1, <3>2
      <4>2. \A j \in Pos : Holds(j, d) => j # i
        BY <1>1 DEF Holds
      <4> QED BY <2>2, <2>11, <3>2, <4>1, <4>2 DEF IInv, DataInv, Accounted
    <3> QED BY <3>1, <3>2
  <2> QED BY <2>2, <2>4, <2>6, <2>7, <2>9, <2>12 DEF IInv, DataInv
<1> QED BY <1>2, <1>3 DEF HandleRecv, RecvData

LEMMA HandleSendInv ==
  ASSUME IInv, NEW b \in batch, HandleSend(b)
  PROVE  IInv'
<1> USE LoopAssumption
<1> DEFINE i == b.pos
           fd == g_events[i].fd
<1>1. /\ i \in Pos /\ InUse(i) /\ fd \in Fd /\ Take(b)
      /\ g_events[i].call_back = "senddata" /\ UNCHANGED <<backlog, unread>>
  BY CallbackEntry DEF HandleSend, Take
<1>2. CASE SendFails(i)
  BY <1>1, <1>2, CloseInv DEF SendFails
<1>3. ASSUME NEW c \in Conns, file[fd] = c,
             echoed' = [echoed EXCEPT ![c] = @ + SendLen(i)],
             Register(i, fd, "recvdata", "in", g_events[i].len,
                      g_events[i].buf),
             UNCHANGED <<file, conn>>
      PROVE  IInv'
  <2>1. /\ echoed \in [Conns -> 0..MaxSend]
        /\ g_events[i].len \in 0..BufLen /\ g_events[i].buf = c
        /\ g_events[i].buf \in Conns \union {NoConn}
        /\ sent[c] \in 0..MaxSend /\ unread[c] \in Nat
    BY <1>1, <1>3 DEF IInv, TypeOK, DataInv, EchoToSender, InUse, Pos
  <2>2. /\ TableInv'
        /\ g_events' \in [0..MaxEvents -> EntryType]
        /\ epoll' \subseteq [fd : Fd \union {Lfd}, pos : 0..MaxEvents,
                            events : {"in", "out"}]
        /\ \A j \in Pos : j # i => g_events'[j] = g_events[j]
        /\ g_events'[i] = [fd |-> fd, call_back |-> "recvdata",
                           events |-> "in", status |-> 1,
                           len |-> g_events[i].len, buf |-> g_events[i].buf,
                           idle |-> 0]
    <3> DEFINE len == g_events[i].len
               buf == g_events[i].buf
    <3>1. /\ len \in 0..BufLen /\ buf \in Conns \union {NoConn}
          /\ Register(i, fd, "recvdata", "in", len, buf)
          /\ UNCHANGED <<file, conn, backlog>>
      BY <1>1, <1>3, <2>1
    <3> HIDE DEF len, buf
    <3>2. /\ TableInv'
          /\ g_events' \in [0..MaxEvents -> EntryType]
          /\ epoll' \subseteq [fd : Fd \union {Lfd}, pos : 0..MaxEvents,
                              events : {"in", "out"}]
          /\ \A j \in Pos : j # i => g_events'[j] = g_events[j]
          /\ g_events'[i] = [fd |-> fd, call_back |-> "recvdata",
                             events |-> "in", status |-> 1,
                             len |-> len, buf |-> buf, idle |-> 0]
      BY <1>1, <3>1, RegisterAgain
    <3> QED BY <3>2 DEF len, buf
  <2>3. \A j \in Pos : j # i /\ InUse(j) =>
          /\ g_events'[j] = g_events[j]
          /\ file'[g_events[j].fd] = file[g_events[j].fd]
    BY <1>3, <2>2
  <2>4. /\ BatchAgrees' /\ NoStaleEvent'
        /\ pc' \in {"sweep", "batch"} /\ checkpos' \in 0..MaxEvents
        /\ batch' \subseteq [pos : 0..MaxEvents, events : {"in", "out"},
                             conn : Conns \union {NoConn}]
        /\ peer' = peer /\ sent' = sent
    BY <1>1, <2>3, TakeBatch
  <2>5. conn[c] = "open"
    BY <1>1, <1>3 DEF IInv, TableInv, FilesAgree
  <2>6. Holds(i, c)
    BY <1>1, <2>1 DEF Holds
  <2>7. sent[c] = unread[c] + g_events[i].len + echoed[c]
    BY <1>1, <2>5, <2>6 DEF IInv, DataInv, Accounted
  <2>8. echoed'[c] = echoed[c] + g_events[i].len
        /\ \A d \in Conns : d # c => echoed'[d] = echoed[d]
    BY <1>3, <2>1 DEF SendLen
  <2>9. echoed' \in [Conns -> 0..MaxSend]
    <3>1. echoed[c] + g_events[i].len \in 0..MaxSend
      BY <2>1, <2>7
    <3> QED BY <1>3, <2>1, <3>1 DEF SendLen
  <2>10. TypeOK'
    BY <1>1, <1>3, <2>2, <2>4, <2>9 DEF IInv, TypeOK, EntryType
  <2>11. EchoToSender'
    BY <1>3, <2>2 DEF IInv, DataInv, EchoToSender
  <2>12. Untouched'
    BY <1>1, <1>3, <2>4, <2>5, <2>8 DEF IInv, DataInv, Untouched
  <2>13. \A j \in Pos : Holds(j, c) => j = i
    BY <1>1, <1>3, SoleHolder
  <2>14. \A d \in Conns, j \in Pos : Holds(j, d)' <=> Holds(j, d) /\ j # i
    BY <1>1, <2>2 DEF Holds, InUse
  <2>15. Accounted'
    <3> SUFFICES ASSUME NEW d \in Conns, conn[d] = "open"
                 PROVE  /\ (\A j \in Pos : ~Holds(j, d)') =>
                              sent[d] = unread[d] + echoed'[d]
                        /\ \A j \in Pos : Holds(j, d)' =>
                             sent[d] = unread[d] + g_events'[j].len + echoed'[d]
      BY <1>1, <1>3, <2>4 DEF Accounted
    <3>1. CASE d = c
      <4>1. \A j \in Pos : ~Holds(j, c)'
        BY <2>13, <2>14
      <4>2. sent[c] = unread[c] + echoed'[c]
        BY <2>1, <2>7, <2>8
      <4> QED BY <3>1, <4>1, <4>2
    <3>2. CASE d # c
      <4>1. \A j \in Pos : Holds(j, d) => j # i
        BY <2>1, <3>2 DEF Holds
      <4> QED BY <2>2, <2>8, <2>14, <3>2, <4>1 DEF IInv, DataInv, Accounted
    <3> QED BY <3>1, <3>2
  <2> QED BY <2>2, <2>4, <2>10, <2>11, <2>12, <2>15 DEF IInv, DataInv
<1> QED BY <1>2, <1>3 DEF HandleSend, SendData
LEMMA HandleAcceptInv ==
  ASSUME IInv, NEW b \in batch, HandleAccept(b)
  PROVE  IInv'
<1> USE LoopAssumption
<1>1. Take(b) /\ AcceptConn /\ UNCHANGED <<unread, echoed, peer, sent>>
  BY DEF HandleAccept, Take, peerVars
<1>2. CASE UNCHANGED <<tableVars, backlog, conn>>
  <2>1. UNCHANGED <<g_events, epoll, file, backlog, conn>>
    BY <1>2 DEF tableVars
  <2>2. /\ BatchAgrees' /\ NoStaleEvent'
        /\ pc' \in {"sweep", "batch"} /\ checkpos' \in 0..MaxEvents
        /\ batch' \subseteq [pos : 0..MaxEvents, events : {"in", "out"},
                             conn : Conns \union {NoConn}]
    BY <1>1, <2>1, TakeBatch
  <2>3. TypeOK'
    BY <1>1, <2>1, <2>2 DEF IInv, TypeOK
  <2>4. TableInv' /\ DataInv'
    BY <1>1, <2>1 DEF IInv, TableInv, DataInv, EpollAgrees, InSet, FdsDistinct,
      FdsOpen, ListenerKept, EntriesAgree, FilesAgree, EchoToSender, Accounted,
      Holds, Untouched, InUse
  <2> QED BY <2>2, <2>3, <2>4 DEF IInv
<1>3. ASSUME NEW c \in backlog, NEW fd \in FreeFd,
             backlog' = backlog \ {c},
             file' = [file EXCEPT ![fd] = c],
             conn' = [conn EXCEPT ![c] = "open"],
             \/ \E i \in Pos : /\ FirstFree(i)
                              /\ Register(i, fd, "recvdata", "in",
                                          g_events[i].len, g_events[i].buf)
             \/ UNCHANGED <<g_events, epoll>>
      PROVE  IInv'
  <2>1. /\ fd \in Fd /\ file[fd] = NoConn /\ c \in Conns /\ conn[c] = "queued"
        /\ \A e \in Fd : file[e] # c
        /\ file \in [Fd -> Conns \union {NoConn}]
        /\ conn \in [Conns -> {"new", "queued", "open", "closed"}]
    BY <1>3 DEF FreeFd, IInv, TypeOK, TableInv, FilesAgree
  <2>2. \A j \in 0..MaxEvents : InUse(j) => g_events[j].fd # fd
    <3>1. \A j \in Pos : InUse(j) => g_events[j].fd # fd
      BY <2>1 DEF IInv, TableInv, FdsOpen
    <3>2. g_events[Listener].fd # fd
      BY <2>1 DEF IInv, TableInv, ListenerKept, Lfd, Fd
    <3> QED BY <3>1, <3>2 DEF Pos, Listener
  <2>3. /\ file' \in [Fd -> Conns \union {NoConn}]
        /\ conn' \in [Conns -> {"new", "queued", "open", "closed"}]
        /\ file'[fd] = c /\ \A e \in Fd : e # fd => file'[e] = file[e]
        /\ conn'[c] = "open" /\ \A d \in Conns : d # c => conn'[d] = conn[d]
    BY <1>3, <2>1
  <2>4. FilesAgree'
    <3>1. \A d, e \in Fd : file'[d] = file'[e] /\ file'[d] # NoConn => d = e
      BY <2>1, <2>3 DEF IInv, TableInv, FilesAgree
    <3>2. \A d \in Conns : conn'[d] = "open" <=> \E e \in Fd : file'[e] = d
      BY <2>1, <2>3 DEF IInv, TableInv, FilesAgree
    <3>3. \A d \in Conns : conn'[d] = "queued" <=> d \in backlog'
      BY <1>3, <2>1, <2>3 DEF IInv, TableInv, FilesAgree
    <3> QED BY <3>1, <3>2, <3>3 DEF FilesAgree
  <2>5. \A j \in Pos : InUse(j) =>
          g_events[j].fd \in Fd /\ file'[g_events[j].fd] = file[g_events[j].fd]
    BY <2>2, <2>3 DEF IInv, TableInv, EntriesAgree, Pos
  \* What the two ways to end, with an entry and without, have in common.
  <2> DEFINE
        Kept ==
          /\ EpollAgrees' /\ FdsDistinct' /\ ListenerKept' /\ EntriesAgree'
          /\ g_events' \in [0..MaxEvents -> EntryType]
          /\ epoll' \subseteq [fd : Fd \union {Lfd}, pos : 0..MaxEvents,
                              events : {"in", "out"}]
          /\ \A j \in Pos : InUse(j) => g_events'[j] = g_events[j]
          /\ \A j \in Pos : InUse(j)' /\ ~InUse(j) =>
               g_events'[j].call_back = "recvdata" /\ g_events'[j].fd = fd
  <2>6. Kept
    <3>1. g_events \in [0..MaxEvents -> EntryType]
      BY DEF IInv, TypeOK, EntryType
    <3>2. CASE UNCHANGED <<g_events, epoll>>
      <4>1. EpollAgrees' /\ FdsDistinct' /\ ListenerKept' /\ EntriesAgree'
        BY <3>2 DEF IInv, TableInv, EpollAgrees, InSet, FdsDistinct,
                    ListenerKept, EntriesAgree, InUse
      <4>2. epoll' \subseteq [fd : Fd \union {Lfd}, pos : 0..MaxEvents,
                             events : {"in", "out"}]
        BY <3>2 DEF IInv, TypeOK
      <4> QED BY <3>1, <3>2, <4>1, <4>2 DEF InUse
    <3>3. ASSUME NEW i \in Pos, FirstFree(i),
                 Register(i, fd, "recvdata", "in", g_events[i].len,
                          g_events[i].buf)
          PROVE  Kept
      <4>1. ~InUse(i) /\ i \in 0..MaxEvents
        BY <3>3 DEF FirstFree, IsFree, InUse, Pos
      <4> DEFINE len == g_events[i].len
                 buf == g_events[i].buf
                 new == [fd |-> fd, call_back |-> "recvdata", events |-> "in",
                         status |-> 1, len |-> len, buf |-> buf, idle |-> 0]
      <4>2. Register(i, fd, "recvdata", "in", len, buf) /\ new \in EntryType
        BY <2>1, <3>1, <3>3, <4>1 DEF EntryType
      <4> HIDE DEF len, buf
      <4>3. EpollAgrees' /\ FdsDistinct' /\ ListenerKept' /\ EntriesAgree'
        BY <2>1, <2>2, <4>1, <4>2, RegisterTable DEF IInv, TableInv
      <4>4. g_events' = [g_events EXCEPT ![i] = new]
        BY <4>2 DEF Register
      <4>5. epoll' \subseteq [fd : Fd \union {Lfd}, pos : 0..MaxEvents,
                             events : {"in", "out"}]
        <5>1. epoll' = {e \in epoll : e.fd # fd}
                         \union {[fd |-> fd, pos |-> i, events |-> "in"]}
          BY <4>2 DEF Register, Without
        <5>2. epoll \subseteq [fd : Fd \union {Lfd}, pos : 0..MaxEvents,
                              events : {"in", "out"}]
          BY DEF IInv, TypeOK
        <5> QED BY <2>1, <4>1, <5>1, <5>2
      <4> QED BY <3>1, <4>1, <4>2, <4>3, <4>4, <4>5 DEF InUse, Pos
    <3> QED BY <1>3, <3>2, <3>3
  <2>7. FdsOpen'
    BY <2>1, <2>3, <2>5, <2>6 DEF IInv, TableInv, FdsOpen, InUse
  <2>8. \A j \in Pos, d \in Conns : Holds(j, d)' <=> Holds(j, d)
    BY <2>6 DEF Holds, InUse
  <2>9. EchoToSender'
    BY <2>5, <2>6 DEF IInv, DataInv, EchoToSender, InUse
  <2>10. \A j \in Pos : ~Holds(j, c)
    BY <2>1, <2>5 DEF IInv, DataInv, EchoToSender, Holds, InUse
  <2>11. Accounted'
    <3> SUFFICES ASSUME NEW d \in Conns, conn'[d] = "open"
                 PROVE  /\ (\A j \in Pos : ~Holds(j, d)) =>
                              sent[d] = unread[d] + echoed[d]
                        /\ \A j \in Pos : Holds(j, d) =>
                             sent[d] = unread[d] + g_events[j].len + echoed[d]
      BY <1>1, <2>6, <2>8 DEF Accounted, Holds
    <3>1. CASE d = c
      <4>1. sent[c] = unread[c] /\ echoed[c] = 0 /\ unread[c] \in Nat
        BY <2>1 DEF IInv, TypeOK, DataInv, Untouched
      <4> QED BY <2>10, <3>1, <4>1
    <3>2. CASE d # c
      BY <2>3, <3>2 DEF IInv, DataInv, Accounted
    <3> QED BY <3>1, <3>2
  <2>12. Untouched'
    BY <1>1, <2>3 DEF IInv, DataInv, Untouched
  <2>13. /\ BatchAgrees' /\ NoStaleEvent'
         /\ pc' \in {"sweep", "batch"} /\ checkpos' \in 0..MaxEvents
         /\ batch' \subseteq [pos : 0..MaxEvents, events : {"in", "out"},
                              conn : Conns \union {NoConn}]
    BY <1>1, <2>5, <2>6, TakeBatch
  <2>14. TypeOK'
    BY <1>1, <1>3, <2>3, <2>6, <2>13 DEF IInv, TypeOK, EntryType
  <2> QED BY <2>4, <2>6, <2>7, <2>9, <2>11, <2>12, <2>13, <2>14
          DEF IInv, TableInv, DataInv
<1> QED BY <1>1, <1>2, <1>3 DEF AcceptConn

\* Sent and unread grow by the same number.
LEMMA SameDifference ==
  ASSUME NEW s, NEW u, NEW s0, NEW u0, NEW l, NEW e,
         s \in Int, u \in Int, s0 \in Int, u0 \in Int, l \in Int, e \in Int,
         s - u = s0 - u0, s0 = u0 + l + e
  PROVE  s = u + l + e
  OBVIOUS

LEMMA OtherInv ==
  ASSUME IInv,
         \/ WaitFails \/ Tick \/ Stopped
         \/ \E b \in batch : SendKilled(b)
         \/ \E c \in Conns : Peer(c)
  PROVE  IInv'
<1> USE LoopAssumption
<1>1. CASE \/ WaitFails \/ Stopped \/ \E b \in batch : SendKilled(b)
  <2>1. /\ UNCHANGED <<g_events, epoll, file, peer, sent, checkpos, batch,
                       backlog, unread, conn, echoed>>
        /\ (pc' \in {"exited", "killed"} \/ pc' = pc)
    BY <1>1 DEF WaitFails, Stopped, SendKilled, vars, tableVars, peerVars
  <2>2. TypeOK'
    BY <2>1 DEF IInv, TypeOK
  <2>3. TableInv' /\ DataInv'
    BY <2>1 DEF IInv, TableInv, DataInv, EpollAgrees, InSet, FdsDistinct,
      FdsOpen, ListenerKept, EntriesAgree, FilesAgree, EchoToSender, Accounted,
      Holds, Untouched, InUse
  <2>4. BatchAgrees' /\ NoStaleEvent'
    BY <2>1 DEF IInv, BatchAgrees, NoStaleEvent, Wanted, Down
  <2> QED BY <2>2, <2>3, <2>4 DEF IInv
<1>2. CASE Tick
  <2>1. /\ UNCHANGED <<epoll, file, peer, sent, checkpos, pc, batch, backlog,
                       unread, conn, echoed>>
        /\ g_events' = [i \in 0..MaxEvents |->
             IF i # Listener /\ g_events[i].idle < IdleLimit
             THEN [g_events[i] EXCEPT !.idle = @ + 1] ELSE g_events[i]]
    BY <1>2 DEF Tick, peerVars
  <2>2. \A e \in EntryType :
          LET f == [e EXCEPT !.idle = @ + 1]
          IN  /\ f.fd = e.fd /\ f.events = e.events /\ f.status = e.status
              /\ f.len = e.len /\ f.buf = e.buf /\ f.call_back = e.call_back
              /\ e.idle < IdleLimit => f \in EntryType
    BY DEF EntryType
  <2>3. g_events \in [0..MaxEvents -> EntryType]
    BY DEF IInv, TypeOK, EntryType
  <2>4. /\ g_events' \in [0..MaxEvents -> EntryType]
        /\ \A i \in 0..MaxEvents :
             /\ g_events'[i].fd = g_events[i].fd
             /\ g_events'[i].events = g_events[i].events
             /\ g_events'[i].status = g_events[i].status
             /\ g_events'[i].len = g_events[i].len
             /\ g_events'[i].buf = g_events[i].buf
             /\ g_events'[i].call_back = g_events[i].call_back
    BY <2>1, <2>2, <2>3
  <2>5. /\ Pos \subseteq 0..MaxEvents /\ Listener \in 0..MaxEvents
        /\ \A b \in batch : b.pos \in 0..MaxEvents
    BY DEF Pos, Listener, IInv, TypeOK
  <2>6. TypeOK'
    BY <2>1, <2>4 DEF IInv, TypeOK, EntryType
  <2>7. EpollAgrees'
    <3>1. /\ \A i \in 0..MaxEvents : InSet(i)' = InSet(i)
          /\ \A i \in 0..MaxEvents : InUse(i)' <=> InUse(i)
      BY <2>4 DEF InSet, InUse
    <3>2. {InSet(i)' : i \in {j \in 0..MaxEvents : InUse(j)'}}
            = {InSet(i) : i \in {j \in 0..MaxEvents : InUse(j)}}
      BY <3>1
    <3> QED BY <2>1, <3>2 DEF IInv, TableInv, EpollAgrees
  <2>8. /\ FdsDistinct' /\ FdsOpen' /\ ListenerKept' /\ EntriesAgree'
        /\ FilesAgree'
    BY <2>1, <2>4, <2>5 DEF IInv, TableInv, FdsDistinct, FdsOpen, ListenerKept,
                            EntriesAgree, FilesAgree, InUse
  <2>9. DataInv'
    <3>1. EchoToSender'
      BY <2>1, <2>4, <2>5 DEF IInv, DataInv, EchoToSender
    <3>2. \A i \in Pos, c \in Conns : Holds(i, c)' <=> Holds(i, c)
      BY <2>4, <2>5 DEF Holds, InUse
    <3>3. Accounted'
      BY <2>1, <2>4, <2>5, <3>2 DEF IInv, DataInv, Accounted
    <3>4. Untouched'
      BY <2>1 DEF IInv, DataInv, Untouched
    <3> QED BY <3>1, <3>3, <3>4 DEF DataInv
  <2>10. BatchAgrees' /\ NoStaleEvent'
    BY <2>1, <2>4, <2>5 DEF IInv, BatchAgrees, NoStaleEvent, Wanted, Down
  <2> QED BY <2>6, <2>7, <2>8, <2>9, <2>10 DEF IInv, TableInv
<1>3. ASSUME NEW c \in Conns, Connect(c) PROVE IInv'
  <2>1. /\ UNCHANGED <<g_events, epoll, file, peer, sent, checkpos, pc, batch,
                       unread, echoed>>
        /\ conn[c] = "new" /\ conn' = [conn EXCEPT ![c] = "queued"]
        /\ backlog' = backlog \union {c}
    BY <1>3 DEF Connect, tableVars, peerVars
  <2>2. TypeOK'
    BY <2>1 DEF IInv, TypeOK
  <2>3. /\ conn'[c] = "queued"
        /\ \A d \in Conns : d # c => conn'[d] = conn[d]
    BY <2>1 DEF IInv, TypeOK
  <2>4. TableInv'
    BY <2>1, <2>3 DEF IInv, TableInv, EpollAgrees, InSet, FdsDistinct,
      FdsOpen, ListenerKept, EntriesAgree, FilesAgree, InUse
  <2>5. DataInv'
    <3>1. EchoToSender'
      BY <2>1 DEF IInv, DataInv, EchoToSender
    <3>2. \A i \in Pos, d \in Conns : Holds(i, d)' <=> Holds(i, d)
      BY <2>1 DEF Holds, InUse
    <3>3. Accounted'
      BY <2>1, <2>3, <3>2 DEF IInv, DataInv, Accounted
    <3>4. Untouched'
      BY <2>1, <2>3 DEF IInv, DataInv, Untouched
    <3> QED BY <3>1, <3>3, <3>4 DEF DataInv
  <2>6. BatchAgrees' /\ NoStaleEvent'
    BY <2>1 DEF IInv, BatchAgrees, NoStaleEvent, Wanted, Down
  <2> QED BY <2>2, <2>4, <2>5, <2>6 DEF IInv
<1>4. ASSUME NEW c \in Conns, PeerSend(c) \/ PeerChange(c) PROVE IInv'
  <2>1. /\ UNCHANGED <<g_events, epoll, file, checkpos, pc, batch, backlog,
                       conn, echoed>>
        /\ conn[c] \in {"queued", "open"}
    BY <1>4 DEF PeerSend, PeerChange, PeerMove, tableVars
  <2>2. /\ peer \in [Conns -> {"up", "stalled", "shut", "reset"}]
        /\ sent \in [Conns -> 0..MaxSend]
        /\ unread \in [Conns -> 0..MaxSend] /\ echoed \in [Conns -> 0..MaxSend]
        /\ \A i \in Pos : g_events[i].len \in 0..BufLen
    <3>1. g_events \in [0..MaxEvents -> EntryType]
      BY DEF IInv, TypeOK, EntryType
    <3>2. ASSUME NEW i \in Pos PROVE g_events[i].len \in 0..BufLen
      <4>1. g_events[i] \in EntryType
        BY <3>1 DEF Pos
      <4> QED BY <4>1 DEF EntryType
    <3> QED BY <3>2 DEF IInv, TypeOK
  <2>3. /\ peer' \in [Conns -> {"up", "stalled", "shut", "reset"}]
        /\ sent' \in [Conns -> 0..MaxSend]
        /\ unread' \in [Conns -> Int]
        /\ \A d \in Conns :
             d # c => sent'[d] = sent[d] /\ unread'[d] = unread[d]
        /\ sent'[c] - sent[c] = unread'[c] - unread[c]
        /\ unread[c] <= unread'[c]
    <3>1. CASE PeerSend(c)
      BY <2>2, <3>1 DEF PeerSend
    <3>2. CASE PeerChange(c)
      <4>1. peer' \in [Conns -> {"up", "stalled", "shut", "reset"}]
        BY <2>2, <3>2 DEF PeerChange
      <4>2. sent' = sent /\ unread' = unread
        BY <3>2 DEF PeerChange
      <4> QED BY <2>2, <4>1, <4>2
    <3> QED BY <1>4, <3>1, <3>2
  <2>4. Untouched' /\ Accounted'
    <3>1. \A d \in Conns : sent'[d] - unread'[d] = sent[d] - unread[d]
      BY <2>2, <2>3
    <3>2. \A d \in Conns :
            sent'[d] \in Int /\ unread'[d] \in Int /\ echoed[d] \in Int
      BY <2>2, <2>3
    <3>3. ASSUME NEW d \in Conns
          PROVE  /\ conn[d] = "new" =>
                      sent'[d] = 0 /\ unread'[d] = 0 /\ echoed[d] = 0
                 /\ conn[d] = "queued" => sent'[d] = unread'[d] /\ echoed[d] = 0
      <4>1. CASE d = c
        <5>1. conn[c] = "queued" => sent[c] = unread[c] /\ echoed[c] = 0
          BY DEF IInv, DataInv, Untouched
        <5>2. /\ sent'[c] - unread'[c] = sent[c] - unread[c]
              /\ sent'[c] \in Int /\ unread'[c] \in Int /\ unread[c] \in Int
          BY <2>2, <3>1, <3>2
        <5>3. sent[c] = unread[c] => sent'[c] = unread'[c]
          BY <5>2
        <5> QED BY <2>1, <4>1, <5>1, <5>3
      <4>2. CASE d # c
        BY <2>3, <4>2 DEF IInv, DataInv, Untouched
      <4> QED BY <4>1, <4>2
    <3>4. Untouched'
      BY <2>1, <3>3 DEF Untouched
    <3>5. ASSUME NEW d \in Conns, conn[d] = "open"
          PROVE  /\ (\A i \in Pos : ~Holds(i, d)) =>
                      sent'[d] = unread'[d] + echoed[d]
                 /\ \A i \in Pos : Holds(i, d) =>
                      sent'[d] = unread'[d] + g_events[i].len + echoed[d]
      <4>1. /\ (\A i \in Pos : ~Holds(i, d)) => sent[d] = unread[d] + echoed[d]
            /\ \A i \in Pos : Holds(i, d) =>
                 sent[d] = unread[d] + g_events[i].len + echoed[d]
        BY <3>5 DEF IInv, DataInv, Accounted
      <4>2. /\ sent'[d] - unread'[d] = sent[d] - unread[d]
            /\ sent[d] \in Int /\ unread[d] \in Int /\ echoed[d] \in Int
            /\ sent'[d] \in Int /\ unread'[d] \in Int
        BY <2>2, <3>1, <3>2
      <4>3. ASSUME NEW i \in Pos, Holds(i, d)
            PROVE  sent'[d] = unread'[d] + g_events[i].len + echoed[d]
        <5>1. sent[d] = unread[d] + g_events[i].len + echoed[d]
          BY <4>1, <4>3
        <5>2. g_events[i].len \in Int
          BY <2>2
        <5> QED BY <4>2, <5>1, <5>2, SameDifference, SMT
      <4>4. ASSUME \A i \in Pos : ~Holds(i, d)
            PROVE  sent'[d] = unread'[d] + echoed[d]
        BY <4>1, <4>2, <4>4
      <4> QED BY <4>3, <4>4
    <3>6. Accounted'
      BY <2>1, <3>5 DEF Accounted, Holds, InUse
    <3> QED BY <3>4, <3>6
  <2>5. TableInv' /\ EchoToSender'
    BY <2>1 DEF IInv, TableInv, EpollAgrees, InSet, FdsDistinct, FdsOpen,
                ListenerKept, EntriesAgree, FilesAgree, InUse, DataInv,
                EchoToSender
  <2>6. BatchAgrees' /\ NoStaleEvent'
    BY <2>1 DEF IInv, BatchAgrees, NoStaleEvent, Wanted, Down
  <2>7. unread' \in [Conns -> 0..MaxSend]
    <3>1. unread'[c] <= sent'[c]
      <4>1. unread[c] <= sent[c]
        <5>1. CASE conn[c] = "queued"
          BY <5>1 DEF IInv, TypeOK, DataInv, Untouched
        <5>2. CASE conn[c] = "open"
          <6>1. \A i \in Pos : g_events[i].len \in Nat
            BY DEF IInv, TypeOK, Pos
          <6>2. unread[c] \in Nat /\ echoed[c] \in Nat
            BY DEF IInv, TypeOK
          <6> QED BY <5>2, <6>1, <6>2 DEF IInv, DataInv, Accounted
        <5> QED BY <2>1, <5>1, <5>2
      <4> QED BY <2>2, <2>3, <4>1
    <3> QED BY <2>2, <2>3, <3>1
  <2>8. TypeOK'
    BY <2>1, <2>3, <2>7 DEF IInv, TypeOK
  <2> QED BY <2>4, <2>5, <2>6, <2>8 DEF IInv, DataInv
<1> QED BY <1>1, <1>2, <1>3, <1>4 DEF Peer
LEMMA NextInv ==
  ASSUME IInv, [Next]_vars
  PROVE  IInv'
<1>1. CASE Sweep \/ Wait
  BY <1>1, SweepInv, WaitInv
<1>2. CASE \E b \in batch : HandleAccept(b) \/ HandleRecv(b) \/ HandleSend(b)
  BY <1>2, HandleAcceptInv, HandleRecvInv, HandleSendInv
<1>3. CASE \/ WaitFails \/ Tick \/ Stopped
           \/ \E b \in batch : SendKilled(b)
           \/ \E c \in Conns : Peer(c)
  BY <1>3, OtherInv
<1>4. CASE UNCHANGED vars
  BY <1>4 DEF vars, tableVars, peerVars, IInv, TypeOK, TableInv, DataInv,
    EpollAgrees, InSet, FdsDistinct, FdsOpen, ListenerKept, EntriesAgree,
    FilesAgree, EchoToSender, Accounted, Holds, Untouched, BatchAgrees,
    NoStaleEvent, Wanted, Down, InUse
<1> QED BY <1>1, <1>2, <1>3, <1>4 DEF Next, Server

\* The invariant, of every reachable state: Init establishes it and every
\* callback, move of a client and tick of the clock keeps it.
THEOREM Invariant == Spec => []IInv
<1>1. Init => IInv
  BY InitInv
<1>2. IInv /\ [Next]_vars => IInv'
  BY NextInv
<1> QED BY <1>1, <1>2, PTL DEF Spec

-----------------------------------------------------------------------------
(* The properties of the runs                                                *)

LEMMA InvTable == IInv => TableAgrees
<1> SUFFICES ASSUME IInv PROVE TableAgrees
  OBVIOUS
<1>1. epoll = {[fd |-> g_events[i].fd, pos |-> i, events |-> g_events[i].events]
                : i \in {j \in 0..MaxEvents : g_events[j].status = 1}}
  BY DEF IInv, TableInv, EpollAgrees, InSet, InUse
<1>2. \A i, j \in 0..MaxEvents :
        /\ g_events[i].status = 1 /\ g_events[j].status = 1
        /\ g_events[i].fd = g_events[j].fd
        => i = j
  BY DEF IInv, TableInv, FdsDistinct, InUse
<1>3. \A i \in Pos : g_events[i].status = 1 => file[g_events[i].fd] # NoConn
  BY DEF IInv, TableInv, FdsOpen, InUse
<1> QED BY <1>1, <1>2, <1>3 DEF TableAgrees

LEMMA InvEcho == IInv => EchoComplete
<1> SUFFICES ASSUME IInv, NEW c \in Conns, conn[c] = "open"
             PROVE  \/ Held(c) = {} /\ sent[c] = unread[c] + echoed[c]
                    \/ \E i \in Pos :
                         /\ Held(c) = {i}
                         /\ sent[c] = unread[c] + g_events[i].len + echoed[c]
  BY DEF EchoComplete
<1>1. Held(c) = {i \in Pos : Holds(i, c)}
  BY DEF Held, Holds, InUse
<1>2. CASE \A i \in Pos : ~Holds(i, c)
  BY <1>1, <1>2 DEF IInv, DataInv, Accounted
<1>3. ASSUME NEW i \in Pos, Holds(i, c)
      PROVE  /\ Held(c) = {i}
             /\ sent[c] = unread[c] + g_events[i].len + echoed[c]
  <2>1. InUse(i) /\ file[g_events[i].fd] = c
    BY <1>3 DEF IInv, DataInv, EchoToSender, Holds, InUse
  <2>2. \A j \in Pos : Holds(j, c) => j = i
    BY <1>3, <2>1, SoleHolder
  <2> QED BY <1>1, <1>3, <2>2 DEF IInv, DataInv, Accounted
<1> QED BY <1>2, <1>3

\* Type correctness: the counters stay within the table, the buffer, the idle
\* limit and what clients send.
THEOREM TypeCorrect == Spec => []TypeOK
<1>1. IInv => TypeOK
  BY DEF IInv
<1> QED BY <1>1, Invariant, PTL

\* Table and epoll set agree in every state: eventadd, eventdel and close keep
\* status, descriptor and event of every entry in step with the kernel's set.
THEOREM TableCorrect == Spec => []TableAgrees
BY InvTable, Invariant, PTL

\* No event of a batch is stale when its callback is chosen, whatever was
\* closed, accepted or registered since epoll_wait returned it.
THEOREM EventsCurrent == Spec => []NoStaleEvent
<1>1. IInv => NoStaleEvent
  BY DEF IInv
<1> QED BY <1>1, Invariant, PTL

\* Data is echoed to the client it came from, although entries and their
\* buffers pass from one connection to the next.
THEOREM EchoCorrect == Spec => []EchoToSender
<1>1. IInv => EchoToSender
  BY DEF IInv, DataInv
<1> QED BY <1>1, Invariant, PTL

\* No unit is lost or echoed twice while its connection is open.
THEOREM EchoKept == Spec => []EchoComplete
BY InvEcho, Invariant, PTL

=============================================================================
