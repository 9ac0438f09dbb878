---------------------------- MODULE ServerProofs ----------------------------
(***************************************************************************)
(* Proofs about the other echo servers, those with a table of clients and  *)
(* that of datagrams: the table has the open connections and no others,    *)
(* and every client of any server gets back what it sent.                  *)
(***************************************************************************)
EXTENDS ForkServerProofs

-----------------------------------------------------------------------------
(* Least and greatest numbers *)

\* A set of numbers has a least one, which Min returns. Of the sets 0..x, which
\* are well-founded by inclusion, one is smallest.
LEMMA Least ==
  ASSUME NEW A \in SUBSET Nat, A # {}
  PROVE  T!Min(A) \in A /\ \A x \in A : T!Min(A) <= x
<1> DEFINE U == {0..x : x \in A}
<1>1. U \subseteq FiniteSubsetsOf(Nat) /\ U # {}
  <2>1. ASSUME NEW x \in A PROVE IsFiniteSet(0..x) /\ 0..x \in SUBSET Nat
    <3>1. 0 \in Int /\ x \in Int
      OBVIOUS
    <3> QED BY <3>1, FS_Interval
  <2> QED BY <2>1 DEF FiniteSubsetsOf
<1>2. PICK E \in U : \A G \in U : ~ (<<G, E>> \in StrictSubsetOrdering(Nat))
  BY <1>1, FS_StrictSubsetOrderingWellFounded, WFMin
<1>3. PICK x \in A : E = 0..x
  OBVIOUS
<1>4. ASSUME NEW y \in A, y < x PROVE FALSE
  <2>1. 0..y \in U /\ 0..y \subseteq E /\ 0..y # E
    BY <1>3, <1>4
  <2>2. <<0..y, E>> \in StrictSubsetOrdering(Nat)
    BY <2>1 DEF StrictSubsetOrdering
  <2> QED BY <1>2, <2>1, <2>2
<1>5. \A y \in A : x <= y
  BY <1>4
<1> QED BY <1>5 DEF T!Min

\* A set of integers below a bound has a greatest one, which Max returns.
LEMMA Greatest ==
  ASSUME NEW A \in SUBSET Int, A # {}, NEW n \in Int, \A x \in A : x <= n
  PROVE  T!Max(A) \in A /\ \A x \in A : x <= T!Max(A)
<1> DEFINE E == {n - x : x \in A}
<1>1. E \in SUBSET Nat /\ E # {}
  <2>1. \A x \in A : x \in Int /\ n - x \in Nat
    OBVIOUS
  <2> QED BY <2>1
<1>2. T!Min(E) \in E /\ \A y \in E : T!Min(E) <= y
  BY <1>1, Least
<1>3. PICK x \in A : T!Min(E) = n - x
  BY <1>2
<1>4. \A y \in A : n - y \in E /\ n - x <= n - y
  BY <1>2, <1>3
<1>5. \A y \in A : x >= y
  BY <1>4
<1>6. T!Max(A) \in A /\ \A y \in A : T!Max(A) >= y
  BY <1>5 DEF T!Max
<1>7. T!Max(A) \in Int /\ \A y \in A : y \in Int
  BY <1>6
<1> QED BY <1>6, <1>7

\* A finite set of numbers has a bound: the smallest of its subsets without
\* one would have one with an element less.
LEMMA FiniteBound ==
  ASSUME NEW A \in SUBSET Nat, IsFiniteSet(A)
  PROVE  \E n \in Nat : \A x \in A : x <= n
<1> DEFINE Bounded(E) == \E n \in Nat : \A x \in E : x <= n
           U == {E \in SUBSET A : ~Bounded(E)}
<1> SUFFICES ASSUME A \in U PROVE FALSE
  OBVIOUS
<1>1. U \subseteq FiniteSubsetsOf(Nat)
  BY FS_Subset DEF FiniteSubsetsOf
<1>2. PICK E \in U : \A G \in U : ~ (<<G, E>> \in StrictSubsetOrdering(Nat))
  BY <1>1, FS_StrictSubsetOrderingWellFounded, WFMin
<1>3. PICK x : x \in E
  <2>1. E # {}
    BY <1>2
  <2> QED BY <2>1
<1>4. <<E \ {x}, E>> \in StrictSubsetOrdering(Nat)
  BY <1>3 DEF StrictSubsetOrdering
<1>5. PICK n \in Nat : \A y \in E \ {x} : y <= n
  BY <1>2, <1>4
<1>6. x \in Nat
  BY <1>3
<1>7. \A y \in E : y <= n + x
  <2>1. \A y \in Nat : y <= n => y <= n + x
    BY <1>6
  <2>2. x <= n + x
    BY <1>6
  <2> QED BY <1>5, <2>1, <2>2
<1>8. n + x \in Nat
  BY <1>6
<1> QED BY <1>2, <1>7, <1>8

-----------------------------------------------------------------------------
(* A table of descriptors *)

\* The entries from lo to hi are those of A, one for each, or empty.
Covers(tab, lo, hi, A) ==
  /\ \A k \in lo..hi : tab[k] # -1 => tab[k] \in A
  /\ \A k, j \in lo..hi : tab[k] = tab[j] /\ tab[k] # -1 => k = j
  /\ \A f \in A : \E k \in lo..hi : tab[k] = f

\* A new descriptor takes an empty entry, or the next.
LEMMA CoversAdd ==
  ASSUME NEW tab, NEW tab2, NEW lo \in Int, NEW hi \in Int, NEW hi2 \in Int,
         NEW A, NEW p \in lo..hi2, NEW fd,
         Covers(tab, lo, hi, A), fd \notin A, fd # -1, -1 \notin A,
         \/ hi2 = hi /\ tab[p] = -1
         \/ hi2 = hi + 1 /\ p = hi2,
         \A k \in lo..hi2 : tab2[k] = IF k = p THEN fd ELSE tab[k]
  PROVE  Covers(tab2, lo, hi2, A \union {fd})
<1>1. \A k \in lo..hi2 : k # p => k \in lo..hi
  OBVIOUS
<1>2. \A k \in lo..hi2 : k # p => tab2[k] = tab[k] /\ tab2[k] # fd
  BY <1>1 DEF Covers
<1>3. tab2[p] = fd
  OBVIOUS
<1>4. \A k \in lo..hi2 : tab2[k] # -1 => tab2[k] \in A \union {fd}
  BY <1>1, <1>2, <1>3 DEF Covers
<1>5. \A k, j \in lo..hi2 : tab2[k] = tab2[j] /\ tab2[k] # -1 => k = j
  BY <1>1, <1>2, <1>3 DEF Covers
<1>6. ASSUME NEW f \in A PROVE \E k \in lo..hi2 : tab2[k] = f
  <2>1. PICK k \in lo..hi : tab[k] = f
    BY DEF Covers
  <2>2. k \in lo..hi2 /\ k # p
    BY <2>1
  <2> QED BY <1>2, <2>1, <2>2
<1>7. p \in lo..hi2
  OBVIOUS
<1> QED BY <1>3, <1>4, <1>5, <1>6, <1>7 DEF Covers

\* An entry is emptied, and the end goes down no further than the last in use.
LEMMA CoversClear ==
  ASSUME NEW tab, NEW tab2, NEW lo \in Int, NEW hi \in Int, NEW hi2 \in Int,
         NEW A, NEW p \in lo..hi,
         Covers(tab, lo, hi, A), tab[p] # -1, -1 \notin A,
         hi2 <= hi,
         \A k \in lo..hi : tab2[k] = IF k = p THEN -1 ELSE tab[k],
         \A k \in lo..hi : k > hi2 => tab2[k] = -1
  PROVE  Covers(tab2, lo, hi2, A \ {tab[p]})
<1>1. \A k \in lo..hi2 : k \in lo..hi
  OBVIOUS
<1>2. \A k \in lo..hi2 : tab2[k] # -1 => tab2[k] \in A \ {tab[p]}
  BY <1>1 DEF Covers
<1>3. \A k, j \in lo..hi2 : tab2[k] = tab2[j] /\ tab2[k] # -1 => k = j
  BY <1>1 DEF Covers
<1>4. ASSUME NEW f \in A \ {tab[p]} PROVE \E k \in lo..hi2 : tab2[k] = f
  <2>1. PICK k \in lo..hi : tab[k] = f
    BY DEF Covers
  <2>2. k # p /\ tab2[k] = f /\ tab2[k] # -1
    BY <2>1
  <2>3. k \in lo..hi2
    BY <2>1, <2>2
  <2> QED BY <2>2, <2>3
<1> QED BY <1>2, <1>3, <1>4 DEF Covers

\* An entry is taken out and those behind it move up.
LEMMA CoversCompact ==
  ASSUME NEW tab, NEW tab2, NEW lo \in Int, NEW hi \in Int,
         NEW A, NEW p \in lo..hi,
         Covers(tab, lo, hi, A), \A k \in lo..hi : tab[k] # -1,
         \A k \in lo..hi - 1 : tab2[k] = IF k < p THEN tab[k] ELSE tab[k + 1]
  PROVE  Covers(tab2, lo, hi - 1, A \ {tab[p]})
<1> DEFINE From(k) == IF k < p THEN k ELSE k + 1
<1>1. \A k \in lo..hi - 1 : /\ From(k) \in lo..hi /\ From(k) # p
                            /\ tab2[k] = tab[From(k)]
  OBVIOUS
<1>2. \A k, j \in lo..hi - 1 : From(k) = From(j) => k = j
  OBVIOUS
<1>3. ASSUME NEW j \in lo..hi, j # p
      PROVE  \E k \in lo..hi - 1 : From(k) = j
  <2>1. CASE j < p
    <3>1. j \in lo..hi - 1 /\ From(j) = j
      BY <2>1
    <3> QED BY <3>1
  <2>2. CASE j > p
    <3>1. j - 1 \in lo..hi - 1 /\ From(j - 1) = j
      BY <2>2
    <3> QED BY <3>1
  <2> QED BY <1>3, <2>1, <2>2
<1> HIDE DEF From
<1>4. \A k \in lo..hi - 1 : tab2[k] # -1 => tab2[k] \in A \ {tab[p]}
  BY <1>1 DEF Covers
<1>5. \A k, j \in lo..hi - 1 : tab2[k] = tab2[j] /\ tab2[k] # -1 => k = j
  BY <1>1, <1>2 DEF Covers
<1>6. ASSUME NEW f \in A \ {tab[p]} PROVE \E k \in lo..hi - 1 : tab2[k] = f
  <2>1. PICK j \in lo..hi : tab[j] = f
    BY DEF Covers
  <2>2. PICK k \in lo..hi - 1 : From(k) = j
    BY <1>3, <2>1
  <2> QED BY <1>1, <2>1, <2>2
<1> QED BY <1>4, <1>5, <1>6 DEF Covers

-----------------------------------------------------------------------------
(* The servers with a table of clients *)

TableRun == T!Next \/ UNCHANGED tableVars

\* A step of the composition is a step of TableServers or leaves its variables
\* alone.
LEMMA TableSteps == ASSUME [Next]_vars PROVE TableRun
BY DEF TableRun, Next, vars, InTableServers, InForkServers, InProducers,
  InLocks, InChildren, InStreams, InStreamWrap, InLibevent, InDatagrams,
  InListing, InBufferevents

Opened == {f \in T!Descriptors : file[f] # NoClient}
Tabled == tableProg \in {"server", "myserver", "myserver1", "poll"}
Sparse == tableProg \in {"server", "myserver", "poll"}

TableTyped ==
  /\ tableProg \in {"primary", "server", "myserver", "myserver1", "poll",
                    "epoll"}
  /\ T!Descriptors \subseteq Nat /\ IsFiniteSet(T!Descriptors)
  /\ limit \in Nat /\ \A f \in 0..limit - 1 : f \in T!Descriptors
  /\ tableConn \in [Clients -> {"new", "queued", "open", "closed"}]
  /\ file \in [T!Descriptors -> Clients \union {NoClient}]
  /\ 0 \in T!Descriptors /\ file[0] = NoClient
  /\ client \in [T!Places -> T!Descriptors \union {-1}]
  /\ maxi \in Int /\ tableNum \in Nat /\ maxfd \in Nat

\* Every open connection has one descriptor.
FilesOwn ==
  /\ \A f \in Opened : tableConn[file[f]] = "open"
  /\ \A f, g \in Opened : file[f] = file[g] => f = g

\* The descriptors watched are the open ones and the listening one, and select
\* looks at all of them.
WatchesOpen ==
  /\ tableProg # "poll" => watch = Opened \union {0}
  /\ tableProg \in T!Selects => \A f \in Opened : f <= maxfd /\ f < SetSize

\* The part of the table that is scanned has an entry for each open descriptor
\* and none for another; only that of myserver1 has no empty ones.
EntriesHold ==
  /\ Tabled => /\ T!First - 1 <= T!Last /\ T!Last < TableSize
               /\ Covers(client, T!First, T!Last, Opened)
  /\ Sparse => \A k \in T!Places : k > maxi => client[k] = -1
  /\ tableProg = "myserver1" => \A k \in 0..tableNum - 1 : client[k] # -1
  /\ tableProg = "poll" => client[0] = 0

NumHolds ==
  tableProg \in {"myserver", "myserver1"} => tableNum = Cardinality(Opened)

TableShape == FilesOwn /\ WatchesOpen /\ EntriesHold /\ NumHolds

\* The scan stands at an open connection, and what primary and epoll have yet
\* to look at are open ones.
Serving == tablePc \in {"read", "write"}
ScanHolds ==
  /\ ready \subseteq T!Descriptors /\ tableI \in Nat
  /\ tablePc = "batch" => tableProg = "epoll"
  /\ Serving => T!FdAt(tableI) \in Opened
  /\ Serving /\ Tabled => tableI \in T!First..T!Last
  /\ tableProg = "primary" =>
       /\ tablePc = "accept" => ready \subseteq Opened \union {0}
       /\ Serving => \A f \in ready : f > tableI => f \in Opened
  /\ tableProg = "epoll" =>
       /\ tablePc \in {"accept", "batch"} => ready \subseteq Opened \union {0}
       /\ Serving => ready \subseteq Opened \union {0} /\ tableI \notin ready

TableInv == TableTyped /\ TableShape /\ ScanHolds

\* What the constants of TableServers are.
LEMMA TableGiven ==
  /\ TableSize \in Nat /\ SetSize \in Nat /\ SetSize <= TableSize
  /\ TableSize > 1 /\ SetSize > 1
  /\ NoClient \notin Clients
  /\ T!Places = 0..TableSize
BY ProgramsAssumption DEF T!TableAssumption, T!SocketAssumption, T!Places

\* The descriptors are numbered up to the greatest limit.
LEMMA TableLimits ==
  ASSUME NEW p \in TablePrograms, NEW n \in Limits[p]
  PROVE  /\ T!Descriptors \subseteq Nat /\ IsFiniteSet(T!Descriptors)
         /\ n \in Nat /\ n > 1 /\ 0 \in T!Descriptors
         /\ \A f \in 0..n - 1 : f \in T!Descriptors
<1> DEFINE A == UNION T!Range(Limits)
<1>1. /\ Limits \in [TablePrograms -> SUBSET (Nat \ {0, 1})]
      /\ T!IsFiniteSet(A)
  BY ProgramsAssumption DEF T!TableAssumption
<1>2. A \subseteq Nat \ {0, 1} /\ n \in A
  BY <1>1 DEF T!Range
<1>3. IsFiniteSet(A)
  BY <1>1 DEF T!IsFiniteSet, IsFiniteSet
<1>4. PICK b \in Nat : \A x \in A : x <= b
  BY <1>2, <1>3, FiniteBound
<1>5. T!Max(A) \in A /\ \A x \in A : x <= T!Max(A)
  <2>1. A \in SUBSET Int /\ A # {} /\ b \in Int
    BY <1>2
  <2> HIDE DEF A
  <2> QED BY <1>4, <2>1, Greatest
<1>6. PICK m : m = T!Max(A)
  OBVIOUS
<1>7. m \in Nat /\ m > 1 /\ n \in Nat /\ n > 1 /\ n <= m
  <2>1. m \in A /\ n <= m
    BY <1>2, <1>5, <1>6
  <2>2. \A x \in A : x \in Nat /\ x > 1
    BY <1>2
  <2> HIDE DEF A
  <2> QED BY <1>2, <2>1, <2>2
<1>8. T!Descriptors = 0..m - 1
  BY <1>6 DEF T!Descriptors
<1>9. IsFiniteSet(0..m - 1)
  <2>1. 0 \in Int /\ m - 1 \in Int
    BY <1>7
  <2> QED BY <2>1, FS_Interval
<1> QED BY <1>7, <1>8, <1>9

\* No client is connected.
LEMMA TableInit == ASSUME Init PROVE TableInv
<1>1. /\ tableProg \in TablePrograms /\ limit \in Limits[tableProg]
      /\ tableConn = [c \in Clients |-> "new"]
      /\ tablePc = "wait" /\ ready = {} /\ tableI = 0
      /\ file = [f \in T!Descriptors |-> NoClient] /\ watch = {0}
      /\ client = [k \in T!Places |-> IF tableProg = "poll" /\ k = 0 THEN 0
                                                                     ELSE -1]
      /\ maxi = (IF tableProg = "poll" THEN 0 ELSE -1)
      /\ tableNum = 0 /\ maxfd = 0
  BY DEF Init, T!Init, T!SocketInit, T!Listener, T!NoFd
<1>2. TablePrograms \subseteq {"primary", "server", "myserver", "myserver1",
                               "poll", "epoll"}
  BY ProgramsAssumption DEF T!TableAssumption, T!Selects
<1>3. /\ T!Descriptors \subseteq Nat /\ IsFiniteSet(T!Descriptors)
      /\ limit \in Nat /\ 0 \in T!Descriptors
      /\ \A f \in 0..limit - 1 : f \in T!Descriptors
  BY <1>1, TableLimits
<1>4. TableTyped
  BY <1>1, <1>2, <1>3, TableGiven DEF TableTyped
<1>5. Opened = {} /\ Cardinality({}) = 0
  BY <1>1, FS_EmptySet DEF Opened
<1>6. FilesOwn /\ WatchesOpen /\ NumHolds
  BY <1>1, <1>5 DEF FilesOwn, WatchesOpen, NumHolds
<1>7. Tabled => T!First = T!Last + 1
  BY <1>1 DEF Tabled, T!First, T!Last
<1>8. T!First \in {0, 1} /\ (Tabled => T!Last \in {-1, 0})
  BY <1>1 DEF Tabled, T!First, T!Last
<1>9. Tabled => Covers(client, T!First, T!Last, Opened)
  BY <1>5, <1>7, <1>8 DEF Covers
<1>10. EntriesHold
  BY <1>1, <1>7, <1>8, <1>9, TableGiven DEF EntriesHold, Sparse
<1>11. ScanHolds
  BY <1>1, <1>5 DEF ScanHolds, Serving
<1> QED BY <1>4, <1>6, <1>10, <1>11 DEF TableInv, TableShape

\* The part of the table that is scanned lies in it.
LEMMA TableEnds ==
  ASSUME TableTyped
  PROVE  /\ T!First \in {0, 1} /\ T!Last \in Int
         /\ EntriesHold /\ Tabled => \A k \in T!First..T!Last : k \in T!Places
<1>1. T!First \in {0, 1} /\ T!Last \in Int
  BY DEF TableTyped, T!First, T!Last
<1> QED BY <1>1, TableGiven DEF EntriesHold

\* An open descriptor is not the listening one.
LEMMA OpenedFacts ==
  ASSUME TableTyped
  PROVE  /\ IsFiniteSet(Opened) /\ Opened \subseteq Nat /\ 0 \notin Opened
         /\ -1 \notin Opened
         /\ \A f \in Opened : file[f] \in Clients
<1>1. Opened \subseteq T!Descriptors
  BY DEF Opened
<1>2. IsFiniteSet(Opened)
  BY <1>1, FS_Subset DEF TableTyped
<1>3. \A f \in Opened : file[f] \in Clients
  BY DEF TableTyped, Opened
<1>4. Opened \subseteq Nat /\ 0 \notin Opened
  BY <1>1 DEF TableTyped, Opened
<1> QED BY <1>2, <1>3, <1>4

\* The step goes to the first descriptor of ready from place k on.
LEMMA ScanTo ==
  ASSUME NEW k \in Nat, T!ScanOn(k)
  PROVE  \/ tablePc' = "wait" /\ tableI' = 0
         \/ /\ tablePc' = "read" /\ tableI' \in k..T!Last'
            /\ T!FdAt(tableI)' \in ready'
<1> DEFINE A == T!Hits(k)
<1>1. CASE A = {}
  BY <1>1 DEF T!ScanOn
<1>2. CASE A # {}
  <2>1. A \in SUBSET Nat
    BY DEF T!Hits
  <2>2. T!Min(A) \in A
    BY <1>2, <2>1, Least
  <2>3. PICK j : j = T!Min(A)
    OBVIOUS
  <2>4. j \in k..T!Last' /\ T!FdAt(j)' \in ready'
    BY <2>2, <2>3 DEF T!Hits
  <2>5. \/ tablePc' = "wait" /\ tableI' = 0
        \/ tablePc' = "read" /\ tableI' = j
    BY <2>3 DEF T!ScanOn
  <2>6. tableI' = j => T!FdAt(tableI)' = T!FdAt(j)'
    BY DEF T!FdAt
  <2> QED BY <2>4, <2>5, <2>6
<1> QED BY <1>1, <1>2

\* What it finds is an open connection.
LEMMA ScanFinds ==
  ASSUME TableTyped', EntriesHold', tableProg' # "epoll",
         NEW k \in Nat, T!First' <= k, T!ScanOn(k),
         ready' \subseteq T!Descriptors,
         tableProg' = "primary" => \A f \in ready' : f >= k => f \in Opened'
  PROVE  ScanHolds'
<1>1. PICK p : p = T!Last'
  OBVIOUS
<1>2. PICK l : l = T!First'
  OBVIOUS
<1>3. l \in {0, 1} /\ p \in Int
  BY <1>1, <1>2 DEF TableTyped, T!First, T!Last
<1>4. CASE tablePc' = "wait" /\ tableI' = 0
  BY <1>4 DEF ScanHolds, Serving
<1>5. CASE /\ tablePc' = "read" /\ tableI' \in k..T!Last'
           /\ T!FdAt(tableI)' \in ready'
  <2>1. tableI' \in k..p /\ tableI' \in Nat /\ tableI' \in l..p
    BY <1>1, <1>2, <1>3, <1>5
  <2>2. CASE tableProg' = "primary"
    <3>1. T!FdAt(tableI)' = tableI'
      BY <2>2 DEF T!FdAt
    <3>2. tableI' \in ready' /\ tableI' >= k
      BY <1>5, <2>1, <3>1
    <3>3. \A f \in ready' : f > tableI' => f >= k
      BY <2>1 DEF TableTyped
    <3> QED BY <1>5, <2>1, <2>2, <3>1, <3>2, <3>3
            DEF ScanHolds, Serving, Tabled
  <2>3. CASE tableProg' # "primary"
    <3>1. Tabled'
      BY <2>3 DEF TableTyped, Tabled
    <3>2. T!FdAt(tableI)' = client'[tableI']
      BY <2>3 DEF T!FdAt
    <3>3. client'[tableI'] # -1
      BY <1>5, <3>2 DEF TableTyped
    <3>4. Covers(client', l, p, Opened')
      BY <1>1, <1>2, <3>1 DEF EntriesHold
    <3>5. T!FdAt(tableI)' \in Opened'
      BY <2>1, <3>2, <3>3, <3>4 DEF Covers
    <3> QED BY <1>1, <1>2, <1>5, <2>1, <2>3, <3>5 DEF ScanHolds, Serving
  <2> QED BY <2>2, <2>3
<1> QED BY <1>4, <1>5, ScanTo

\* A table nothing is done to keeps its shape.
LEMMA ShapeKept ==
  ASSUME TableTyped, TableShape, T!tableVars' = T!tableVars,
         UNCHANGED <<tableProg, limit>>,
         tableConn' \in [Clients -> {"new", "queued", "open", "closed"}],
         \A c \in Clients : tableConn[c] = "open" => tableConn'[c] = "open"
  PROVE  TableTyped' /\ TableShape'
<1>1. UNCHANGED <<file, watch, client, maxi, tableNum, maxfd>>
  BY DEF T!tableVars
<1>2. TableTyped'
  BY <1>1 DEF TableTyped
<1>3. Opened' = Opened
  BY <1>1 DEF Opened
<1>4. FilesOwn'
  BY <1>1, <1>3, OpenedFacts DEF TableShape, FilesOwn
<1>5. WatchesOpen' /\ NumHolds'
  BY <1>1, <1>3 DEF TableShape, WatchesOpen, NumHolds
<1>6. T!First' = T!First /\ T!Last' = T!Last
  BY <1>1 DEF T!First, T!Last
<1>7. EntriesHold'
  BY <1>1, <1>3, <1>6 DEF TableShape, EntriesHold, Tabled, Sparse
<1> QED BY <1>2, <1>4, <1>5, <1>7 DEF TableShape

\* The greater of two.
LEMMA GreaterOf ==
  ASSUME NEW a \in Int, NEW b \in Int
  PROVE  T!Max({a, b}) = IF a <= b THEN b ELSE a
<1> DEFINE m == IF a <= b THEN b ELSE a
<1>1. {a, b} \in SUBSET Int /\ {a, b} # {}
  OBVIOUS
<1>2. m \in Int /\ \A x \in {a, b} : x <= m
  OBVIOUS
<1>3. T!Max({a, b}) \in {a, b} /\ \A x \in {a, b} : x <= T!Max({a, b})
  BY <1>1, <1>2, Greatest
<1> QED BY <1>3

\* A place for a new client: an empty one, or that after the last in use.
LEMMA PlaceFree ==
  ASSUME TableTyped, EntriesHold, Sparse, T!FreePlaces # {}
  PROVE  LET p == T!Min(T!FreePlaces) IN
         /\ p \in Nat /\ T!First <= p /\ p < TableSize /\ client[p] = -1
         /\ p <= maxi + 1
<1> DEFINE p == T!Min(T!FreePlaces)
<1>1. T!First \in {0, 1} /\ T!Last = maxi /\ Tabled
  BY DEF Sparse, Tabled, T!First, T!Last
<1>2. T!FreePlaces \in SUBSET Nat
  BY <1>1 DEF T!FreePlaces
<1>3. p \in T!FreePlaces /\ \A x \in T!FreePlaces : p <= x
  BY <1>2, Least
<1>4. p \in Nat /\ T!First <= p /\ p < TableSize /\ client[p] = -1
  <2>1. p \in T!First..TableSize - 1 /\ client[p] = -1
    BY <1>3 DEF T!FreePlaces, T!NoFd
  <2> HIDE DEF p
  <2> QED BY <1>1, <2>1, TableGiven
<1>5. ASSUME p > maxi + 1 PROVE FALSE
  <2> HIDE DEF p
  <2>1. maxi + 1 \in T!First..TableSize - 1
    BY <1>1, <1>4, <1>5, TableGiven DEF EntriesHold, TableTyped
  <2>2. maxi + 1 \in T!Places /\ maxi + 1 > maxi
    BY <1>1, <2>1, TableGiven DEF TableTyped
  <2>3. client[maxi + 1] = -1
    BY <2>2 DEF EntriesHold
  <2>4. maxi + 1 \in T!FreePlaces
    BY <2>1, <2>3 DEF T!FreePlaces, T!NoFd
  <2> QED BY <1>3, <1>4, <1>5, <2>4 DEF TableTyped
<1> HIDE DEF p
<1>6. p <= maxi + 1
  BY <1>4, <1>5 DEF TableTyped
<1> QED BY <1>4, <1>6 DEF p

\* The client has the least descriptor that is free.
LEMMA FreeDescriptor ==
  ASSUME TableTyped, T!FreeFds # {}
  PROVE  LET fd == T!Min(T!FreeFds) IN
         fd \in T!Descriptors /\ fd \in Nat /\ fd > 0 /\ file[fd] = NoClient
<1>1. T!FreeFds \in SUBSET Nat
  BY DEF T!FreeFds
<1>2. T!Min(T!FreeFds) \in T!FreeFds
  BY <1>1, Least
<1> QED BY <1>2 DEF T!FreeFds, TableTyped

\* The entry of a new client.
LEMMA EntryAdded ==
  ASSUME TableTyped, EntriesHold, T!Table, NEW fd \in T!Descriptors,
         fd \notin Opened, T!AddEntry(fd), tableProg' = tableProg,
         Opened' = Opened \union {fd}
  PROVE  /\ client' \in [T!Places -> T!Descriptors \union {-1}]
         /\ maxi' \in Int /\ tableNum' \in Nat
         /\ EntriesHold'
         /\ tableProg \in {"myserver", "myserver1"} =>
              tableNum' = tableNum + 1
<1>0. /\ fd \in Nat /\ fd # -1 /\ -1 \notin Opened
      /\ client \in [T!Places -> T!Descriptors \union {-1}]
  BY OpenedFacts DEF TableTyped
<1>1. CASE Sparse
  <2>1. PICK p : p = T!Min(T!FreePlaces)
    OBVIOUS
  <2>2. T!FreePlaces # {}
    BY <1>1 DEF T!Table, Sparse
  <2>3. /\ p \in Nat /\ T!First <= p /\ p < TableSize /\ client[p] = -1
        /\ p <= maxi + 1
    BY <1>1, <2>1, <2>2, PlaceFree
  <2>4. /\ client' = [client EXCEPT ![p] = fd]
        /\ maxi' = T!Max({maxi, p})
        /\ tableNum' = IF tableProg = "myserver" THEN tableNum + 1
                                                 ELSE tableNum
    BY <1>1, <2>1 DEF T!AddEntry, Sparse, T!Highest
  <2>5. maxi' = IF maxi <= p THEN p ELSE maxi
    BY <2>3, <2>4, GreaterOf DEF TableTyped
  <2>6. /\ T!First \in {0, 1} /\ T!First' = T!First /\ Tabled /\ Tabled'
        /\ T!Last = maxi /\ T!Last' = maxi' /\ maxi' \in Int /\ maxi \in Int
    BY <1>1, <2>3, <2>5 DEF Sparse, Tabled, T!First, T!Last, TableTyped
  <2>7. p \in T!Places /\ \A k \in T!Places : k # p => client'[k] = client[k]
    BY <1>0, <2>3, <2>4, TableGiven
  <2>8. client'[p] = fd
    BY <1>0, <2>4, <2>7
  <2>9. /\ T!First - 1 <= maxi /\ maxi < TableSize
        /\ Covers(client, T!First, maxi, Opened)
    BY <2>6 DEF EntriesHold
  <2>10. T!First - 1 <= maxi' /\ maxi' < TableSize /\ p <= maxi'
    BY <2>3, <2>5, <2>6, <2>9, TableGiven
  <2>11. Covers(client', T!First, maxi', Opened \union {fd})
    <3>1. \A k \in T!First..maxi' : k \in T!Places
      BY <2>6, <2>10, TableGiven
    <3>2. \A k \in T!First..maxi' :
            client'[k] = IF k = p THEN fd ELSE client[k]
      BY <2>7, <2>8, <3>1
    <3>3. \/ maxi' = maxi /\ client[p] = -1
          \/ maxi' = maxi + 1 /\ p = maxi'
      BY <2>3, <2>5, <2>6
    <3>4. p \in T!First..maxi'
      BY <2>3, <2>6, <2>10
    <3>5. /\ T!First \in Int /\ maxi \in Int /\ maxi' \in Int
          /\ Covers(client, T!First, maxi, Opened)
          /\ fd \notin Opened /\ fd # -1 /\ -1 \notin Opened
      BY <1>0, <2>6, <2>9
    <3>6. PICK l, m, n \in Int : l = T!First /\ m = maxi /\ n = maxi'
      BY <3>5
    <3>7. /\ p \in l..n /\ Covers(client, l, m, Opened)
          /\ (n = m /\ client[p] = -1) \/ (n = m + 1 /\ p = n)
          /\ \A k \in l..n : client'[k] = IF k = p THEN fd ELSE client[k]
      BY <3>2, <3>3, <3>4, <3>5, <3>6
    <3>8. Covers(client', l, n, Opened \union {fd})
      <4>1. CASE n = m /\ client[p] = -1
        BY ONLY <3>5, <3>7, <4>1, CoversAdd
      <4>2. CASE n = m + 1 /\ p = n
        BY ONLY <3>5, <3>7, <4>2, CoversAdd
      <4> QED BY <3>7, <4>1, <4>2
    <3> QED BY <3>6, <3>8
  <2>12. \A k \in T!Places : k > maxi' => client'[k] = -1
    <3>1. ASSUME NEW k \in T!Places, k > maxi' PROVE k # p /\ k > maxi
      BY <2>3, <2>5, <2>6, <3>1, TableGiven
    <3> QED BY <2>7, <3>1, <1>1 DEF EntriesHold
  <2>13. tableProg = "poll" => client'[0] = 0
    <3>1. tableProg = "poll" => p # 0 /\ 0 \in T!Places
      BY <2>3, TableGiven DEF T!First
    <3> QED BY <2>7, <3>1 DEF EntriesHold
  <2>14. EntriesHold'
    BY <1>1, <2>6, <2>9, <2>10, <2>11, <2>12, <2>13 DEF EntriesHold, Sparse
  <2>15. client' \in [T!Places -> T!Descriptors \union {-1}]
    BY <1>0, <2>4
  <2>16. /\ tableNum' \in Nat
         /\ tableProg \in {"myserver", "myserver1"} => tableNum' = tableNum + 1
    BY <1>1, <2>4 DEF Sparse, TableTyped
  <2> QED BY <2>6, <2>14, <2>15, <2>16
<1>2. CASE tableProg = "myserver1"
  <2>1. /\ tableNum < TableSize /\ tableNum \in Nat /\ tableNum \in T!Places
        /\ client' = [client EXCEPT ![tableNum] = fd]
        /\ tableNum' = tableNum + 1 /\ maxi' = maxi
    BY <1>2, TableGiven DEF T!Table, T!AddEntry, TableTyped
  <2>2. /\ T!First = 0 /\ T!First' = 0 /\ Tabled /\ Tabled'
        /\ T!Last = tableNum - 1 /\ T!Last' = tableNum
    BY <1>2, <2>1 DEF Tabled, T!First, T!Last
  <2>3. \A k \in 0..tableNum :
          client'[k] = IF k = tableNum THEN fd ELSE client[k]
    <3>1. \A k \in 0..tableNum : k \in T!Places
      BY <2>1, TableGiven
    <3> QED BY <1>0, <2>1, <3>1
  <2>4. Covers(client', 0, tableNum, Opened \union {fd})
    <3>1. Covers(client, 0, tableNum - 1, Opened)
      BY <2>2 DEF EntriesHold
    <3>2. /\ 0 \in Int /\ tableNum - 1 \in Int /\ tableNum \in Int
          /\ tableNum = tableNum - 1 + 1 /\ tableNum \in 0..tableNum
      BY <2>1
    <3>3. fd \notin Opened /\ fd # -1 /\ -1 \notin Opened
      BY <1>0
    <3> QED BY ONLY <2>3, <3>1, <3>2, <3>3, CoversAdd
  <2>5. \A k \in 0..tableNum' - 1 : client'[k] # -1
    <3>1. ASSUME NEW k \in 0..tableNum' - 1 PROVE client'[k] # -1
      <4>1. k \in 0..tableNum /\ (k # tableNum => k \in 0..tableNum - 1)
        BY <2>1
      <4> QED BY <1>0, <1>2, <2>3, <4>1 DEF EntriesHold
    <3> QED BY <3>1
  <2>6. EntriesHold'
    BY <1>2, <2>1, <2>2, <2>4, <2>5 DEF EntriesHold, Sparse
  <2> QED BY <1>0, <1>2, <2>1, <2>6 DEF TableTyped
<1>3. CASE tableProg \in {"primary", "epoll"}
  <2>1. UNCHANGED <<client, maxi, tableNum>>
    BY <1>3 DEF T!AddEntry
  <2> QED BY <1>3, <2>1 DEF EntriesHold, Tabled, Sparse, TableTyped
<1> QED BY <1>1, <1>2, <1>3 DEF TableTyped, Sparse

\* A client is accepted.
LEMMA ShapeAdded ==
  ASSUME TableTyped, TableShape, NEW c \in Clients, T!Accept(c)
  PROVE  /\ TableTyped' /\ TableShape' /\ Opened \subseteq Opened'
         /\ T!Min(T!FreeFds) \in T!Descriptors
<1>1. PICK fd : fd = T!Min(T!FreeFds)
  OBVIOUS
<1>2. /\ tableConn[c] = "queued" /\ T!Table
      /\ tableProg \in T!Selects => fd < SetSize
      /\ tableConn' = [tableConn EXCEPT ![c] = "open"]
      /\ file' = [file EXCEPT ![fd] = c]
      /\ watch' = IF tableProg = "poll" THEN watch ELSE watch \union {fd}
      /\ maxfd' = IF tableProg \in T!Selects THEN T!Max({maxfd, fd}) ELSE maxfd
      /\ T!AddEntry(fd) /\ UNCHANGED <<tableProg, limit>>
  BY <1>1 DEF T!Accept, T!Accepting
<1>3. fd \in T!Descriptors /\ fd \in Nat /\ fd > 0 /\ file[fd] = NoClient
  BY <1>1, FreeDescriptor DEF T!Accept, T!Accepting
<1>4. Opened' = Opened \union {fd} /\ fd \notin Opened
  BY <1>2, <1>3, TableGiven DEF Opened, TableTyped
<1>5. /\ client' \in [T!Places -> T!Descriptors \union {-1}]
      /\ maxi' \in Int /\ tableNum' \in Nat /\ EntriesHold'
      /\ tableProg \in {"myserver", "myserver1"} => tableNum' = tableNum + 1
  BY <1>2, <1>3, <1>4, EntryAdded DEF TableShape
<1>6. maxfd' \in Nat /\ maxfd <= maxfd' /\ maxfd \in Nat
      /\ (tableProg \in T!Selects => fd <= maxfd')
  BY <1>2, <1>3, GreaterOf DEF TableTyped
<1>7. TableTyped'
  BY <1>2, <1>3, <1>5, <1>6 DEF TableTyped
<1>8. /\ \A f \in Opened : file'[f] = file[f] /\ file'[f] # c
      /\ file'[fd] = c /\ tableConn'[c] = "open"
      /\ \A d \in Clients : d # c => tableConn'[d] = tableConn[d]
  <2>1. \A f \in Opened : f \in T!Descriptors /\ f # fd
    BY <1>4 DEF Opened
  <2>2. \A f \in Opened : file[f] # c
    BY <1>2 DEF TableShape, FilesOwn
  <2> QED BY <1>2, <1>3, <2>1, <2>2 DEF TableTyped
<1>9. FilesOwn'
  <2>1. \A f \in Opened' : tableConn'[file'[f]] = "open"
    BY <1>4, <1>8, OpenedFacts DEF TableShape, FilesOwn
  <2>2. \A f, g \in Opened' : file'[f] = file'[g] => f = g
    BY <1>4, <1>8 DEF TableShape, FilesOwn
  <2> QED BY <2>1, <2>2 DEF FilesOwn
<1>10. WatchesOpen'
  <2>1. tableProg # "poll" => watch' = Opened' \union {0}
    BY <1>2, <1>4 DEF TableShape, WatchesOpen
  <2>2. ASSUME tableProg \in T!Selects, NEW f \in Opened'
        PROVE  f <= maxfd' /\ f < SetSize
    <3>1. CASE f = fd
      BY <1>2, <1>6, <2>2, <3>1
    <3>2. CASE f \in Opened
      <4>1. f <= maxfd /\ f < SetSize /\ f \in Nat
        BY <2>2, <3>2, OpenedFacts DEF TableShape, WatchesOpen
      <4> QED BY <1>6, <4>1
    <3> QED BY <1>4, <3>1, <3>2
  <2> QED BY <1>2, <2>1, <2>2 DEF WatchesOpen
<1>11. NumHolds'
  <2>1. Cardinality(Opened') = Cardinality(Opened) + 1
    BY <1>4, OpenedFacts, FS_AddElement
  <2> QED BY <1>2, <1>5, <2>1 DEF TableShape, NumHolds
<1> QED BY <1>1, <1>3, <1>4, <1>5, <1>7, <1>9, <1>10, <1>11 DEF TableShape

\* The entry of a client that is closed.
LEMMA EntryRemoved ==
  ASSUME TableTyped, TableShape, ScanHolds, Serving, Tabled,
         T!CloseClient(client[tableI]), tableProg' = tableProg,
         Opened' = Opened \ {client[tableI]}
  PROVE  /\ client' \in [T!Places -> T!Descriptors \union {-1}]
         /\ maxi' \in Int /\ EntriesHold'
         /\ tableNum' = IF tableProg \in {"myserver", "myserver1"}
                        THEN tableNum - 1 ELSE tableNum
<1> DEFINE k == tableI
           fd == client[k]
<1>0. /\ T!FdAt(k) = fd /\ fd \in Opened /\ k \in T!First..T!Last
      /\ client \in [T!Places -> T!Descriptors \union {-1}] /\ EntriesHold
      /\ T!First \in {0, 1} /\ T!Last \in Int /\ T!First \in Int
      /\ T!Last < TableSize /\ Covers(client, T!First, T!Last, Opened)
      /\ k \in T!Places /\ fd # -1 /\ -1 \notin Opened
  <2>1. T!FdAt(k) = fd
    BY DEF T!FdAt, Tabled
  <2> QED BY <2>1, TableEnds, OpenedFacts
          DEF ScanHolds, TableShape, EntriesHold, TableTyped
<1>1. CASE Sparse
  <2>1. /\ client' = [client EXCEPT ![k] = -1]
        /\ tableNum' = IF tableProg = "myserver" THEN tableNum - 1
                                                 ELSE tableNum
        /\ maxi' = IF tableProg = "myserver" /\ k = maxi THEN T!LastUsed
                                                         ELSE maxi
    BY <1>1 DEF T!CloseClient, T!Emptied, T!NoFd, Sparse
  <2>2. /\ client'[k] = -1
        /\ \A j \in T!Places : j # k => client'[j] = client[j]
        /\ client' \in [T!Places -> T!Descriptors \union {-1}]
    BY <1>0, <2>1
  <2>3. /\ T!First' = T!First /\ Tabled' /\ T!Last = maxi /\ T!Last' = maxi'
        /\ maxi \in Int
    BY <1>1 DEF Sparse, Tabled, T!First, T!Last, TableTyped
  <2>4. /\ maxi' \in Int /\ maxi' <= maxi /\ T!First - 1 <= maxi'
        /\ \A j \in T!First..maxi : j > maxi' => client'[j] = -1
    <3>1. CASE maxi' = maxi
      BY <1>0, <2>3, <3>1
    <3>2. CASE tableProg = "myserver" /\ k = maxi
      <4> DEFINE A == {-1} \union {j \in 0..maxi : client'[j] # -1}
      <4>1. maxi' = T!Max(A) /\ T!First = 0
        BY <2>1, <3>2 DEF T!LastUsed, T!Emptied, T!NoFd, T!First
      <4>2. maxi >= 0
        BY <1>0, <2>3, <3>2, <4>1
      <4>3. A \in SUBSET Int /\ A # {} /\ \A x \in A : x <= maxi
        BY <2>3, <4>2
      <4>4. T!Max(A) \in A /\ \A x \in A : x <= T!Max(A)
        <5> HIDE DEF A
        <5> QED BY <2>3, <4>3, Greatest
      <4>5. maxi' \in A /\ \A x \in A : x <= maxi'
        BY <4>1, <4>4
      <4>6. maxi' \in Int /\ maxi' <= maxi /\ -1 <= maxi'
        BY <4>3, <4>5
      <4>7. ASSUME NEW j \in 0..maxi, j > maxi' PROVE client'[j] = -1
        BY <4>5, <4>6, <4>7
      <4> QED BY <4>1, <4>6, <4>7
    <3> QED BY <2>1, <3>1, <3>2
  <2>5. Covers(client', T!First, maxi', Opened \ {fd})
    <3>1. \A j \in T!First..maxi : client'[j] = IF j = k THEN -1 ELSE client[j]
      BY <2>2, <2>3, <1>0, TableEnds
    <3>2. /\ k \in T!First..maxi /\ client[k] # -1
          /\ Covers(client, T!First, maxi, Opened)
          /\ T!First \in Int /\ -1 \notin Opened
      BY <1>0, <2>3
    <3> QED BY ONLY <2>3, <2>4, <3>1, <3>2, CoversClear
  <2>6. \A j \in T!Places : j > maxi' => client'[j] = -1
    <3>1. ASSUME NEW j \in T!Places, j > maxi' PROVE client'[j] = -1
      <4>1. CASE j <= maxi
        <5>1. j \in T!First..maxi
          BY <1>0, <2>3, <2>4, <3>1, <4>1, TableGiven
        <5> QED BY <2>4, <3>1, <5>1
      <4>2. CASE j > maxi
        BY <1>0, <1>1, <2>2, <4>2 DEF EntriesHold
      <4> QED BY <2>3, <4>1, <4>2, TableGiven
    <3> QED BY <3>1
  <2>7. tableProg = "poll" => client'[0] = 0
    <3>1. tableProg = "poll" => k # 0 /\ 0 \in T!Places
      BY <1>0, TableGiven DEF T!First
    <3> QED BY <1>0, <2>2, <3>1 DEF EntriesHold
  <2>8. EntriesHold'
    <3>1. maxi' < TableSize
      BY <1>0, <2>3, <2>4, TableGiven
    <3> QED BY <1>1, <2>3, <2>4, <2>5, <2>6, <2>7, <3>1 DEF EntriesHold, Sparse
  <2> QED BY <1>1, <2>1, <2>2, <2>4, <2>8 DEF Sparse
<1>2. CASE tableProg = "myserver1"
  <2>1. /\ client' = T!Compact(T!findcfd(client, tableNum, fd))
        /\ tableNum' = tableNum - 1 /\ maxi' = maxi
    BY <1>2 DEF T!CloseClient
  <2>2. /\ T!First = 0 /\ T!First' = 0 /\ Tabled' /\ T!Last = tableNum - 1
        /\ T!Last' = tableNum' - 1 /\ tableNum \in Nat
    BY <1>2 DEF Tabled, T!First, T!Last, TableTyped
  <2>3. k \in 0..tableNum - 1 /\ k \in Nat /\ k < tableNum
    BY <1>0, <2>2
  <2>4. T!findcfd(client, tableNum, fd) = k
    <3> DEFINE A == {j \in 0..tableNum - 1 : client[j] = fd}
    <3>1. A \in SUBSET Nat /\ k \in A
      BY <2>3
    <3>2. \A j \in A : j = k
      BY <1>0, <2>2, <2>3 DEF Covers
    <3>3. T!Min(A) \in A
      BY <3>1, Least
    <3> QED BY <3>1, <3>2, <3>3 DEF T!findcfd
  <2>5. client' = [j \in T!Places |->
                     IF j \in k..tableNum - 1 THEN client[j + 1]
                                              ELSE client[j]]
    BY <2>1, <2>4 DEF T!Compact
  <2>6. client' \in [T!Places -> T!Descriptors \union {-1}]
    <3>1. tableNum <= TableSize
      BY <1>0, <2>2, TableGiven
    <3>2. \A j \in k..tableNum - 1 : j + 1 \in T!Places
      BY <2>2, <2>3, <3>1, TableGiven
    <3> QED BY <1>0, <2>5, <3>2
  <2>7. \A j \in 0..tableNum - 1 - 1 :
          client'[j] = IF j < k THEN client[j] ELSE client[j + 1]
    <3>1. ASSUME NEW j \in 0..tableNum - 1 - 1
          PROVE  client'[j] = IF j < k THEN client[j] ELSE client[j + 1]
      <4>1. j \in T!Places /\ (j \in k..tableNum - 1 <=> ~(j < k))
        BY <1>0, <2>2, <2>3, TableGiven
      <4> QED BY <2>5, <4>1
    <3> QED BY <3>1
  <2>8. \A j \in 0..tableNum - 1 : client[j] # -1
    BY <1>0, <1>2 DEF EntriesHold
  <2>9. Covers(client', 0, tableNum - 1 - 1, Opened \ {fd})
    <3>1. /\ Covers(client, 0, tableNum - 1, Opened)
          /\ 0 \in Int /\ tableNum - 1 \in Int
      BY <1>0, <2>2
    <3> QED BY ONLY <2>3, <2>7, <2>8, <3>1, CoversCompact
  <2>10. \A j \in 0..tableNum' - 1 : client'[j] # -1
    <3>1. ASSUME NEW j \in 0..tableNum - 1 - 1 PROVE client'[j] # -1
      <4>1. j \in 0..tableNum - 1 /\ j + 1 \in 0..tableNum - 1
        BY <2>2
      <4> QED BY <2>7, <2>8, <4>1
    <3> QED BY <2>1, <3>1
  <2>11. 0 - 1 <= tableNum' - 1 /\ tableNum' - 1 < TableSize
    BY <1>0, <2>1, <2>2, <2>3, TableGiven
  <2>12. EntriesHold'
    BY <1>2, <2>1, <2>2, <2>9, <2>10, <2>11 DEF EntriesHold, Sparse
  <2> QED BY <1>2, <2>1, <2>6, <2>12 DEF TableTyped
<1> QED BY <1>1, <1>2 DEF Tabled, Sparse

\* The client of the scan is closed.
LEMMA ShapeClosed ==
  ASSUME TableTyped, TableShape, ScanHolds, Serving,
         T!CloseClient(T!FdAt(tableI)), UNCHANGED <<tableProg, limit>>,
         tableConn' = [tableConn EXCEPT ![T!Current] = "closed"]
  PROVE  /\ TableTyped' /\ TableShape'
         /\ Opened' = Opened \ {T!FdAt(tableI)}
<1>1. PICK fd : fd = T!FdAt(tableI)
  OBVIOUS
<1>2. PICK c : c = file[fd]
  OBVIOUS
<1>3. /\ fd \in Opened /\ fd \in T!Descriptors /\ c \in Clients /\ fd \in Nat
      /\ T!Current = c /\ fd # 0
  BY <1>1, <1>2, OpenedFacts DEF ScanHolds, T!Current, Opened
<1>4. /\ file' = [file EXCEPT ![fd] = NoClient] /\ watch' = watch \ {fd}
      /\ maxfd' = maxfd
      /\ tableConn' = [tableConn EXCEPT ![c] = "closed"]
  BY <1>1, <1>3 DEF T!CloseClient
<1>5. /\ file'[fd] = NoClient
      /\ \A f \in T!Descriptors : f # fd => file'[f] = file[f]
      /\ file' \in [T!Descriptors -> Clients \union {NoClient}]
      /\ file'[0] = NoClient
  BY <1>3, <1>4 DEF TableTyped
<1>6. Opened' = Opened \ {fd}
  BY <1>5 DEF Opened
<1>7. /\ client' \in [T!Places -> T!Descriptors \union {-1}]
      /\ maxi' \in Int /\ EntriesHold'
      /\ tableNum' = IF tableProg \in {"myserver", "myserver1"}
                     THEN tableNum - 1 ELSE tableNum
  <2>1. CASE Tabled
    <3>1. fd = client[tableI]
      BY <1>1, <2>1 DEF Tabled, T!FdAt
    <3> QED BY <1>1, <1>6, <2>1, <3>1, EntryRemoved
  <2>2. CASE ~Tabled
    <3>1. UNCHANGED <<client, maxi, tableNum>>
      BY <2>2 DEF T!CloseClient, Tabled, TableTyped
    <3> QED BY <2>2, <3>1 DEF EntriesHold, Tabled, Sparse, TableTyped
  <2> QED BY <2>1, <2>2
<1>8. NumHolds' /\ tableNum' \in Nat
  <2>1. /\ Cardinality(Opened') = Cardinality(Opened) - 1
        /\ Cardinality(Opened') \in Nat
    BY <1>3, <1>6, OpenedFacts, FS_RemoveElement, FS_CardinalityType
  <2> QED BY <1>7, <2>1 DEF TableShape, NumHolds, TableTyped
<1>9. TableTyped'
  BY <1>3, <1>4, <1>5, <1>7, <1>8 DEF TableTyped
<1>10. FilesOwn'
  <2>1. \A f \in Opened' : /\ f \in Opened /\ f # fd /\ file'[f] = file[f]
                           /\ file[f] \in Clients
    BY <1>5, <1>6, OpenedFacts DEF Opened
  <2>2. \A f \in Opened' : file[f] # c
    BY <1>2, <1>3, <2>1 DEF TableShape, FilesOwn
  <2>3. \A d \in Clients : d # c => tableConn'[d] = tableConn[d]
    BY <1>4 DEF TableTyped
  <2> QED BY <2>1, <2>2, <2>3 DEF TableShape, FilesOwn
<1>11. WatchesOpen'
  BY <1>3, <1>4, <1>6 DEF TableShape, WatchesOpen
<1> QED BY <1>1, <1>6, <1>7, <1>8, <1>9, <1>10, <1>11 DEF TableShape

\* After a new client the scan begins.
LEMMA ScanAfterAccept ==
  ASSUME TableTyped', EntriesHold', T!AfterAccept, tableProg' = tableProg,
         ready' \subseteq T!Descriptors,
         tableProg = "primary" => ready' \subseteq Opened',
         tableProg = "epoll" => ready' \subseteq Opened' \union {0}
  PROVE  ScanHolds'
<1>1. CASE tableProg = "epoll"
  <2>1. tablePc' \in {"wait", "batch"} /\ tableI' = 0
    BY <1>1 DEF T!AfterAccept, T!BatchOn
  <2> QED BY <1>1, <2>1 DEF ScanHolds, Serving
<1>2. CASE tableProg # "epoll" /\ tablePc' = "wait" /\ tableI' = 0
  BY <1>2 DEF ScanHolds, Serving
<1>3. CASE tableProg # "epoll" /\ T!ScanOn(T!First)
  <2>1. T!First' = T!First /\ T!First \in Nat
    BY DEF T!First
  <2>2. PICK k : k = T!First
    OBVIOUS
  <2>3. k \in Nat /\ T!First' <= k /\ T!ScanOn(k)
    BY <1>3, <2>1, <2>2
  <2> QED BY <1>3, <2>3, ScanFinds
<1> QED BY <1>1, <1>2, <1>3 DEF T!AfterAccept

\* After a client that has been looked after the scan goes on.
LEMMA ScanHandled ==
  ASSUME TableTyped, ScanHolds, Serving, TableTyped', EntriesHold',
         T!Handled, tableProg' = tableProg,
         Opened \ {T!FdAt(tableI)} \subseteq Opened'
  PROVE  ScanHolds'
<1>1. CASE tableProg = "epoll"
  <2>1. tablePc' \in {"wait", "batch"} /\ tableI' = 0 /\ ready' = ready
    BY <1>1 DEF T!Handled, T!BatchOn
  <2>2. T!FdAt(tableI) = tableI
    BY <1>1 DEF T!FdAt
  <2>3. ready \subseteq Opened' \union {0}
    BY <1>1, <2>2 DEF ScanHolds
  <2>4. ready \subseteq T!Descriptors
    BY DEF ScanHolds
  <2> QED BY <1>1, <2>1, <2>3, <2>4 DEF ScanHolds, Serving
<1>2. CASE tableProg # "epoll"
  <2>1. ready' = ready /\ T!ScanOn(tableI + 1)
    BY <1>2 DEF T!Handled
  <2>2. PICK k : k = tableI + 1
    OBVIOUS
  <2>3. k \in Nat /\ T!First' <= k /\ T!ScanOn(k)
    BY <2>1, <2>2 DEF ScanHolds, T!First
  <2>4. ASSUME tableProg = "primary", NEW f \in ready', f >= k
        PROVE  f \in Opened'
    <3>1. f \in ready /\ f > tableI /\ f \in Nat /\ f # tableI
      BY <2>1, <2>2, <2>4 DEF ScanHolds, TableTyped
    <3>2. T!FdAt(tableI) = tableI
      BY <2>4 DEF T!FdAt
    <3> QED BY <2>4, <3>1, <3>2 DEF ScanHolds
  <2>5. ready' \subseteq T!Descriptors
    BY <2>1 DEF ScanHolds
  <2> QED BY <1>2, <2>3, <2>4, <2>5, ScanFinds
<1> QED BY <1>1, <1>2

\* What is reported is watched.
LEMMA SeenWatched ==
  ASSUME TableTyped, TableShape
  PROVE  /\ T!Seen \subseteq T!Descriptors /\ T!Reported \subseteq T!Descriptors
         /\ tableProg # "poll" => T!Seen \subseteq Opened \union {0}
<1>1. T!Seen \subseteq T!Watched /\ T!Reported \subseteq T!Watched
  BY DEF T!Seen, T!Reported
<1>2. CASE tableProg = "poll"
  <2>1. maxi < TableSize
    BY <1>2 DEF TableShape, EntriesHold, Tabled, T!Last
  <2>2. \A k \in 0..maxi : k \in T!Places
    BY <2>1, TableGiven DEF TableTyped
  <2>3. \A k \in T!Places : client[k] # -1 => client[k] \in T!Descriptors
    BY DEF TableTyped
  <2>4. T!Watched \subseteq T!Descriptors
    BY <1>2, <2>2, <2>3 DEF T!Watched, T!NoFd
  <2> QED BY <1>1, <1>2, <2>4
<1>3. CASE tableProg # "poll"
  <2>1. T!Watched \subseteq watch
    BY <1>3 DEF T!Watched
  <2>2. watch = Opened \union {0}
    BY <1>3 DEF TableShape, WatchesOpen
  <2>3. Opened \union {0} \subseteq T!Descriptors
    BY DEF Opened, TableTyped
  <2> QED BY <1>1, <1>3, <2>1, <2>2, <2>3
<1> QED BY <1>2, <1>3

\* Nothing happens to the scan.
LEMMA ScanKept ==
  ASSUME ScanHolds, TableTyped, T!tableVars' = T!tableVars,
         UNCHANGED <<tableProg, tablePc, ready, tableI>>
  PROVE  ScanHolds'
<1>1. UNCHANGED <<file, watch, client, maxi, tableNum, maxfd>>
  BY DEF T!tableVars
<1>2. /\ Opened' = Opened /\ T!First' = T!First /\ T!Last' = T!Last
      /\ T!FdAt(tableI)' = T!FdAt(tableI)
  BY <1>1 DEF Opened, T!First, T!Last, T!FdAt
<1> QED BY <1>2 DEF ScanHolds, Serving, Tabled

\* The server waits, and looks at what it is told.
LEMMA WaitStep == ASSUME TableInv, T!Wait PROVE TableInv'
<1>1. /\ T!tableVars' = T!tableVars /\ ready' = T!Seen
      /\ UNCHANGED <<tableProg, limit, tableConn>>
  BY DEF T!Wait, T!socketVars
<1>2. TableTyped /\ TableShape /\ ScanHolds
  BY DEF TableInv
<1>3. TableTyped' /\ TableShape' /\ Opened' = Opened
  <2>1. tableConn' \in [Clients -> {"new", "queued", "open", "closed"}]
    BY <1>1, <1>2 DEF TableTyped
  <2>2. Opened' = Opened
    BY <1>1 DEF Opened, T!tableVars
  <2> QED BY <1>1, <1>2, <2>1, <2>2, ShapeKept
<1>4. /\ ready' \subseteq T!Descriptors
      /\ tableProg # "poll" => ready' \subseteq Opened' \union {0}
  BY <1>1, <1>2, <1>3, SeenWatched
<1>5. CASE tableProg = "epoll"
  <2>1. tablePc' \in {"wait", "batch"} /\ tableI' = 0
    BY <1>5 DEF T!Wait, T!BatchOn
  <2>2. ScanHolds'
    BY <1>1, <1>4, <1>5, <2>1 DEF ScanHolds, Serving
  <2> QED BY <1>3, <2>2 DEF TableInv
<1>6. CASE tableProg # "epoll" /\ 0 \in ready'
  <2>1. tablePc' = "accept" /\ tableI' = 0
    BY <1>6 DEF T!Wait, T!Listener
  <2>2. ScanHolds'
    BY <1>1, <1>4, <1>6, <2>1 DEF ScanHolds, Serving
  <2> QED BY <1>3, <2>2 DEF TableInv
<1>7. CASE tableProg # "epoll" /\ 0 \notin ready'
  <2>1. PICK k : k = T!First
    OBVIOUS
  <2>2. T!ScanOn(k) /\ k \in Nat /\ T!First' <= k
    BY <1>1, <1>7, <2>1 DEF T!Wait, T!Listener, T!First
  <2>3. tableProg' = "primary" => \A f \in ready' : f >= k => f \in Opened'
    BY <1>1, <1>4, <1>7
  <2>4. ScanHolds'
    BY <1>1, <1>3, <1>4, <1>7, <2>2, <2>3, ScanFinds DEF TableShape
  <2> QED BY <1>3, <2>4 DEF TableInv
<1> QED BY <1>5, <1>6, <1>7

\* A client comes, or cannot.
LEMMA AcceptStep ==
  ASSUME TableInv, NEW c \in Clients,
         T!Accept(c) \/ T!AcceptBeyond(c) \/ T!TooMany(c)
  PROVE  TableInv'
<1>1. /\ TableTyped /\ TableShape /\ ScanHolds /\ T!Accepting(c)
      /\ tablePc = "accept" /\ UNCHANGED <<tableProg, limit>>
      /\ tableConn[c] = "queued"
  BY DEF TableInv, T!Accept, T!AcceptBeyond, T!TooMany, T!Accepting
<1>2. /\ ready \subseteq T!Descriptors /\ tableI \in Nat
      /\ tableProg \in {"primary", "epoll"} =>
           ready \subseteq Opened \union {0}
  BY <1>1 DEF ScanHolds
<1>3. CASE T!Accept(c)
  <2>1. /\ TableTyped' /\ TableShape' /\ Opened \subseteq Opened'
        /\ T!Min(T!FreeFds) \in T!Descriptors
    BY <1>1, <1>3, ShapeAdded
  <2>2. /\ T!AfterAccept
        /\ \/ ready' = ready \ {0}
           \/ /\ tableProg = "poll"
              /\ ready' = (ready \ {0}) \union {T!Min(T!FreeFds)}
    BY <1>3 DEF T!Accept, T!FreshReady, T!Listener
  <2>3. ready' \subseteq T!Descriptors
    BY <1>2, <2>1, <2>2
  <2>4. tableProg \in {"primary", "epoll"} => ready' \subseteq Opened'
    BY <1>2, <2>1, <2>2
  <2>5. ScanHolds'
    BY <1>1, <2>1, <2>2, <2>3, <2>4, ScanAfterAccept DEF TableShape
  <2> QED BY <2>1, <2>5 DEF TableInv
<1>4. CASE T!AcceptBeyond(c)
  <2>1. /\ tablePc' = "undefined" /\ T!tableVars' = T!tableVars
        /\ UNCHANGED <<tableConn, ready, tableI>>
    BY <1>4 DEF T!AcceptBeyond
  <2>2. TableTyped' /\ TableShape'
    BY <1>1, <2>1, ShapeKept DEF TableTyped
  <2>3. ScanHolds'
    BY <1>2, <2>1 DEF ScanHolds, Serving
  <2> QED BY <2>2, <2>3 DEF TableInv
<1>5. CASE T!TooMany(c)
  <2>1. /\ T!tableVars' = T!tableVars
        /\ \/ /\ tableProg = "myserver" /\ ready' = ready \ {0}
              /\ tableConn' = [tableConn EXCEPT ![c] = "closed"]
              /\ T!AfterAccept
           \/ tablePc' = "ended" /\ UNCHANGED <<tableConn, ready, tableI>>
    BY <1>5 DEF T!TooMany, T!Listener
  <2>2. TableTyped' /\ TableShape'
    <3>1. tableConn' \in [Clients -> {"new", "queued", "open", "closed"}]
      BY <1>1, <2>1 DEF TableTyped
    <3>2. \A d \in Clients : tableConn[d] = "open" => tableConn'[d] = "open"
      BY <1>1, <2>1 DEF TableTyped
    <3> QED BY <1>1, <2>1, <3>1, <3>2, ShapeKept
  <2>3. CASE tablePc' = "ended" /\ UNCHANGED <<ready, tableI>>
    <3>1. ScanHolds'
      BY <1>2, <2>3 DEF ScanHolds, Serving
    <3> QED BY <2>2, <3>1 DEF TableInv
  <2>4. CASE tableProg = "myserver" /\ ready' = ready \ {0} /\ T!AfterAccept
    <3>1. ready' \subseteq T!Descriptors
      BY <1>2, <2>4
    <3>2. ScanHolds'
      BY <1>1, <2>2, <2>4, <3>1, ScanAfterAccept DEF TableShape
    <3> QED BY <2>2, <3>2 DEF TableInv
  <2> QED BY <2>1, <2>3, <2>4
<1> QED BY <1>3, <1>4, <1>5

\* The steps that leave the table alone and do not go on with the scan.
LEMMA QuietStep ==
  ASSUME TableInv,
         \/ UNCHANGED tableVars \/ T!EpollEvent \/ T!AcceptFails
         \/ T!ReadData \/ T!SigPipe
         \/ \E c \in Clients : T!Client(c) \/ T!Departs(c)
  PROVE  TableInv'
<1>1. TableTyped /\ TableShape /\ ScanHolds
  BY DEF TableInv
<1>2. /\ T!tableVars' = T!tableVars /\ UNCHANGED <<tableProg, limit>>
      /\ \/ tableConn' = tableConn
         \/ \E c \in Clients :
              /\ tableConn[c] = "new"
              /\ tableConn' = [tableConn EXCEPT ![c] = "queued"]
  BY DEF tableVars, T!tableVars, T!EpollEvent, T!AcceptFails, T!ReadData,
     T!Reading, T!SigPipe, T!Client, T!Departs, T!Connect, T!Send, T!Finish,
     T!Leave, T!socketVars
<1>3. TableTyped' /\ TableShape'
  <2>1. tableConn' \in [Clients -> {"new", "queued", "open", "closed"}]
    BY <1>1, <1>2 DEF TableTyped
  <2>2. \A c \in Clients : tableConn[c] = "open" => tableConn'[c] = "open"
    BY <1>1, <1>2 DEF TableTyped
  <2> QED BY <1>1, <1>2, <2>1, <2>2, ShapeKept
<1>4. /\ Opened' = Opened /\ T!First' = T!First /\ T!Last' = T!Last
      /\ \A k : T!FdAt(k)' = T!FdAt(k)
  BY <1>2 DEF T!tableVars, Opened, T!First, T!Last, T!FdAt
<1>5. CASE UNCHANGED <<tablePc, ready, tableI>>
  BY <1>1, <1>2, <1>3, <1>5, ScanKept DEF TableInv
<1>6. CASE T!EpollEvent
  <2>1. PICK f \in ready : /\ ready' = ready \ {f} /\ tableI' = f
                           /\ tablePc' = IF f = 0 THEN "accept" ELSE "read"
    BY <1>6 DEF T!EpollEvent, T!Listener
  <2>2. tableProg = "epoll" /\ tablePc = "batch"
    BY <1>1, <1>6 DEF T!EpollEvent, ScanHolds
  <2>3. ready \subseteq Opened \union {0} /\ ready \subseteq T!Descriptors
    BY <1>1, <2>2 DEF ScanHolds
  <2>4. f \in Nat /\ T!FdAt(tableI)' = f
    BY <1>1, <1>2, <2>1, <2>2, <2>3 DEF TableTyped, T!FdAt
  <2>5. ScanHolds'
    BY <1>2, <1>4, <2>1, <2>2, <2>3, <2>4 DEF ScanHolds, Serving, Tabled
  <2> QED BY <1>3, <2>5 DEF TableInv
<1>7. CASE T!AcceptFails \/ T!SigPipe
  <2>1. tablePc' \in {"wait", "ended"} /\ UNCHANGED <<ready, tableI>>
    BY <1>7 DEF T!AcceptFails, T!SigPipe
  <2>2. ScanHolds'
    BY <1>1, <2>1 DEF ScanHolds, Serving
  <2> QED BY <1>3, <2>2 DEF TableInv
<1>8. CASE T!ReadData
  <2>1. /\ tablePc = "read" /\ tablePc' = "write"
        /\ UNCHANGED <<ready, tableI>>
    BY <1>8 DEF T!ReadData, T!Reading
  <2>2. T!FdAt(tableI)' = T!FdAt(tableI)
    BY <1>2, <2>1 DEF T!FdAt, T!tableVars
  <2>3. ScanHolds'
    BY <1>1, <1>2, <1>4, <2>1, <2>2 DEF ScanHolds, Serving, Tabled
  <2> QED BY <1>3, <2>3 DEF TableInv
<1> QED BY <1>5, <1>6, <1>7, <1>8
        DEF tableVars, T!Client, T!Departs, T!scanVars

\* The scan goes on after a client.
LEMMA ScanStep ==
  ASSUME TableInv, T!ReadEnd \/ T!ReadFails \/ T!Writen PROVE TableInv'
<1>1. /\ TableTyped /\ TableShape /\ ScanHolds /\ Serving /\ T!Handled
      /\ UNCHANGED <<tableProg, limit>>
  BY DEF TableInv, T!ReadEnd, T!ReadFails, T!Writen, T!Reading, Serving
<1>2. /\ TableTyped' /\ TableShape'
      /\ Opened \ {T!FdAt(tableI)} \subseteq Opened'
  <2>1. CASE T!ReadEnd
    <3>1. /\ T!CloseClient(T!FdAt(tableI))
          /\ tableConn' = [tableConn EXCEPT ![T!Current] = "closed"]
      BY <2>1 DEF T!ReadEnd
    <3> QED BY <1>1, <3>1, ShapeClosed
  <2>2. CASE T!ReadFails \/ T!Writen
    <3>1. T!tableVars' = T!tableVars /\ tableConn' = tableConn
      BY <2>2 DEF T!ReadFails, T!Writen
    <3>2. Opened' = Opened
      BY <3>1 DEF T!tableVars, Opened
    <3>3. tableConn' \in [Clients -> {"new", "queued", "open", "closed"}]
      BY <1>1, <3>1 DEF TableTyped
    <3> QED BY <1>1, <3>1, <3>2, <3>3, ShapeKept
  <2> QED BY <2>1, <2>2
<1>3. ScanHolds'
  BY <1>1, <1>2, ScanHandled DEF TableShape
<1> QED BY <1>2, <1>3 DEF TableInv

LEMMA TableStep == ASSUME TableInv, TableRun PROVE TableInv'
BY WaitStep, AcceptStep, QuietStep, ScanStep
   DEF TableRun, T!Next, T!Server

\* The table is right between two rounds of the scan, and at any other time.
LEMMA TableAgrees == ASSUME TableInv PROVE T!TableHolds
<1>1. TableTyped /\ TableShape
  BY DEF TableInv
<1>2. /\ T!First \in {0, 1} /\ T!Last \in Int
      /\ Opened \subseteq Nat /\ 0 \notin Opened /\ -1 \notin Opened
  BY <1>1, TableEnds, OpenedFacts
<1>3. T!Watched = Opened \union {0}
  <2>1. CASE tableProg = "poll"
    <3>1. /\ T!First = 1 /\ T!Last = maxi /\ Tabled /\ client[0] = 0
          /\ 0 <= maxi /\ maxi \in Int
      BY <1>1, <2>1 DEF T!First, T!Last, Tabled, TableShape, EntriesHold,
                        TableTyped
    <3>2. Covers(client, 1, maxi, Opened)
      BY <1>1, <3>1 DEF TableShape, EntriesHold
    <3>3. T!Watched = {client[k] : k \in 0..maxi} \ {-1}
      BY <2>1 DEF T!Watched, T!NoFd
    <3>4. \A k \in 0..maxi : client[k] # -1 => client[k] \in Opened \union {0}
      <4>1. \A k \in 0..maxi : k = 0 \/ k \in 1..maxi
        BY <3>1
      <4> QED BY <3>1, <3>2, <4>1 DEF Covers
    <3>5. \A f \in Opened \union {0} : \E k \in 0..maxi : client[k] = f
      <4>1. 0 \in 0..maxi /\ \A k \in 1..maxi : k \in 0..maxi
        BY <3>1
      <4>2. \A f \in Opened : \E k \in 1..maxi : client[k] = f
        BY <3>2 DEF Covers
      <4> QED BY <3>1, <4>1, <4>2
    <3>6. -1 \notin Opened \union {0}
      BY <1>2
    <3> QED BY <3>3, <3>4, <3>5, <3>6
  <2>2. CASE tableProg = "epoll"
    BY <1>1, <2>2 DEF T!Watched, TableShape, WatchesOpen
  <2>3. CASE tableProg \in T!Selects
    <3>1. tableProg # "poll" /\ tableProg # "epoll"
      BY <2>3 DEF T!Selects
    <3>2. watch = Opened \union {0} /\ \A f \in Opened : f <= maxfd
      BY <1>1, <2>3, <3>1 DEF TableShape, WatchesOpen
    <3>3. Opened \union {0} \subseteq 0..maxfd
      BY <1>1, <1>2, <3>2 DEF TableTyped
    <3> QED BY <3>1, <3>2, <3>3 DEF T!Watched
  <2>4. tableProg = "poll" \/ tableProg = "epoll" \/ tableProg \in T!Selects
    BY <1>1 DEF TableTyped, T!Selects
  <2> QED BY <2>1, <2>2, <2>3, <2>4
<1>4. ASSUME tableProg \in T!Selects \union {"poll"}, NEW f \in Opened
      PROVE  T!Cardinality({k \in T!First..T!Last : T!FdAt(k) = f}) = 1
  <2> DEFINE A == {k \in T!First..T!Last : T!FdAt(k) = f}
  <2>1. \E k : A = {k}
    <3>1. CASE tableProg = "primary"
      <4>1. T!First = 1 /\ T!Last = maxfd /\ \A k : T!FdAt(k) = k
        BY <3>1 DEF T!First, T!Last, T!FdAt
      <4>2. f \in 1..maxfd
        BY <1>1, <1>2, <3>1
           DEF TableShape, WatchesOpen, T!Selects, TableTyped
      <4>3. A = {f}
        BY <4>1, <4>2
      <4> QED BY <4>3
    <3>2. CASE tableProg # "primary"
      <4>1. Tabled /\ \A k : T!FdAt(k) = client[k]
        BY <1>4, <3>2 DEF Tabled, T!Selects, T!FdAt
      <4>2. Covers(client, T!First, T!Last, Opened) /\ f # -1
        BY <1>1, <1>2, <4>1 DEF TableShape, EntriesHold
      <4>3. PICK k \in T!First..T!Last : client[k] = f
        BY <4>2 DEF Covers
      <4>4. \A j \in T!First..T!Last : client[j] = f => j = k
        BY <4>2, <4>3 DEF Covers
      <4>5. A = {k}
        BY <4>1, <4>3, <4>4
      <4> QED BY <4>5
    <3> QED BY <3>1, <3>2
  <2>2. Cardinality(A) = 1
    BY <2>1, FS_Singleton
  <2>3. T!Cardinality(A) = Cardinality(A)
    BY DEF T!Cardinality, Cardinality
  <2> QED BY <2>2, <2>3
<1>5. tableProg \in {"myserver", "myserver1"} =>
        tableNum = T!Cardinality(Opened)
  <2>1. T!Cardinality(Opened) = Cardinality(Opened)
    BY DEF T!Cardinality, Cardinality
  <2> QED BY <1>1, <2>1 DEF TableShape, NumHolds
<1> QED BY <1>3, <1>4, <1>5 DEF T!TableHolds, Opened, T!Listener

\* TableHolds, between two rounds a table has its open connections, each once,
\* and no closed one, for any clients, limits and sizes of the table.
THEOREM TablesHold == Spec => []TableHolds
<1>1. Init => TableInv
  BY TableInit
<1>2. TableInv /\ [Next]_vars => TableInv'
  BY TableSteps, TableStep
<1>3. TableInv => TableHolds
  BY TableAgrees DEF TableHolds
<1> QED BY <1>1, <1>2, <1>3, PTL DEF Spec

-----------------------------------------------------------------------------
(* What these servers send back *)

TableFlow(c, hand) == Flow(c, tableEcho[c], hand, tableInput[c], tableSent[c],
                           tablePeer[c])
InHand(c) == IF tablePc = "write" /\ c = T!Current THEN tableBuf ELSE <<>>

\* Who is closed has left, and got everything back if it listened.
TableDone(c) == /\ tablePeer[c] # "up"
                /\ tablePeer[c] = "shut" => Len(tableEcho[c]) = tableSent[c]

TableDomains ==
  /\ DOMAIN tablePeer = Clients /\ DOMAIN tableInput = Clients
  /\ DOMAIN tableSent = Clients /\ DOMAIN tableEcho = Clients

\* What a client sent is on its way in one place.
TableData ==
  /\ TableDomains
  /\ \A c \in Clients : TableFlow(c, InHand(c))
  /\ \A c \in Clients : tableConn[c] = "closed" => TableDone(c)

\* Nothing is sent yet.
LEMMA TableDataInit == ASSUME Init PROVE TableData
<1>1. /\ tablePc = "wait"
      /\ tableConn = [c \in Clients |-> "new"]
      /\ tablePeer = [c \in Clients |-> "up"]
      /\ tableInput = [c \in Clients |-> <<>>]
      /\ tableEcho = [c \in Clients |-> <<>>]
      /\ tableSent = [c \in Clients |-> 0]
  BY DEF Init, T!Init, T!SocketInit
<1>2. \A c \in Clients : TableFlow(c, InHand(c))
  BY <1>1, FlowEmpty DEF TableFlow, InHand
<1> QED BY <1>1, <1>2 DEF TableData, TableDomains

\* Steps that move no data and close nobody.
LEMMA TableQuiet ==
  ASSUME TableData,
         UNCHANGED <<tablePeer, tableInput, tableSent, tableEcho>>,
         \A c \in Clients : InHand(c)' = InHand(c),
         \A c \in Clients : tableConn'[c] = "closed" => tableConn[c] = "closed"
  PROVE  TableData'
<1>1. TableDomains'
  BY DEF TableData, TableDomains
<1>2. ASSUME NEW c \in Clients PROVE TableFlow(c, InHand(c))'
  BY DEF TableData, TableFlow
<1>3. ASSUME NEW c \in Clients, tableConn'[c] = "closed" PROVE TableDone(c)'
  BY <1>3 DEF TableData, TableDone
<1> QED BY <1>1, <1>2, <1>3 DEF TableData

\* What a step for client c leaves to the others.
TableOnly(c) ==
  /\ TableDomains'
  /\ \A d \in Clients \ {c} :
       /\ tablePeer'[d] = tablePeer[d] /\ tableInput'[d] = tableInput[d]
       /\ tableSent'[d] = tableSent[d] /\ tableEcho'[d] = tableEcho[d]

LEMMA TableMoves ==
  ASSUME TableData, NEW c \in Clients, TableOnly(c), TableFlow(c, InHand(c))',
         \A d \in Clients \ {c} : InHand(d)' = InHand(d),
         \A d \in Clients \ {c} : tableConn'[d] = "closed" =>
                                    tableConn[d] = "closed",
         tableConn'[c] = "closed" => TableDone(c)'
  PROVE  TableData'
<1>1. ASSUME NEW d \in Clients, d # c PROVE TableFlow(d, InHand(d))'
  BY <1>1 DEF TableData, TableFlow, TableOnly
<1>2. ASSUME NEW d \in Clients, d # c, tableConn'[d] = "closed"
      PROVE  TableDone(d)'
  BY <1>2 DEF TableData, TableDone, TableOnly
<1>3. \A d \in Clients : TableFlow(d, InHand(d))'
  BY <1>1
<1>4. \A d \in Clients : (tableConn[d] = "closed" => TableDone(d))'
  BY <1>2
<1> QED BY <1>3, <1>4 DEF TableData, TableOnly

\* A client that connects, sends or leaves.
LEMMA TableClientData ==
  ASSUME TableInv, TableData, NEW c \in Clients, T!Client(c) \/ T!Departs(c)
  PROVE  TableData'
<1>0. UNCHANGED <<tableProg, tablePc, tableI, tableBuf, file, client>>
  BY DEF T!Client, T!Departs, T!scanVars, T!tableVars
<1>1. \A d \in Clients : InHand(d)' = InHand(d)
  BY <1>0 DEF InHand, T!Current, T!FdAt
<1>2. CASE T!Connect(c)
  <2>1. /\ tableConn' = [tableConn EXCEPT ![c] = "queued"]
        /\ UNCHANGED <<tablePeer, tableInput, tableSent, tableEcho>>
    BY <1>2 DEF T!Connect
  <2>2. \A d \in Clients : tableConn'[d] = "closed" => tableConn[d] = "closed"
    BY <2>1 DEF TableInv, TableTyped
  <2> QED BY <1>1, <2>1, <2>2, TableQuiet
<1>3. CASE T!Send(c) \/ T!Finish(c) \/ T!Leave(c)
  <2>1. tablePeer[c] = "up" /\ tableConn' = tableConn
    BY <1>3 DEF T!Send, T!Finish, T!Leave, T!Present
  <2>2. tableConn[c] # "closed"
    BY <2>1 DEF TableData, TableDone
  <2>3. TableOnly(c)
    BY <1>3 DEF T!Send, T!Finish, T!Leave, TableOnly, TableData, TableDomains
  <2>4. PICK h : h = InHand(c)
    OBVIOUS
  <2>5. TableFlow(c, h)
    BY <2>4 DEF TableData
  <2>6. TableFlow(c, h)'
    <3>1. CASE T!Send(c)
      <4>1. /\ tableSent' = [tableSent EXCEPT ![c] = @ + 1]
            /\ tableInput' = [tableInput EXCEPT ![c] =
                               Append(@, <<c, tableSent'[c]>>)]
            /\ UNCHANGED <<tablePeer, tableEcho>>
        BY <3>1 DEF T!Send
      <4>2. /\ tableSent'[c] = tableSent[c] + 1
            /\ tableInput'[c] = Append(tableInput[c], <<c, tableSent[c] + 1>>)
        BY <4>1 DEF TableData, TableDomains
      <4> QED BY <2>1, <2>5, <4>1, <4>2, FlowSend DEF TableFlow
    <3>2. CASE T!Finish(c) \/ T!Leave(c)
      <4>1. UNCHANGED <<tableInput, tableSent, tableEcho>>
        BY <3>2 DEF T!Finish, T!Leave
      <4> QED BY <2>1, <2>5, <4>1, FlowLeave DEF TableFlow, Listens
    <3> QED BY <1>3, <3>1, <3>2
  <2>7. TableFlow(c, InHand(c))'
    BY <1>1, <2>4, <2>6
  <2> QED BY <1>1, <2>1, <2>2, <2>3, <2>7, TableMoves
<1> QED BY <1>2, <1>3 DEF T!Client, T!Departs

\* What Read takes of the client of the scan, and what it says of one who has
\* nothing more to be read.
LEMMA TableReadFacts ==
  ASSUME TableInv, TableData, T!Reading, NEW c, c = T!Current
  PROVE  /\ c \in Clients /\ tableConn[c] = "open" /\ TableOnly(c)
         /\ \A h : h = SubSeq(tableInput[c], 1, T!Taken(c)) => TableFlow(c, h)'
         /\ T!ReadResult(c) <= 0 => TableFlow(c, <<>>)' /\ TableDone(c)'
<1>1. /\ tablePc = "read" /\ T!ReadReturns(T!Current)
      /\ T!ReadEffect(T!Current) /\ UNCHANGED <<tableSent, tableEcho>>
  BY DEF T!Reading
<1>2. c \in Clients /\ tableConn[c] = "open"
  BY <1>1, OpenedFacts
     DEF TableInv, ScanHolds, Serving, T!Current, TableShape, FilesOwn
<1> DEFINE k == T!Taken(c)
           in == tableInput[c]
<1>3. TableFlow(c, <<>>)
  <2>1. InHand(c) = <<>>
    BY <1>1 DEF InHand
  <2> QED BY <1>2, <2>1 DEF TableData
<1>4. BufLen \in Nat /\ BufLen > 0
  BY ProgramsAssumption DEF T!SocketAssumption
<1>5. /\ Len(in) \in Nat /\ in \in Seq(Clients \X Nat)
      /\ Len(tableEcho[c]) \in Nat /\ tableSent[c] \in Nat
  BY <1>3 DEF TableFlow, Flow, Run
<1>6. k \in 0..Len(in)
  BY <1>4, <1>5 DEF T!Taken
<1>7. /\ tableInput' = [tableInput EXCEPT ![c] = SubSeq(in, k + 1, Len(in))]
      /\ tablePeer' = [tablePeer EXCEPT ![c] =
                        IF T!ReadResult(c) = -1 THEN "gone" ELSE @]
  BY <1>1 DEF T!ReadEffect
<1>8. /\ TableOnly(c) /\ tableInput'[c] = SubSeq(in, k + 1, Len(in))
      /\ tablePeer'[c] = IF T!ReadResult(c) = -1 THEN "gone" ELSE tablePeer[c]
  BY <1>1, <1>2, <1>7 DEF TableOnly, TableData, TableDomains
<1>9. CASE in # <<>>
  <2>1. Len(in) # 0
    BY <1>5, <1>9, EmptySeq
  <2>2. T!ReadResult(c) = k /\ k > 0 /\ ~(k <= 0) /\ k # -1
    BY <1>4, <1>5, <1>9, <2>1 DEF T!ReadResult, T!Taken
  <2>3. Flow(c, tableEcho[c], SubSeq(in, 1, k), SubSeq(in, k + 1, Len(in)),
             tableSent[c], tablePeer[c])
    BY <1>3, <1>6, FlowRead DEF TableFlow
  <2>4. PICK h : h = SubSeq(in, 1, k)
    OBVIOUS
  <2>5. TableFlow(c, h)'
    BY <1>1, <1>8, <2>2, <2>3, <2>4 DEF TableFlow
  <2> QED BY <1>2, <1>8, <2>2, <2>4, <2>5
<1>10. CASE in = <<>>
  <2>1. tableInput'[c] = <<>>
    <3>1. SubSeq(<<>>, 0 + 1, 0) = <<>>
      OBVIOUS
    <3>2. k = 0 /\ Len(in) = 0
      BY <1>6, <1>10
    <3> QED BY <1>8, <1>10, <3>1, <3>2
  <2>2. ~Listens(tablePeer'[c]) \/ tablePeer'[c] = tablePeer[c]
    BY <1>8 DEF Listens
  <2>3. Flow(c, tableEcho[c], <<>>, <<>>, tableSent[c], tablePeer'[c])
    BY <1>3, <1>10, <2>2, FlowLeave DEF TableFlow
  <2>4. TableFlow(c, <<>>)'
    BY <1>1, <2>1, <2>3 DEF TableFlow
  <2>5. tablePeer'[c] # "up"
    BY <1>1, <1>8, <1>10 DEF T!ReadReturns, T!Readable
  <2>6. tablePeer'[c] = "shut" => Len(tableEcho[c]) = tableSent[c]
    BY <1>5, <2>3 DEF Flow, Listens
  <2>7. TableDone(c)'
    BY <1>1, <2>5, <2>6 DEF TableDone
  <2>8. SubSeq(in, 1, k) = <<>>
    <3>1. SubSeq(<<>>, 1, 0) = <<>>
      OBVIOUS
    <3>2. k = 0
      BY <1>6, <1>10
    <3> QED BY <1>10, <3>1, <3>2
  <2> QED BY <1>2, <1>8, <2>4, <2>7, <2>8
<1> QED BY <1>9, <1>10

\* What Writen does with the units in hand.
LEMMA TableWriteFacts ==
  ASSUME TableInv, TableData, T!Writen, NEW c, c = T!Current
  PROVE  /\ c \in Clients /\ tableConn[c] = "open" /\ TableOnly(c)
         /\ TableFlow(c, <<>>)'
<1>1. /\ tablePc = "write" /\ ~T!WriteKills(T!Current)
      /\ T!WriteEffect(T!Current, tableBuf)
      /\ UNCHANGED <<tableSent, tableInput>>
  BY DEF T!Writen
<1>2. c \in Clients /\ tableConn[c] = "open"
  BY <1>1, OpenedFacts
     DEF TableInv, ScanHolds, Serving, T!Current, TableShape, FilesOwn
<1>3. PICK h : h = tableBuf
  OBVIOUS
<1>4. TableFlow(c, h)
  <2>1. InHand(c) = h
    BY <1>1, <1>3 DEF InHand
  <2> QED BY <1>2, <2>1 DEF TableData
<1>5. PICK p : /\ tablePeer' = [tablePeer EXCEPT ![c] = p]
               /\ \/ p = tablePeer[c]
                  \/ ~Listens(p) /\ ~Listens(tablePeer[c])
  BY <1>1 DEF T!WriteEffect, Listens
<1>6. tableEcho' = [tableEcho EXCEPT ![c] = IF Listens(tablePeer[c])
                                            THEN @ \o h ELSE @]
  BY <1>1, <1>3 DEF T!WriteEffect, Listens
<1>7. /\ TableOnly(c) /\ tablePeer'[c] = p
      /\ tableEcho'[c] = IF Listens(tablePeer[c]) THEN tableEcho[c] \o h
                                                  ELSE tableEcho[c]
  BY <1>1, <1>2, <1>5, <1>6 DEF TableOnly, TableData, TableDomains
<1>8. CASE Listens(tablePeer[c])
  <2>1. Flow(c, tableEcho[c] \o h, <<>>, tableInput[c], tableSent[c],
             tablePeer[c])
    BY <1>4, <1>8, FlowWrite DEF TableFlow
  <2> QED BY <1>1, <1>2, <1>5, <1>7, <1>8, <2>1 DEF TableFlow
<1>9. CASE ~Listens(tablePeer[c])
  <2>1. Flow(c, tableEcho[c], <<>>, tableInput[c], tableSent[c], tablePeer[c])
    BY <1>4, <1>9, FlowDrop DEF TableFlow
  <2>2. Flow(c, tableEcho[c], <<>>, tableInput[c], tableSent[c], p)
    BY <1>5, <1>9, <2>1, FlowLeave
  <2> QED BY <1>1, <1>2, <1>7, <1>9, <2>2 DEF TableFlow
<1> QED BY <1>8, <1>9

\* The table of myserver has a place for each descriptor of an fd_set, so that
\* it turns nobody away.
LEMMA NeverTooMany ==
  ASSUME TableInv, tableProg = "myserver"
  PROVE  T!Table
<1> SUFFICES ASSUME T!FreePlaces = {} PROVE FALSE
  BY DEF T!Table
<1>1. /\ TableTyped /\ EntriesHold /\ Tabled /\ Sparse
      /\ \A f \in Opened : f < SetSize
      /\ Opened \subseteq Nat /\ 0 \notin Opened
  BY OpenedFacts
     DEF TableInv, TableShape, Tabled, Sparse, WatchesOpen, T!Selects
<1>2. T!First = 0 /\ T!Last = maxi /\ maxi \in Int
  BY <1>1 DEF T!First, T!Last, TableTyped
<1>3. Covers(client, 0, maxi, Opened)
  BY <1>1, <1>2 DEF EntriesHold
<1> DEFINE Ps == 0..TableSize - 1
           Ds == 1..SetSize - 1
           tab == [k \in Ps |-> client[k]]
<1>4. \A k \in Ps : client[k] # -1
  BY <1>2 DEF T!FreePlaces, T!NoFd
<1>5. \A k \in Ps : k \in 0..maxi
  <2>1. \A k \in Ps : k \in T!Places /\ k \in Nat
    BY TableGiven
  <2>2. \A k \in Ps : ~(k > maxi)
    BY <1>1, <1>4, <2>1 DEF EntriesHold
  <2> QED BY <1>2, <2>1, <2>2
<1>6. \A k \in Ps : client[k] \in Ds
  <2>1. \A k \in Ps : client[k] \in Opened
    BY <1>3, <1>4, <1>5 DEF Covers
  <2>2. \A f \in Opened : f \in Ds
    BY <1>1, TableGiven
  <2> QED BY <2>1, <2>2
<1>7. tab \in [Ps -> Ds]
  BY <1>6
<1>8. /\ IsFiniteSet(Ps) /\ IsFiniteSet(Ds)
      /\ Cardinality(Ds) < Cardinality(Ps)
  <2>1. /\ 0 \in Int /\ 1 \in Int /\ TableSize - 1 \in Int
        /\ SetSize - 1 \in Int
    BY TableGiven
  <2>2. /\ IsFiniteSet(Ps) /\ IsFiniteSet(Ds)
        /\ Cardinality(Ps) = IF 0 > TableSize - 1 THEN 0
                             ELSE TableSize - 1 - 0 + 1
        /\ Cardinality(Ds) = IF 1 > SetSize - 1 THEN 0 ELSE SetSize - 1 - 1 + 1
    BY <2>1, FS_Interval
  <2> HIDE DEF Ps, Ds
  <2> QED BY <2>2, TableGiven
<1>9. \E x, y \in Ps : x # y /\ tab[x] = tab[y]
  <2> HIDE DEF Ps, Ds, tab
  <2> QED BY <1>7, <1>8, FS_PigeonHole
<1>10. PICK x, y \in Ps : x # y /\ client[x] = client[y]
  BY <1>9
<1> QED BY <1>3, <1>4, <1>5, <1>10 DEF Covers

\* No step of the server or of a client breaks it.
LEMMA TableDataStep == ASSUME TableInv, TableData, TableRun PROVE TableData'
<1> DEFINE NoData == UNCHANGED <<tablePeer, tableInput, tableSent, tableEcho>>
           Idle == tablePc # "write"
           Closes == \A c \in Clients : tableConn'[c] = "closed" =>
                                          tableConn[c] = "closed"
<1>1. ASSUME NoData, Idle, Idle', Closes PROVE TableData'
  <2>1. \A c \in Clients : InHand(c)' = InHand(c)
    BY <1>1 DEF InHand
  <2> QED BY <1>1, <2>1, TableQuiet
<1>2. tableConn' = tableConn => Closes
  OBVIOUS
<1>3. \A k : T!ScanOn(k) => Idle'
  BY DEF T!ScanOn
<1>4. T!BatchOn => Idle'
  BY DEF T!BatchOn
<1>5. T!Handled => Idle'
  BY <1>3, <1>4 DEF T!Handled
<1>6. CASE UNCHANGED tableVars
  <2>1. \A c \in Clients : InHand(c)' = InHand(c)
    BY <1>6 DEF tableVars, InHand, T!Current, T!FdAt
  <2> QED BY <1>6, <2>1, TableQuiet DEF tableVars
<1>7. CASE T!Wait \/ T!EpollEvent \/ T!AcceptFails
  <2>1. NoData /\ tableConn' = tableConn /\ Idle
    BY <1>7 DEF T!Wait, T!EpollEvent, T!AcceptFails, T!socketVars
  <2>2. Idle'
    BY <1>3, <1>4, <1>7 DEF T!Wait, T!EpollEvent, T!AcceptFails
  <2> QED BY <1>1, <1>2, <2>1, <2>2
<1>8. ASSUME NEW c \in Clients,
             T!Accept(c) \/ T!AcceptBeyond(c) \/ T!TooMany(c)
      PROVE  TableData'
  <2>1. NoData /\ Idle
    BY <1>8 DEF T!Accept, T!AcceptBeyond, T!TooMany, T!Accepting
  <2>2. T!AfterAccept => Idle'
    BY <1>3, <1>4 DEF T!AfterAccept
  <2>3. Idle'
    BY <1>8, <2>2 DEF T!Accept, T!AcceptBeyond, T!TooMany
  <2>4. Closes
    <3>1. T!TooMany(c) => tableConn' = tableConn
      BY NeverTooMany DEF T!TooMany
    <3>2. \/ tableConn' = tableConn
          \/ tableConn' = [tableConn EXCEPT ![c] = "open"]
      BY <1>8, <3>1 DEF T!Accept, T!AcceptBeyond
    <3> QED BY <3>2 DEF TableInv, TableTyped
  <2> QED BY <1>1, <2>1, <2>3, <2>4
<1>9. CASE T!ReadData \/ T!ReadEnd \/ T!ReadFails
  <2>1. PICK c : c = T!Current
    OBVIOUS
  <2>2. /\ c \in Clients /\ tableConn[c] = "open" /\ TableOnly(c)
        /\ \A h : h = SubSeq(tableInput[c], 1, T!Taken(c)) => TableFlow(c, h)'
        /\ T!ReadResult(c) <= 0 => TableFlow(c, <<>>)' /\ TableDone(c)'
    BY <1>9, <2>1, TableReadFacts DEF T!ReadData, T!ReadEnd, T!ReadFails
  <2>3. Idle /\ \A d \in Clients : InHand(d) = <<>>
    BY <1>9 DEF T!ReadData, T!ReadEnd, T!ReadFails, T!Reading, InHand
  <2>4. CASE T!ReadData
    <3>1. PICK h : h = SubSeq(tableInput[c], 1, T!Taken(c))
      OBVIOUS
    <3>2. /\ tableBuf' = h /\ tablePc' = "write" /\ tableConn' = tableConn
          /\ UNCHANGED <<file, client, tableI, tableProg>>
      BY <2>1, <2>4, <3>1 DEF T!ReadData, T!Reading, T!tableVars
    <3>3. T!Current' = c
      BY <2>1, <3>2 DEF T!Current, T!FdAt
    <3>4. /\ \A d \in Clients : d # c => InHand(d)' = <<>>
          /\ InHand(c)' = h
      BY <3>2, <3>3 DEF InHand
    <3>5. TableFlow(c, InHand(c))'
      BY <2>2, <3>1, <3>4
    <3> QED BY <2>2, <2>3, <3>2, <3>4, <3>5, TableMoves
  <2>5. CASE T!ReadEnd \/ T!ReadFails
    <3>1. /\ T!ReadResult(c) = 0 \/ T!ReadResult(c) = -1
          /\ \/ tableConn' = [tableConn EXCEPT ![c] = "closed"]
             \/ tableConn' = tableConn
          /\ Idle'
      BY <1>5, <2>1, <2>5 DEF T!ReadEnd, T!ReadFails
    <3>2. TableFlow(c, <<>>)' /\ TableDone(c)'
      BY <2>2, <3>1
    <3>3. \A d \in Clients : InHand(d)' = <<>>
      BY <3>1 DEF InHand
    <3>4. TableFlow(c, InHand(c))'
      BY <2>2, <3>2, <3>3
    <3>5. \A d \in Clients \ {c} : tableConn'[d] = "closed" =>
                                     tableConn[d] = "closed"
      BY <3>1 DEF TableInv, TableTyped
    <3> QED BY <2>2, <2>3, <3>2, <3>3, <3>4, <3>5, TableMoves
  <2> QED BY <1>9, <2>4, <2>5
<1>10. CASE T!Writen
  <2>1. PICK c : c = T!Current
    OBVIOUS
  <2>2. /\ c \in Clients /\ tableConn[c] = "open" /\ TableOnly(c)
        /\ TableFlow(c, <<>>)'
    BY <1>10, <2>1, TableWriteFacts
  <2>3. tableConn' = tableConn /\ Idle'
    BY <1>5, <1>10 DEF T!Writen
  <2>4. /\ \A d \in Clients : d # c => InHand(d) = <<>>
        /\ \A d \in Clients : InHand(d)' = <<>>
    BY <2>1, <2>3 DEF InHand
  <2>5. TableFlow(c, InHand(c))'
    BY <2>2, <2>4
  <2> QED BY <2>2, <2>3, <2>4, <2>5, TableMoves
<1>11. CASE T!SigPipe
  <2>1. PICK c : c = T!Current
    OBVIOUS
  <2>2. /\ tablePc = "write" /\ tablePc' = "ended" /\ NoData
        /\ tableConn' = tableConn /\ ~Listens(tablePeer[c])
    BY <1>11, <2>1 DEF T!SigPipe, T!WriteKills, T!socketVars, Listens
  <2>3. c \in Clients /\ tableConn[c] = "open"
    BY <2>1, <2>2, OpenedFacts
       DEF TableInv, ScanHolds, Serving, T!Current, TableShape, FilesOwn
  <2>4. PICK h : h = tableBuf
    OBVIOUS
  <2>5. InHand(c) = h
    BY <2>1, <2>2, <2>4 DEF InHand
  <2>6. TableFlow(c, h)
    BY <2>3, <2>5 DEF TableData
  <2>7. TableFlow(c, <<>>)'
    BY <2>2, <2>6, FlowDrop DEF TableFlow
  <2>8. /\ \A d \in Clients : d # c => InHand(d) = <<>>
        /\ \A d \in Clients : InHand(d)' = <<>>
    BY <2>1, <2>2 DEF InHand
  <2>9. TableFlow(c, InHand(c))' /\ TableOnly(c)
    BY <2>2, <2>3, <2>7, <2>8 DEF TableOnly, TableData, TableDomains
  <2> QED BY <2>2, <2>3, <2>8, <2>9, TableMoves
<1>12. ASSUME NEW c \in Clients, T!Client(c) \/ T!Departs(c) PROVE TableData'
  BY <1>12, TableClientData
<1> QED BY <1>6, <1>7, <1>8, <1>9, <1>10, <1>11, <1>12
        DEF TableRun, T!Next, T!Server

\* A client of these servers gets back what it sent.
LEMMA TableEchoes == ASSUME TableData PROVE T!EchoWhole
<1> SUFFICES ASSUME NEW c \in Clients
             PROVE  /\ \A k \in DOMAIN tableEcho[c] :
                         tableEcho[c][k] = <<c, k>>
                    /\ tableConn[c] = "closed" /\ tablePeer[c] = "shut" =>
                         Len(tableEcho[c]) = tableSent[c]
  BY DEF T!EchoWhole
<1>1. Run(c, tableEcho[c], 0)
  BY DEF TableData, TableFlow, Flow
<1>2. \A k \in 1..Len(tableEcho[c]) : tableEcho[c][k] = <<c, k>>
  <2>1. \A k \in 1..Len(tableEcho[c]) : 0 + k = k
    BY <1>1 DEF Run
  <2> QED BY <1>1, <2>1 DEF Run
<1>3. DOMAIN tableEcho[c] = 1..Len(tableEcho[c])
  BY <1>1 DEF Run
<1> QED BY <1>2, <1>3 DEF TableData, TableDone

-----------------------------------------------------------------------------
(* Datagrams *)

DgramRun == D!Next \/ UNCHANGED dgramVars

\* A step of the composition is a step of Datagrams or leaves its variables
\* alone.
LEMMA DgramSteps == ASSUME [Next]_vars PROVE DgramRun
BY DEF DgramRun, Next, vars, InTableServers, InForkServers, InProducers,
  InLocks, InChildren, InStreams, InStreamWrap, InLibevent, InDatagrams,
  InListing, InBufferevents

Line == UdpClients \X Nat
Datagram == [to : Ports, line : Line]

DgramTyped ==
  /\ at \in [UdpClients -> {"type", "wait", "ended"}]
  /\ port \in [UdpClients -> Ports \union {NoPort}]
  /\ typed \in [UdpClients -> Nat]
  /\ inbox \in [Ports -> Seq(Line)] /\ answers \in [UdpClients -> Seq(Line)]
  /\ mail \in Seq(Datagram)
  /\ work = <<>> \/ \E d \in Datagram : work = <<d>>

\* A port has one user at most, and holds nothing when it has none.
PortsOwn ==
  /\ \A u, v \in UdpClients : port[u] = port[v] /\ port[u] # NoPort => u = v
  /\ \A u \in UdpClients :
       /\ at[u] = "ended" => port[u] = NoPort
       /\ at[u] = "wait" => port[u] # NoPort
       /\ at[u] = "type" /\ port[u] = NoPort => typed[u] = 0
  /\ \A p \in Ports : (\A u \in UdpClients : port[u] # p) => inbox[p] = <<>>

\* What is under way to port p or has come there: nothing, or only x.
NothingTo(p) == /\ \A k \in 1..Len(mail) : mail[k].to # p
                /\ \A k \in 1..Len(work) : work[k].to # p
                /\ inbox[p] = <<>>
OnlyTo(p, x) ==
  /\ \A k \in 1..Len(mail) : mail[k].to = p =>
       /\ mail[k].line = x /\ inbox[p] = <<>>
       /\ \A l \in 1..Len(mail) : mail[l].to = p => l = k
       /\ \A l \in 1..Len(work) : work[l].to # p
  /\ \A k \in 1..Len(work) : work[k].to = p =>
       work[k].line = x /\ inbox[p] = <<>>
  /\ inbox[p] = <<>> \/ inbox[p] = <<x>>

\* A user who types has the answers to all its lines; one who waits lacks that
\* to the last, and nothing else can come.
Told(u) ==
  /\ \A k \in 1..Len(answers[u]) : answers[u][k] = <<u, k>>
  /\ at[u] = "type" =>
       /\ Len(answers[u]) = typed[u]
       /\ port[u] # NoPort => NothingTo(port[u])
  /\ at[u] = "wait" =>
       /\ Len(answers[u]) + 1 = typed[u]
       /\ OnlyTo(port[u], <<u, typed[u]>>)

DgramInv == DgramTyped /\ PortsOwn /\ \A u \in UdpClients \ heirs : Told(u)

\* Nobody has sent anything.
LEMMA DgramInit == ASSUME Init PROVE DgramInv
<1>1. /\ at = [u \in UdpClients |-> "type"]
      /\ port = [u \in UdpClients |-> NoPort]
      /\ typed = [u \in UdpClients |-> 0] /\ inbox = [p \in Ports |-> <<>>]
      /\ mail = <<>> /\ work = <<>>
      /\ answers = [u \in UdpClients |-> <<>>]
  BY DEF Init, D!Init
<1> QED BY <1>1 DEF DgramInv, DgramTyped, PortsOwn, Told

\* A user hears what is under way to its port and is for it.
LEMMA RecvfromStep ==
  ASSUME DgramInv, NEW u \in UdpClients, D!Recvfrom(u)
  PROVE  DgramInv'
<1>0. DgramTyped /\ PortsOwn
  BY DEF DgramInv
<1>1. PICK p \in Ports : p = port[u]
  BY <1>0 DEF D!Recvfrom, DgramTyped, PortsOwn
<1>2. PICK x \in Line : x = Head(inbox[p])
  BY <1>0, <1>1 DEF D!Recvfrom, DgramTyped
<1>3. /\ at[u] = "wait" /\ at' = [at EXCEPT ![u] = "type"]
      /\ inbox[p] # <<>> /\ inbox' = [inbox EXCEPT ![p] = Tail(@)]
      /\ answers' = [answers EXCEPT ![u] = Append(@, x)]
      /\ UNCHANGED <<port, typed, heirs, mail, work>>
  BY <1>1, <1>2 DEF D!Recvfrom, D!serverVars
<1>4. /\ at'[u] = "type" /\ answers'[u] = Append(answers[u], x)
      /\ inbox'[p] = Tail(inbox[p])
      /\ \A v \in UdpClients : v # u =>
           at'[v] = at[v] /\ answers'[v] = answers[v]
      /\ \A q \in Ports : q # p => inbox'[q] = inbox[q]
  BY <1>0, <1>3 DEF DgramTyped
<1>5. DgramTyped'
  <2>1. Tail(inbox[p]) \in Seq(Line) /\ Append(answers[u], x) \in Seq(Line)
    BY <1>0, <1>2, <1>3 DEF DgramTyped
  <2> QED BY <1>0, <1>3, <2>1 DEF DgramTyped
<1>6. PortsOwn'
  <2>1. \A q \in Ports : (\A v \in UdpClients : port[v] # q) => q # p
    BY <1>1
  <2> QED BY <1>0, <1>1, <1>3, <1>4, <2>1 DEF PortsOwn
<1>7. ASSUME NEW q \in Ports, q # p
      PROVE  /\ NothingTo(q) => NothingTo(q)'
             /\ \A y : OnlyTo(q, y) => OnlyTo(q, y)'
  BY <1>3, <1>4, <1>7 DEF NothingTo, OnlyTo
<1>8. ASSUME NEW v \in UdpClients \ heirs PROVE Told(v)'
  <2>1. Told(v)
    BY <1>8 DEF DgramInv
  <2>2. CASE v = u
    <3>1. PICK y : y = <<u, typed[u]>>
      OBVIOUS
    <3>2. OnlyTo(p, y) /\ Len(answers[u]) + 1 = typed[u]
      BY <1>1, <1>3, <2>1, <2>2, <3>1 DEF Told
    <3>3. inbox[p] = <<y>>
      BY <1>3, <3>2 DEF OnlyTo
    <3>4. x = y /\ Tail(inbox[p]) = <<>>
      BY <1>2, <3>3
    <3>5. NothingTo(p)'
      BY <1>3, <1>4, <3>2, <3>4 DEF NothingTo, OnlyTo
    <3>6. answers[u] \in Seq(Line)
      BY <1>0 DEF DgramTyped
    <3>7. /\ Len(answers'[u]) = typed[u]
          /\ \A k \in 1..Len(answers'[u]) : answers'[u][k] = <<u, k>>
      BY <1>4, <2>1, <2>2, <3>1, <3>2, <3>4, <3>6 DEF Told
    <3> QED BY <1>1, <1>3, <1>4, <2>2, <3>5, <3>7 DEF Told
  <2>3. CASE v # u
    <3>1. /\ UNCHANGED <<port, typed>> /\ at'[v] = at[v]
          /\ answers'[v] = answers[v]
      BY <1>3, <1>4, <2>3
    <3>2. PICK q : q = port[v]
      OBVIOUS
    <3>3. PICK y : y = <<v, typed[v]>>
      OBVIOUS
    <3>4. q # p
      BY <1>0, <1>1, <1>3, <2>3, <3>2 DEF PortsOwn
    <3>5. at[v] = "type" /\ q # NoPort => NothingTo(q)'
      BY <1>0, <1>7, <2>1, <3>2, <3>4 DEF Told, DgramTyped
    <3>6. at[v] = "wait" => OnlyTo(q, y)'
      BY <1>0, <1>7, <2>1, <3>2, <3>3, <3>4 DEF Told, DgramTyped, PortsOwn
    <3> QED BY <2>1, <3>1, <3>2, <3>3, <3>5, <3>6 DEF Told
  <2> QED BY <2>2, <2>3
<1> QED BY <1>3, <1>5, <1>6, <1>8 DEF DgramInv

\* A datagram from u on its port, which had nothing for it.
LEMMA SendtoStep ==
  ASSUME DgramInv, NEW u \in UdpClients, D!Sendto(u)
  PROVE  DgramInv'
<1>0. DgramTyped /\ PortsOwn /\ NoPort \notin Ports
  BY ProgramsAssumption DEF DgramInv, D!DatagramsAssumption
<1>1. PICK p \in Ports :
        /\ port' = [port EXCEPT ![u] = p]
        /\ port[u] = p \/ (port[u] = NoPort /\ p \notin D!InUse)
  BY <1>0 DEF D!Sendto, DgramTyped, PortsOwn
<1>2. /\ at[u] = "type" /\ at' = [at EXCEPT ![u] = "wait"]
      /\ typed' = [typed EXCEPT ![u] = @ + 1]
      /\ UNCHANGED <<inbox, work, answers>> /\ heirs \subseteq heirs'
  BY DEF D!Sendto
<1>3. port'[u] = p /\ typed'[u] = typed[u] + 1 /\ at'[u] = "wait"
  BY <1>0, <1>1, <1>2 DEF DgramTyped
<1>4. \A v \in UdpClients : v # u =>
        port'[v] = port[v] /\ typed'[v] = typed[v] /\ at'[v] = at[v]
  BY <1>0, <1>1, <1>2 DEF DgramTyped
<1>5. \A v \in UdpClients : v # u => port[v] # p
  BY <1>0, <1>1 DEF D!InUse, PortsOwn
<1>6. PICK x : x = <<u, typed[u] + 1>>
  OBVIOUS
<1>7. PICK d \in Datagram : d.to = p /\ d.line = x
  <2>1. x \in Line
    BY <1>0, <1>6 DEF Line, DgramTyped
  <2>2. [to |-> p, line |-> x] \in Datagram
    BY <2>1 DEF Datagram
  <2> QED BY <2>2
<1>8. /\ mail \in Seq(Datagram)
      /\ mail' = Append(mail, d) \/ mail' = mail
  <2>1. d = [to |-> p, line |-> x]
    BY <1>7 DEF Datagram
  <2> QED BY <1>0, <1>3, <1>6, <2>1 DEF D!Sendto, DgramTyped
<1>9. /\ mail' \in Seq(Datagram) /\ Len(mail) \in Nat
      /\ \A k \in 1..Len(mail') :
           \/ k \in 1..Len(mail) /\ mail'[k] = mail[k]
           \/ k = Len(mail) + 1 /\ mail'[k] = d
  BY <1>8
<1>10. DgramTyped'
  BY <1>0, <1>1, <1>2, <1>9 DEF DgramTyped
<1>11. PortsOwn'
  BY <1>0, <1>1, <1>2, <1>3, <1>4, <1>5 DEF PortsOwn
<1>12. ASSUME NEW q \in Ports, q # p
       PROVE  /\ NothingTo(q) => NothingTo(q)'
              /\ \A y : OnlyTo(q, y) => OnlyTo(q, y)'
  BY <1>2, <1>7, <1>9, <1>12 DEF NothingTo, OnlyTo
<1>13. ASSUME NothingTo(p) PROVE OnlyTo(p, x)'
  BY <1>2, <1>7, <1>9, <1>13 DEF NothingTo, OnlyTo
<1>14. ASSUME u \notin heirs', port[u] = NoPort PROVE NothingTo(p)
  <2>1. inbox[p] = <<>>
    BY <1>0, <1>1, <1>14 DEF PortsOwn, D!InUse
  <2>2. p \notin D!UnderWay
    BY <1>0, <1>1, <1>3, <1>14 DEF D!Sendto
  <2> DEFINE both == mail \o work
  <2>3. work \in Seq(Datagram)
    <3>1. CASE work = <<>>
      BY <3>1
    <3>2. ASSUME NEW e \in Datagram, work = <<e>> PROVE work \in Seq(Datagram)
      BY <3>2
    <3> QED BY <1>0, <3>1, <3>2 DEF DgramTyped
  <2>4. /\ DOMAIN both = 1..Len(mail) + Len(work)
        /\ \A k \in 1..Len(mail) + Len(work) :
             both[k] = IF k <= Len(mail) THEN mail[k] ELSE work[k - Len(mail)]
    BY <1>8, <2>3, ConcatProperties
  <2>5. \A k \in DOMAIN both : both[k].to # p
    BY <2>2 DEF D!UnderWay
  <2> HIDE DEF both
  <2>6. Len(mail) \in Nat /\ Len(work) \in Nat
    BY <1>8, <2>3
  <2>7. ASSUME NEW k \in 1..Len(mail) PROVE mail[k].to # p
    <3>1. k \in 1..Len(mail) + Len(work) /\ k <= Len(mail)
      BY <2>6
    <3> QED BY <2>4, <2>5, <3>1
  <2>8. ASSUME NEW k \in 1..Len(work) PROVE work[k].to # p
    <3>1. /\ Len(mail) + k \in 1..Len(mail) + Len(work)
          /\ ~(Len(mail) + k <= Len(mail)) /\ Len(mail) + k - Len(mail) = k
      BY <2>6
    <3> QED BY <2>4, <2>5, <3>1
  <2> QED BY <2>1, <2>7, <2>8 DEF NothingTo
<1>15. ASSUME NEW v \in UdpClients \ heirs' PROVE Told(v)'
  <2>1. Told(v)
    BY <1>2, <1>15 DEF DgramInv
  <2>2. CASE v = u
    <3>1. NothingTo(p)
      BY <1>1, <1>2, <1>14, <2>1, <2>2 DEF Told
    <3>2. Len(answers[u]) + 1 = typed'[u] /\ answers' = answers
      BY <1>2, <1>3, <2>1, <2>2 DEF Told
    <3>3. OnlyTo(p, <<u, typed[u]>>)'
      BY <1>3, <1>6, <1>13, <3>1
    <3> QED BY <1>2, <1>3, <2>1, <2>2, <3>2, <3>3 DEF Told
  <2>3. CASE v # u
    <3>1. /\ port'[v] = port[v] /\ typed'[v] = typed[v] /\ at'[v] = at[v]
          /\ answers' = answers /\ port[v] # p
      BY <1>2, <1>4, <1>5, <2>3
    <3>2. PICK q : q = port[v]
      OBVIOUS
    <3>3. PICK y : y = <<v, typed[v]>>
      OBVIOUS
    <3>4. at[v] = "type" /\ q # NoPort => NothingTo(q)'
      BY <1>0, <1>12, <2>1, <3>1, <3>2 DEF Told, DgramTyped
    <3>5. at[v] = "wait" => OnlyTo(q, y)'
      BY <1>0, <1>12, <2>1, <3>1, <3>2, <3>3 DEF Told, DgramTyped, PortsOwn
    <3> QED BY <2>1, <3>1, <3>2, <3>3, <3>4, <3>5 DEF Told
  <2> QED BY <2>2, <2>3
<1> QED BY <1>10, <1>11, <1>15 DEF DgramInv

\* A user that ends leaves nothing behind at its port.
LEMMA CloseStep ==
  ASSUME DgramInv, NEW u \in UdpClients, D!Close(u)
  PROVE  DgramInv'
<1>0. DgramTyped /\ PortsOwn /\ NoPort \notin Ports
  BY ProgramsAssumption DEF DgramInv, D!DatagramsAssumption
<1>1. /\ at' = [at EXCEPT ![u] = "ended"]
      /\ port' = [port EXCEPT ![u] = NoPort]
      /\ inbox' = [p \in Ports |-> IF p = port[u] THEN <<>> ELSE inbox[p]]
      /\ UNCHANGED <<typed, answers, heirs, mail, work>>
  BY DEF D!Close, D!serverVars
<1>2. /\ at'[u] = "ended" /\ port'[u] = NoPort
      /\ \A v \in UdpClients : v # u => at'[v] = at[v] /\ port'[v] = port[v]
      /\ \A q \in Ports : q # port[u] => inbox'[q] = inbox[q]
  BY <1>0, <1>1 DEF DgramTyped
<1>3. DgramTyped'
  BY <1>0, <1>1 DEF DgramTyped
<1>4. PortsOwn'
  BY <1>0, <1>1, <1>2 DEF PortsOwn
<1>5. ASSUME NEW v \in UdpClients \ heirs PROVE Told(v)'
  <2>1. Told(v)
    BY <1>5 DEF DgramInv
  <2>2. CASE v = u
    BY <1>1, <1>2, <2>1, <2>2 DEF Told
  <2>3. CASE v # u
    <3>1. /\ at'[v] = at[v] /\ port'[v] = port[v]
          /\ UNCHANGED <<typed, answers, mail, work>>
      BY <1>1, <1>2, <2>3
    <3>2. port[v] \in Ports => inbox'[port[v]] = inbox[port[v]]
      BY <1>0, <1>2, <2>3 DEF PortsOwn
    <3>3. at[v] = "type" /\ port[v] # NoPort => NothingTo(port[v])'
      BY <1>0, <2>1, <3>1, <3>2 DEF Told, NothingTo, DgramTyped
    <3>4. at[v] = "wait" => OnlyTo(port[v], <<v, typed[v]>>)'
      BY <1>0, <2>1, <3>1, <3>2 DEF Told, OnlyTo, DgramTyped, PortsOwn
    <3> QED BY <2>1, <3>1, <3>3, <3>4 DEF Told
  <2> QED BY <2>2, <2>3
<1> QED BY <1>1, <1>3, <1>4, <1>5 DEF DgramInv

\* A step of the server that leaves the users alone, and does not bring to a
\* port what was not under way to it.
LEMMA ServerMoves ==
  ASSUME DgramInv, UNCHANGED <<at, port, typed, answers, heirs>>, DgramTyped',
         \A p \in Ports : (\A u \in UdpClients : port[u] # p) =>
                            inbox'[p] = inbox[p],
         \A p \in Ports : NothingTo(p) => NothingTo(p)',
         \A p \in Ports : \A x : OnlyTo(p, x) => OnlyTo(p, x)'
  PROVE  DgramInv'
<1>0. DgramTyped /\ PortsOwn
  BY DEF DgramInv
<1>1. PortsOwn'
  BY <1>0 DEF PortsOwn
<1>2. ASSUME NEW u \in UdpClients \ heirs PROVE Told(u)'
  <2>1. Told(u)
    BY <1>2 DEF DgramInv
  <2>2. at[u] = "type" /\ port[u] # NoPort => NothingTo(port[u])'
    BY <1>0, <2>1 DEF Told, DgramTyped
  <2>3. at[u] = "wait" => OnlyTo(port[u], <<u, typed[u]>>)'
    <3>1. PICK y : y = <<u, typed[u]>>
      OBVIOUS
    <3>2. PICK p : p = port[u]
      OBVIOUS
    <3>3. at[u] = "wait" => OnlyTo(p, y)'
      BY <1>0, <2>1, <3>1, <3>2 DEF Told, DgramTyped, PortsOwn
    <3> QED BY <3>1, <3>2, <3>3
  <2> QED BY <2>1, <2>2, <2>3 DEF Told
<1> QED BY <1>1, <1>2 DEF DgramInv

\* The server takes the first datagram from its queue.
LEMMA ReceiveStep == ASSUME DgramInv, D!Receive PROVE DgramInv'
<1>1. /\ work = <<>> /\ mail # <<>> /\ work' = <<Head(mail)>>
      /\ mail' = Tail(mail) /\ inbox' = inbox
      /\ UNCHANGED <<at, port, typed, answers, heirs>>
  BY DEF D!Receive, D!userVars
<1>2. /\ mail \in Seq(Datagram) /\ Head(mail) \in Datagram
      /\ Head(mail) = mail[1] /\ mail' \in Seq(Datagram)
      /\ Len(mail) \in Nat /\ Len(mail) > 0 /\ Len(mail') = Len(mail) - 1
      /\ \A k \in 1..Len(mail) - 1 : mail'[k] = mail[k + 1]
  BY <1>1 DEF DgramInv, DgramTyped
<1>3. Len(work) = 0 /\ Len(work') = 1 /\ work'[1] = mail[1]
  BY <1>1, <1>2
<1>4. DgramTyped'
  BY <1>1, <1>2 DEF DgramInv, DgramTyped
<1>5. /\ \A k \in 1..Len(mail') : k + 1 \in 1..Len(mail)
      /\ \A k \in 1..Len(mail') : k + 1 # 1
      /\ \A k, l \in 1..Len(mail') : k + 1 = l + 1 => k = l
      /\ 1 \in 1..Len(mail) /\ \A k \in 1..Len(work') : k = 1
  BY <1>2, <1>3
<1>6. ASSUME NEW p \in Ports, NothingTo(p) PROVE NothingTo(p)'
  BY <1>1, <1>2, <1>3, <1>5, <1>6 DEF NothingTo
<1>7. ASSUME NEW p \in Ports, NEW x, OnlyTo(p, x) PROVE OnlyTo(p, x)'
  <2>1. ASSUME NEW k \in 1..Len(mail'), mail'[k].to = p
        PROVE  /\ mail'[k].line = x /\ inbox'[p] = <<>>
               /\ \A l \in 1..Len(mail') : mail'[l].to = p => l = k
               /\ \A l \in 1..Len(work') : work'[l].to # p
    <3>1. mail[k + 1].to = p /\ k + 1 \in 1..Len(mail)
      BY <1>2, <1>5, <2>1
    <3>2. /\ mail[k + 1].line = x /\ inbox[p] = <<>>
          /\ \A l \in 1..Len(mail) : mail[l].to = p => l = k + 1
      BY <1>7, <3>1 DEF OnlyTo
    <3>3. mail[1].to # p
      BY <1>5, <3>2
    <3>4. \A l \in 1..Len(mail') : mail'[l].to = p => l = k
      BY <1>2, <1>5, <3>2
    <3>5. \A l \in 1..Len(work') : work'[l].to # p
      BY <1>3, <1>5, <3>3
    <3> QED BY <1>1, <1>2, <3>2, <3>4, <3>5
  <2>2. ASSUME NEW k \in 1..Len(work'), work'[k].to = p
        PROVE  work'[k].line = x /\ inbox'[p] = <<>>
    BY <1>1, <1>3, <1>5, <1>7, <2>2 DEF OnlyTo
  <2>3. inbox'[p] = <<>> \/ inbox'[p] = <<x>>
    BY <1>1, <1>7 DEF OnlyTo
  <2> QED BY <2>1, <2>2, <2>3 DEF OnlyTo
<1> QED BY <1>1, <1>4, <1>6, <1>7, ServerMoves

\* The server answers; who has no port gets nothing.
LEMMA AnswerStep == ASSUME DgramInv, D!Answer PROVE DgramInv'
<1>0. DgramTyped /\ PortsOwn
  BY DEF DgramInv
<1>1. PICK d \in Datagram : work = <<d>>
  BY <1>0 DEF D!Answer, DgramTyped
<1>2. /\ work' = <<>> /\ UNCHANGED <<mail, at, port, typed, answers, heirs>>
      /\ inbox' = IF d.to \in D!InUse
                  THEN [inbox EXCEPT ![d.to] = Append(@, d.line)] ELSE inbox
  BY <1>1 DEF D!Answer, D!userVars
<1>3. d.to \in Ports /\ d.line \in Line
  BY DEF Datagram
<1>4. /\ Len(work) = 1 /\ work[1] = d /\ Len(work') = 0
      /\ inbox'[d.to] \in {inbox[d.to], Append(inbox[d.to], d.line)}
      /\ \A p \in Ports : p # d.to => inbox'[p] = inbox[p]
  BY <1>0, <1>1, <1>2, <1>3 DEF DgramTyped
<1>5. DgramTyped'
  <2>1. Append(inbox[d.to], d.line) \in Seq(Line)
    BY <1>0, <1>3 DEF DgramTyped
  <2> QED BY <1>0, <1>2, <1>3, <2>1 DEF DgramTyped
<1>6. ASSUME NEW p \in Ports, \A u \in UdpClients : port[u] # p
      PROVE  inbox'[p] = inbox[p]
  BY <1>2, <1>4, <1>6 DEF D!InUse
<1>7. ASSUME NEW p \in Ports, NothingTo(p) PROVE NothingTo(p)'
  <2>1. p # d.to
    BY <1>4, <1>7 DEF NothingTo
  <2> QED BY <1>2, <1>4, <1>7, <2>1 DEF NothingTo
<1>8. ASSUME NEW p \in Ports, NEW x, OnlyTo(p, x) PROVE OnlyTo(p, x)'
  <2>1. CASE p # d.to
    BY <1>2, <1>4, <1>8, <2>1 DEF OnlyTo
  <2>2. CASE p = d.to
    <3>1. /\ d.line = x /\ inbox[p] = <<>>
          /\ \A k \in 1..Len(mail) : mail[k].to # p
      BY <1>4, <1>8, <2>2 DEF OnlyTo
    <3>2. inbox'[p] = <<>> \/ inbox'[p] = <<x>>
      BY <1>4, <2>2, <3>1
    <3> QED BY <1>2, <1>4, <3>1, <3>2 DEF OnlyTo
  <2> QED BY <2>1, <2>2
<1> QED BY <1>2, <1>5, <1>6, <1>7, <1>8, ServerMoves

\* No step of a user or the server breaks it.
LEMMA DgramStep == ASSUME DgramInv, DgramRun PROVE DgramInv'
<1>1. CASE UNCHANGED dgramVars
  <2>1. UNCHANGED <<at, port, typed, inbox, mail, work, answers, heirs>>
    BY <1>1 DEF dgramVars
  <2> QED BY <2>1 DEF DgramInv, DgramTyped, PortsOwn, Told, NothingTo, OnlyTo
<1>2. CASE D!Bind
  <2>1. UNCHANGED <<at, port, typed, inbox, mail, work, answers, heirs>>
    BY <1>2 DEF D!Bind, D!userVars
  <2> QED BY <2>1 DEF DgramInv, DgramTyped, PortsOwn, Told, NothingTo, OnlyTo
<1> QED BY <1>1, <1>2, ReceiveStep, AnswerStep, SendtoStep, RecvfromStep,
           CloseStep DEF DgramRun, D!Next, D!Server

\* Who is not told what was meant for another is told each answer once.
LEMMA DgramAnswers == ASSUME DgramInv PROVE D!AnswersOwn
<1> SUFFICES ASSUME NEW u \in UdpClients \ heirs
             PROVE  answers[u] = [k \in 1..Len(answers[u]) |-> <<u, k>>]
  BY DEF D!AnswersOwn
<1>1. answers[u] \in Seq(Line)
  BY DEF DgramInv, DgramTyped
<1>2. \A k \in 1..Len(answers[u]) : answers[u][k] = <<u, k>>
  BY DEF DgramInv, Told
<1>3. /\ Len(answers[u]) \in Nat
      /\ answers[u] \in [1..Len(answers[u]) -> Line]
  BY <1>1, LenProperties
<1> QED BY <1>2, <1>3

-----------------------------------------------------------------------------
(* All of them *)

\* EchoWhole, a client gets back what it sent and nothing else, in order and
\* nothing twice, of the servers with a table, of those that fork and of the
\* datagram server, for any clients, departures, buffers and descriptors.
THEOREM EachEchoed == Spec => []EchoWhole
<1> DEFINE Inv == /\ TableInv /\ TableData
                  /\ ForkInv /\ ForkData
                  /\ DgramInv
<1>1. Init => Inv
  BY TableInit, TableDataInit, ForkInit, ForkDataInit, DgramInit
<1>2. Inv /\ [Next]_vars => Inv'
  <2> SUFFICES ASSUME Inv, [Next]_vars PROVE Inv'
    OBVIOUS
  <2>1. TableRun /\ ForkRun /\ DgramRun
    BY TableSteps, ForkSteps, DgramSteps
  <2>2. TableInv' /\ TableData'
    BY <2>1, TableStep, TableDataStep
  <2>3. ForkInv' /\ ForkData'
    BY <2>1, ForkStep, ForkDataStep
  <2>4. DgramInv'
    BY <2>1, DgramStep
  <2> QED BY <2>2, <2>3, <2>4
<1>3. Inv => EchoWhole
  BY TableEchoes, ForkEchoes, DgramAnswers DEF EchoWhole
<1> QED BY <1>1, <1>2, <1>3, PTL DEF Spec

-----------------------------------------------------------------------------
(* Types of the datagram server and its users *)

Letter == [to : Ports, line : D!Answers]
WorkTyped == work = <<>> \/ \E d \in Letter : work = <<d>>

LEMMA DgramTypesInit == ASSUME Init PROVE D!TypeOK /\ WorkTyped
<1>1. D!Init /\ Lines \in Nat /\ Room \in Nat
  BY ProgramsAssumption DEF Init, D!DatagramsAssumption
<1>2. /\ <<>> \in Seq(D!Answers) /\ <<>> \in Seq(Letter) /\ Len(<<>>) = 0
  OBVIOUS
<1>3. [p \in Ports |-> <<>>] \in [Ports -> Seq(D!Answers)]
  BY <1>2
<1>4. [u \in UdpClients |-> <<>>] \in [UdpClients -> Seq(D!Answers)]
  BY <1>2
<1>5. WorkTyped
  BY <1>1 DEF D!Init, WorkTyped
<1>6. /\ at \in [UdpClients -> {"type", "wait", "ended"}]
      /\ port \in [UdpClients -> Ports \union {NoPort}]
      /\ typed \in [UdpClients -> 0..Lines] /\ bound \in BOOLEAN
      /\ lost \subseteq UdpClients /\ heirs \subseteq UdpClients
  <2>1. 0 \in 0..Lines
    BY <1>1
  <2>2. /\ at = [u \in UdpClients |-> "type"]
        /\ port = [u \in UdpClients |-> NoPort]
        /\ typed = [u \in UdpClients |-> 0]
        /\ bound = FALSE /\ lost = {} /\ heirs = {}
    BY <1>1 DEF D!Init
  <2> QED BY <2>1, <2>2
<1>7. mail = <<>> /\ work = <<>> /\ Len(work) <= 1 /\ Len(mail) <= Room
  BY <1>1, <1>2 DEF D!Init
<1> QED BY <1>1, <1>2, <1>3, <1>4, <1>5, <1>6, <1>7
        DEF D!Init, D!TypeOK, Letter

\* A step of a user or of the server keeps the types: a line is sent only when
\* there is one left to type, and queued only when there is room.
LEMMA DgramTypesStep ==
  ASSUME DgramInv, D!TypeOK, WorkTyped, DgramRun
  PROVE  D!TypeOK' /\ WorkTyped'
<1>g. Lines \in Nat /\ Room \in Nat
  BY ProgramsAssumption DEF D!DatagramsAssumption
<1> DEFINE Answer == D!Answers
<1>t. /\ at \in [UdpClients -> {"type", "wait", "ended"}]
      /\ port \in [UdpClients -> Ports \union {NoPort}]
      /\ typed \in [UdpClients -> 0..Lines]
      /\ inbox \in [Ports -> Seq(Answer)] /\ bound \in BOOLEAN
      /\ mail \in Seq(Letter) /\ Len(mail) <= Room
      /\ lost \subseteq UdpClients /\ heirs \subseteq UdpClients
      /\ answers \in [UdpClients -> Seq(Answer)]
  BY DEF D!TypeOK, Letter
<1>w. ASSUME WorkTyped' PROVE Len(work') <= 1
  <2>1. CASE work' = <<>>
    BY <2>1
  <2>2. ASSUME NEW d, work' = <<d>> PROVE Len(work') <= 1
    BY <2>2
  <2> QED BY <1>w, <2>1, <2>2 DEF WorkTyped
<1>1. CASE UNCHANGED dgramVars
  BY <1>1 DEF dgramVars, D!TypeOK, WorkTyped
<1>2. CASE D!Bind
  BY <1>2 DEF D!Bind, D!userVars, D!TypeOK, WorkTyped
<1>3. CASE D!Receive
  <2>1. /\ mail # <<>> /\ work' = <<Head(mail)>> /\ mail' = Tail(mail)
        /\ UNCHANGED <<at, port, typed, inbox, bound, lost, heirs, answers>>
    BY <1>3 DEF D!Receive, D!userVars
  <2>2. /\ Head(mail) \in Letter /\ Tail(mail) \in Seq(Letter)
        /\ Len(Tail(mail)) <= Room
    <3>1. Len(Tail(mail)) = Len(mail) - 1 /\ Len(mail) \in Nat
      BY <1>t, <2>1
    <3> QED BY <1>g, <1>t, <2>1, <3>1
  <2>3. WorkTyped'
    BY <2>1, <2>2 DEF WorkTyped
  <2> QED BY <1>t, <1>w, <2>1, <2>2, <2>3 DEF D!TypeOK, Letter
<1>4. CASE D!Answer
  <2>1. /\ work # <<>> /\ work' = <<>>
        /\ inbox' = inbox \/
             (Head(work).to \in D!InUse /\
              inbox' = [inbox EXCEPT ![Head(work).to] =
                          Append(@, Head(work).line)])
        /\ UNCHANGED <<at, port, typed, bound, mail, lost, heirs, answers>>
    BY <1>4 DEF D!Answer, D!userVars
  <2>2. PICK d \in Letter : work = <<d>>
    BY <2>1 DEF WorkTyped
  <2>3. Head(work) = d /\ d.to \in Ports /\ d.line \in Answer
    BY <2>2 DEF Letter
  <2>4. Append(inbox[d.to], d.line) \in Seq(Answer)
    BY <1>t, <2>3
  <2>5. inbox' \in [Ports -> Seq(Answer)]
    BY <1>t, <2>1, <2>3, <2>4
  <2>6. WorkTyped'
    BY <2>1 DEF WorkTyped
  <2> QED BY <1>t, <1>w, <2>1, <2>5, <2>6 DEF D!TypeOK, Letter
<1>5. ASSUME NEW u \in UdpClients, D!Sendto(u)
      PROVE  D!TypeOK' /\ WorkTyped'
  <2>1. /\ at[u] = "type" /\ typed[u] < Lines
        /\ \E p \in Ports \union {port[u]} : port' = [port EXCEPT ![u] = p]
        /\ port[u] = NoPort => port'[u] \in Ports
        /\ heirs' \subseteq heirs \union {u} /\ lost' \subseteq lost \union {u}
        /\ typed' = [typed EXCEPT ![u] = @ + 1]
        /\ at' = [at EXCEPT ![u] = "wait"]
        /\ \/ mail' = mail
           \/ /\ Len(mail) < Room
              /\ mail' = Append(mail,
                           [to |-> port'[u], line |-> <<u, typed'[u]>>])
        /\ UNCHANGED <<inbox, bound, work, answers>>
    <3>1. port \in [UdpClients -> Ports \union {NoPort}]
      BY <1>t
    <3> QED BY <1>5, <3>1 DEF D!Sendto
  <2>2. /\ typed' \in [UdpClients -> 0..Lines] /\ typed'[u] \in 1..Lines
        /\ at' \in [UdpClients -> {"type", "wait", "ended"}]
        /\ port' \in [UdpClients -> Ports \union {NoPort}] /\ port'[u] \in Ports
    BY <1>g, <1>t, <2>1
  <2>3. [to |-> port'[u], line |-> <<u, typed'[u]>>] \in Letter
    BY <2>2 DEF Letter, D!Answers
  <2>4. mail' \in Seq(Letter) /\ Len(mail') <= Room
    <3>1. \A d \in Letter : /\ Append(mail, d) \in Seq(Letter)
                            /\ Len(Append(mail, d)) = Len(mail) + 1
      BY <1>t
    <3>2. Len(mail) \in Nat /\ (Len(mail) < Room => Len(mail) + 1 <= Room)
      BY <1>g, <1>t
    <3> QED BY <1>t, <2>1, <2>3, <3>1, <3>2
  <2>5. WorkTyped'
    BY <2>1 DEF WorkTyped
  <2> QED BY <1>t, <1>w, <2>1, <2>2, <2>4, <2>5 DEF D!TypeOK, Letter
<1>6. ASSUME NEW u \in UdpClients, D!Recvfrom(u)
      PROVE  D!TypeOK' /\ WorkTyped'
  <2>1. /\ at[u] = "wait" /\ inbox[port[u]] # <<>>
        /\ answers' = [answers EXCEPT ![u] = Append(@, Head(inbox[port[u]]))]
        /\ inbox' = [inbox EXCEPT ![port[u]] = Tail(@)]
        /\ at' = [at EXCEPT ![u] = "type"]
        /\ UNCHANGED <<port, typed, lost, heirs, bound, mail, work>>
    BY <1>6 DEF D!Recvfrom, D!serverVars
  <2>2. port[u] \in Ports
    BY <1>t, <2>1 DEF DgramInv, PortsOwn
  <2>3. /\ Head(inbox[port[u]]) \in Answer
        /\ Tail(inbox[port[u]]) \in Seq(Answer)
    BY <1>t, <2>1, <2>2
  <2>4. Append(answers[u], Head(inbox[port[u]])) \in Seq(Answer)
    BY <1>t, <2>3
  <2>5. /\ inbox' \in [Ports -> Seq(Answer)]
        /\ answers' \in [UdpClients -> Seq(Answer)]
        /\ at' \in [UdpClients -> {"type", "wait", "ended"}]
    BY <1>t, <2>1, <2>3, <2>4
  <2>6. WorkTyped'
    BY <2>1 DEF WorkTyped
  <2> QED BY <1>t, <1>w, <2>1, <2>5, <2>6 DEF D!TypeOK, Letter
<1>7. ASSUME NEW u \in UdpClients, D!Close(u)
      PROVE  D!TypeOK' /\ WorkTyped'
  <2>1. /\ at' = [at EXCEPT ![u] = "ended"]
        /\ port' = [port EXCEPT ![u] = NoPort]
        /\ inbox' = [p \in Ports |-> IF p = port[u] THEN <<>> ELSE inbox[p]]
        /\ UNCHANGED <<typed, answers, lost, heirs, bound, mail, work>>
    BY <1>7 DEF D!Close, D!serverVars
  <2>2. <<>> \in Seq(Answer)
    OBVIOUS
  <2>3. inbox' \in [Ports -> Seq(Answer)]
    BY <1>t, <2>1, <2>2
  <2>4. WorkTyped'
    BY <2>1 DEF WorkTyped
  <2> QED BY <1>t, <1>w, <2>1, <2>3, <2>4 DEF D!TypeOK, Letter
<1> QED BY <1>1, <1>2, <1>3, <1>4, <1>5, <1>6, <1>7
        DEF DgramRun, D!Next, D!Server


-----------------------------------------------------------------------------
(* Types of the servers with a table *)

LEMMA TableReadTyped ==
  ASSUME T!SocketTypeOK, NEW c \in Clients, T!ReadEffect(c)
  PROVE  /\ tableInput' \in [Clients -> UnitSeqs]
         /\ tablePeer' \in [Clients -> {"up", "shut", "closed", "broken",
                                        "reset", "gone"}]
         /\ SubSeq(tableInput[c], 1, T!Taken(c)) \in UnitSeqs
<1>1. tableInput[c] \in UnitSeqs
  BY DEF T!SocketTypeOK, UnitSeqs
<1>2. T!Taken(c) \in 0..Len(tableInput[c])
  BY <1>1, ProgramsAssumption
     DEF T!Taken, T!SocketAssumption, UnitSeqs
<1>3. /\ SubSeq(tableInput[c], 1, T!Taken(c)) \in UnitSeqs
      /\ SubSeq(tableInput[c], T!Taken(c) + 1, Len(tableInput[c])) \in UnitSeqs
  BY <1>1, <1>2, PartsTyped
<1> QED BY <1>3 DEF T!ReadEffect, T!SocketTypeOK, UnitSeqs

LEMMA TableWriteTyped ==
  ASSUME T!SocketTypeOK, NEW c \in Clients, NEW data \in UnitSeqs,
         T!WriteEffect(c, data)
  PROVE  /\ tableEcho' \in [Clients -> UnitSeqs]
         /\ tablePeer' \in [Clients -> {"up", "shut", "closed", "broken",
                                        "reset", "gone"}]
<1>1. tableEcho[c] \o data \in UnitSeqs
  BY DEF T!SocketTypeOK, UnitSeqs
<1> QED BY <1>1 DEF T!WriteEffect, T!SocketTypeOK, UnitSeqs

LEMMA TableClientTyped ==
  ASSUME T!SocketTypeOK, NEW c \in Clients,
         T!Connect(c) \/ T!Send(c) \/ T!Finish(c) \/ T!Leave(c)
  PROVE  T!SocketTypeOK'
<1>1. CASE T!Connect(c)
  BY <1>1 DEF T!Connect, T!SocketTypeOK
<1>2. CASE T!Send(c)
  <2>1. /\ tableSent[c] < Units[c] /\ Units \in [Clients -> Nat]
        /\ tableSent' = [tableSent EXCEPT ![c] = @ + 1]
        /\ tableInput' = [tableInput EXCEPT ![c] =
                            Append(@, <<c, tableSent'[c]>>)]
        /\ UNCHANGED <<tableConn, tablePeer, tableEcho>>
    BY <1>2, ProgramsAssumption DEF T!Send, T!SocketAssumption
  <2>2. /\ tableSent' \in [Clients -> Nat] /\ tableSent'[c] \in Nat
        /\ \A d \in Clients : tableSent'[d] <= Units[d]
    BY <2>1 DEF T!SocketTypeOK
  <2>3. Append(tableInput[c], <<c, tableSent'[c]>>) \in UnitSeqs
    BY <2>2 DEF T!SocketTypeOK, UnitSeqs
  <2> QED BY <2>1, <2>2, <2>3 DEF T!SocketTypeOK, UnitSeqs
<1>3. CASE T!Finish(c)
  BY <1>3 DEF T!Finish, T!SocketTypeOK
<1>4. CASE T!Leave(c)
  <2>1. Departures[c] \subseteq {"shut", "closed", "reset"}
    BY ProgramsAssumption DEF T!SocketAssumption
  <2> QED BY <1>4, <2>1 DEF T!Leave, T!SocketTypeOK
<1> QED BY <1>1, <1>2, <1>3, <1>4

\* What select, poll or epoll_wait counted is not used up before the last of
\* what they reported has been looked at.
Counted ==
  /\ nready \in 0..Cardinality(T!Descriptors)
  /\ tablePc = "accept" => nready > 0
  /\ Serving /\ tableProg \notin {"primary", "epoll"} => nready > 0
  /\ tableProg = "epoll" /\ 0 \in ready /\ tablePc \in {"batch", "read", "write"}
       => nready > 0

\* What TableInv does not say of the types.
TableMore ==
  /\ tableProg \in TablePrograms /\ limit \in Limits[tableProg]
  /\ tablePc \in {"wait", "accept", "read", "write", "batch", "ended",
                  "undefined"}
  /\ tableBuf \in UnitSeqs /\ maxfd \in T!Descriptors
  /\ ~Serving => tableI \in T!Descriptors \union T!Places
  /\ ~Sparse => maxi \in -1..TableSize - 1
  /\ tableProg \notin {"myserver", "myserver1"} => tableNum \in 0..TableSize
  /\ tableProg = "poll" => watch \subseteq T!Descriptors

\* myserver counts no more clients than its table has places.
LEMMA NumFits ==
  ASSUME TableInv, tableProg \in {"myserver", "myserver1"}
  PROVE  tableNum \in 0..TableSize
<1>1. /\ tableNum = Cardinality(Opened) /\ \A f \in Opened : f < SetSize
      /\ Opened \subseteq Nat /\ 0 \notin Opened /\ tableNum \in Nat
  BY OpenedFacts
     DEF TableInv, TableShape, NumHolds, WatchesOpen, T!Selects, TableTyped
<1>2. Opened \subseteq 1..SetSize - 1
  BY <1>1, TableGiven
<1>3. /\ IsFiniteSet(1..SetSize - 1)
      /\ Cardinality(1..SetSize - 1) = IF 1 > SetSize - 1 THEN 0
                                       ELSE SetSize - 1 - 1 + 1
  <2>1. 1 \in Int /\ SetSize - 1 \in Int
    BY TableGiven
  <2> QED BY <2>1, FS_Interval
<1>4. Cardinality(Opened) <= Cardinality(1..SetSize - 1)
  BY <1>2, <1>3, FS_Subset
<1> QED BY <1>1, <1>3, <1>4, TableGiven

\* The scan stands at a descriptor or at an entry of the table.
LEMMA TableTypesAt ==
  ASSUME TableInv, TableMore
  PROVE  tableI \in T!Descriptors \union T!Places
<1>1. TableTyped /\ TableShape /\ ScanHolds /\ Opened \subseteq T!Descriptors
  BY DEF TableInv, Opened
<1>2. CASE ~Serving
  BY <1>2 DEF TableMore
<1>3. CASE Serving /\ Tabled
  BY <1>1, <1>3, TableEnds DEF ScanHolds, TableShape
<1>4. CASE Serving /\ ~Tabled
  <2>1. T!FdAt(tableI) = tableI
    BY <1>1, <1>4 DEF Tabled, TableTyped, T!FdAt
  <2> QED BY <1>1, <1>4, <2>1 DEF ScanHolds
<1> QED BY <1>2, <1>3, <1>4

LEMMA TableTypesAre ==
  ASSUME TableInv, T!SocketTypeOK, TableMore, Counted
  PROVE  T!TypeOK
<1>1. TableTyped /\ TableShape /\ ScanHolds
  BY DEF TableInv
<1>2. Opened \subseteq T!Descriptors /\ 0 \in T!Descriptors
  BY <1>1 DEF Opened, TableTyped
<1>3. watch \subseteq T!Descriptors
  BY <1>1, <1>2 DEF TableMore, TableShape, WatchesOpen
<1>4. tableI \in T!Descriptors \union T!Places
  BY TableTypesAt
<1>5. maxi \in -1..TableSize - 1
  <2>1. CASE Sparse
    <3>1. Tabled /\ T!Last = maxi /\ T!First \in {0, 1} /\ maxi \in Int
      BY <1>1, <2>1 DEF Sparse, Tabled, T!Last, T!First, TableTyped
    <3> QED BY <1>1, <3>1, TableGiven DEF TableShape, EntriesHold
  <2> QED BY <2>1 DEF TableMore
<1>6. tableNum \in 0..TableSize
  BY NumFits DEF TableMore
<1>7. T!Cardinality(T!Descriptors) = Cardinality(T!Descriptors)
  BY DEF T!Cardinality, Cardinality
<1>8. client \in [T!Places -> T!Descriptors \union {T!NoFd}]
  BY <1>1 DEF TableTyped, T!NoFd
<1> QED BY <1>1, <1>3, <1>4, <1>5, <1>6, <1>7, <1>8
        DEF T!TypeOK, TableMore, Counted, TableTyped, ScanHolds, UnitSeqs

LEMMA TableTypesInit ==
  ASSUME Init PROVE T!SocketTypeOK /\ TableMore /\ Counted
<1>1. T!Init /\ <<>> \in UnitSeqs /\ Units \in [Clients -> Nat]
  BY ProgramsAssumption DEF Init, UnitSeqs, T!SocketAssumption
<1>2. TableTyped /\ IsFiniteSet(T!Descriptors)
  BY TableInit DEF TableInv, TableTyped
<1>3. TableMore
  BY <1>1, <1>2, TableGiven
     DEF T!Init, TableMore, TableTyped, T!Listener, Serving, Sparse
<1>4. Counted
  <2>1. Cardinality(T!Descriptors) \in Nat
    BY <1>2, FS_CardinalityType
  <2> QED BY <1>1, <2>1 DEF T!Init, Counted, Serving
<1>5. T!SocketTypeOK
  <2>1. /\ [c \in Clients |-> <<>>] \in [Clients -> UnitSeqs]
        /\ [c \in Clients |-> 0] \in [Clients -> Nat]
        /\ \A c \in Clients : 0 <= Units[c]
    BY <1>1
  <2> QED BY <1>1, <2>1 DEF T!Init, T!SocketInit, T!SocketTypeOK, UnitSeqs
<1> QED BY <1>3, <1>4, <1>5

\* Nothing happens to what the scan counts.
LEMMA CountedKept ==
  ASSUME Counted, UNCHANGED <<tableProg, nready, ready>>,
         tablePc' = tablePc \/ tablePc' \in {"wait", "ended", "undefined"} \/
           (tablePc = "read" /\ tablePc' = "write")
  PROVE  Counted'
BY DEF Counted, Serving

\* The scan goes on only while something is left of what was counted.
LEMMA CountedScan ==
  ASSUME NEW k \in Nat, T!ScanOn(k), UNCHANGED tableProg, tableProg # "epoll",
         nready' \in 0..Cardinality(T!Descriptors)
  PROVE  Counted'
<1>1. tablePc' = "wait" \/ (tablePc' = "read" /\
                            (tableProg # "primary" => ~(nready' <= 0)))
  BY DEF T!ScanOn
<1>2. tablePc' = "wait" \/
        (tablePc' = "read" /\ (tableProg = "primary" \/ nready' > 0))
  BY <1>1
<1> QED BY <1>2 DEF Counted, Serving

\* Where the scan is after a step that goes on with it.
LEMMA ScanTypes ==
  ASSUME NEW k \in Nat, T!ScanOn(k)
  PROVE  /\ tablePc' \in {"wait", "read"}
         /\ ~Serving' => tableI' = 0
BY ScanTo DEF Serving

LEMMA CountedStep ==
  ASSUME TableInv, TableInv', Counted, TableRun
  PROVE  Counted'
<1>0. /\ TableTyped /\ TableShape /\ ScanHolds
      /\ IsFiniteSet(T!Descriptors) /\ Cardinality(T!Descriptors) \in Nat
      /\ nready \in 0..Cardinality(T!Descriptors)
      /\ T!First \in Nat /\ tableI + 1 \in Nat
  BY FS_CardinalityType DEF TableInv, TableTyped, Counted, T!First, ScanHolds
<1>1. CASE UNCHANGED tableVars
  BY <1>1, CountedKept DEF tableVars
<1>2. CASE T!Wait
  <2>1. /\ T!Reported \subseteq T!Descriptors /\ T!Reported # {}
        /\ UNCHANGED tableProg /\ T!Seen \subseteq T!Reported
        /\ ready' = T!Seen
    BY <1>0, <1>2, SeenWatched DEF T!Wait, T!Seen
  <2>2. /\ IsFiniteSet(T!Reported) /\ Cardinality(T!Reported) \in Nat
        /\ Cardinality(T!Reported) <= Cardinality(T!Descriptors)
        /\ Cardinality(T!Reported) # 0
    BY <1>0, <2>1, FS_Subset, FS_CardinalityType, FS_EmptySet
  <2>3. nready' = Cardinality(T!Reported)
    BY <1>2 DEF T!Wait, T!Cardinality, Cardinality
  <2>4. nready' \in 1..Cardinality(T!Descriptors)
    BY <1>0, <2>2, <2>3
  <2> QED BY <1>0, <2>4 DEF Counted
<1>3. CASE T!EpollEvent
  <2>1. PICK f \in ready : /\ ready' = ready \ {f} /\ tablePc = "batch"
                           /\ tablePc' = IF f = 0 THEN "accept" ELSE "read"
                           /\ UNCHANGED <<tableProg, nready>>
    BY <1>3 DEF T!EpollEvent, T!Listener
  <2>2. tableProg = "epoll"
    BY <1>0, <2>1 DEF ScanHolds
  <2> QED BY <2>1, <2>2 DEF Counted, Serving
<1>4. CASE T!AcceptFails \/ T!SigPipe \/ T!ReadData
  <2>1. /\ UNCHANGED <<tableProg, nready, ready>>
        /\ \/ tablePc' \in {"wait", "ended"}
           \/ tablePc = "read" /\ tablePc' = "write"
    BY <1>4 DEF T!AcceptFails, T!SigPipe, T!ReadData, T!Reading
  <2> QED BY <2>1, CountedKept
<1>5. ASSUME T!AfterAccept, tablePc = "accept", UNCHANGED tableProg,
             tableProg = "epoll" => 0 \notin ready'
      PROVE  Counted'
  <2>1. /\ nready > 0 /\ nready' = nready - 1
        /\ nready' \in 0..Cardinality(T!Descriptors)
    BY <1>0, <1>5 DEF T!AfterAccept, Counted
  <2>2. CASE tableProg = "epoll"
    <3>1. tablePc' \in {"wait", "batch"}
      BY <1>5, <2>2 DEF T!AfterAccept, T!BatchOn
    <3> QED BY <1>5, <2>1, <2>2, <3>1 DEF Counted, Serving
  <2>3. CASE tableProg # "epoll" /\ tablePc' = "wait"
    BY <1>5, <2>1, <2>3 DEF Counted, Serving
  <2>4. CASE tableProg # "epoll" /\ T!ScanOn(T!First)
    <3>1. PICK k \in Nat : k = T!First
      BY <1>0
    <3> QED BY <1>5, <2>1, <2>4, <3>1, CountedScan
  <2> QED BY <1>5, <2>2, <2>3, <2>4 DEF T!AfterAccept
<1>6. ASSUME NEW c \in Clients,
             T!Accept(c) \/ T!AcceptBeyond(c) \/ T!TooMany(c)
      PROVE  Counted'
  <2>1. tablePc = "accept" /\ UNCHANGED tableProg
    BY <1>6 DEF T!Accept, T!AcceptBeyond, T!TooMany, T!Accepting
  <2>2. CASE T!Accept(c)
    <3>1. T!AfterAccept /\ (tableProg = "epoll" => 0 \notin ready')
      BY <2>2 DEF T!Accept, T!FreshReady, T!Listener
    <3> QED BY <1>5, <2>1, <3>1
  <2>3. CASE T!AcceptBeyond(c)
    <3>1. tablePc' = "undefined" /\ UNCHANGED <<nready, ready>>
      BY <2>3 DEF T!AcceptBeyond
    <3> QED BY <2>1, <3>1, CountedKept
  <2>4. CASE T!TooMany(c)
    <3>1. CASE tableProg = "myserver"
      <4>1. T!AfterAccept
        BY <2>4, <3>1 DEF T!TooMany
      <4> QED BY <1>5, <2>1, <3>1, <4>1
    <3>2. CASE tableProg # "myserver"
      <4>1. tablePc' = "ended" /\ UNCHANGED <<nready, ready>>
        BY <2>4, <3>2 DEF T!TooMany
      <4> QED BY <2>1, <4>1, CountedKept
    <3> QED BY <3>1, <3>2
  <2> QED BY <1>6, <2>2, <2>3, <2>4
<1>7. CASE T!ReadEnd \/ T!ReadFails \/ T!Writen
  <2>1. T!Handled /\ Serving /\ UNCHANGED tableProg
    BY <1>7 DEF T!ReadEnd, T!ReadFails, T!Writen, T!Reading, Serving
  <2>2. CASE tableProg = "epoll"
    <3>1. /\ tablePc' \in {"wait", "batch"} /\ UNCHANGED <<ready, nready>>
      BY <2>1, <2>2 DEF T!Handled, T!BatchOn
    <3> QED BY <2>1, <2>2, <3>1 DEF Counted, Serving
  <2>3. CASE tableProg # "epoll"
    <3>1. /\ nready' = IF tableProg = "primary" THEN nready ELSE nready - 1
          /\ T!ScanOn(tableI + 1)
      BY <2>1, <2>3 DEF T!Handled
    <3>2. nready' \in 0..Cardinality(T!Descriptors)
      BY <1>0, <2>1, <2>3, <3>1 DEF Counted
    <3>3. PICK k \in Nat : k = tableI + 1
      BY <1>0
    <3> QED BY <2>1, <2>3, <3>1, <3>2, <3>3, CountedScan
  <2> QED BY <2>2, <2>3
<1>8. ASSUME NEW c \in Clients, T!Client(c) \/ T!Departs(c) PROVE Counted'
  BY <1>8, CountedKept DEF T!Client, T!Departs, T!scanVars
<1> QED BY <1>1, <1>2, <1>3, <1>4, <1>6, <1>7, <1>8
        DEF TableRun, T!Next, T!Server

LEMMA TableTypesStep ==
  ASSUME TableInv, TableInv', T!SocketTypeOK, TableMore, TableRun
  PROVE  T!SocketTypeOK' /\ TableMore'
<1>0. /\ TableTyped /\ TableShape /\ ScanHolds /\ TableTyped' /\ ScanHolds'
      /\ T!First \in Nat /\ tableI + 1 \in Nat
  BY DEF TableInv, T!First, ScanHolds
<1>c. tableConn' \in [Clients -> {"new", "queued", "open", "closed"}]
  BY <1>0 DEF TableTyped
<1>p. 0 \in T!Places /\ 0 \in T!Descriptors
  BY <1>0, TableGiven DEF TableTyped
<1>e. <<>> \in UnitSeqs
  BY DEF UnitSeqs
<1>s. ASSUME UNCHANGED <<tablePeer, tableInput, tableSent, tableEcho>>
      PROVE  T!SocketTypeOK'
  BY <1>c, <1>s DEF T!SocketTypeOK
<1>k. ASSUME T!tableVars' = T!tableVars, UNCHANGED <<tableProg, limit>>,
             tablePc' \in {"wait", "accept", "read", "write", "batch",
                           "ended", "undefined"},
             tableBuf' \in UnitSeqs,
             ~Serving' => tableI' \in T!Descriptors \union T!Places
      PROVE  TableMore'
  BY <1>k DEF TableMore, T!tableVars, Sparse
<1>i. tableI \in T!Descriptors \union T!Places
  BY TableTypesAt DEF TableMore
<1>1. CASE UNCHANGED tableVars
  BY <1>1, <1>s DEF tableVars, TableMore, Serving, Sparse
<1>2. CASE T!Wait
  <2>1. /\ UNCHANGED <<tableProg, limit, tablePeer, tableInput, tableSent,
                       tableEcho, tableBuf>>
        /\ T!tableVars' = T!tableVars
        /\ \/ tablePc' \in {"wait", "batch", "accept"} /\ tableI' = 0
           \/ T!ScanOn(T!First)
    BY <1>2 DEF T!Wait, T!BatchOn, T!socketVars
  <2>2. PICK k \in Nat : k = T!First
    BY <1>0
  <2>3. /\ tablePc' \in {"wait", "batch", "accept", "read"}
        /\ ~Serving' => tableI' = 0
    BY <2>1, <2>2, ScanTypes
  <2> QED BY <1>k, <1>p, <1>s, <2>1, <2>3 DEF TableMore
<1>3. CASE T!EpollEvent
  <2>1. /\ UNCHANGED <<tableProg, limit, tablePeer, tableInput, tableSent,
                       tableEcho, tableBuf>>
        /\ T!tableVars' = T!tableVars /\ tablePc' \in {"accept", "read"}
        /\ tableI' \in ready
    BY <1>3 DEF T!EpollEvent, T!socketVars
  <2>2. tableI' \in T!Descriptors
    BY <1>0, <2>1 DEF ScanHolds
  <2> QED BY <1>k, <1>s, <2>1, <2>2 DEF TableMore
<1>4. CASE T!AcceptFails \/ T!SigPipe
  <2>1. /\ UNCHANGED <<tableProg, limit, tablePeer, tableInput, tableSent,
                       tableEcho, tableBuf, tableI>>
        /\ T!tableVars' = T!tableVars /\ tablePc' \in {"wait", "ended"}
    BY <1>4 DEF T!AcceptFails, T!SigPipe, T!socketVars
  <2> QED BY <1>i, <1>k, <1>s, <2>1 DEF TableMore
<1>5. ASSUME NEW c \in Clients,
             T!Accept(c) \/ T!AcceptBeyond(c) \/ T!TooMany(c)
      PROVE  T!SocketTypeOK' /\ TableMore'
  <2>1. UNCHANGED <<tableProg, limit, tableBuf, tablePeer, tableInput,
                    tableSent, tableEcho>>
    BY <1>5 DEF T!Accept, T!AcceptBeyond, T!TooMany, T!Accepting
  <2>2. ASSUME T!AfterAccept
        PROVE  /\ tablePc' \in {"wait", "batch", "read"}
               /\ ~Serving' => tableI' = 0
    <3>1. PICK k \in Nat : k = T!First
      BY <1>0
    <3>2. \/ tablePc' \in {"wait", "batch"} /\ tableI' = 0
          \/ T!ScanOn(k)
      BY <2>2, <3>1 DEF T!AfterAccept, T!BatchOn
    <3> QED BY <3>2, ScanTypes
  <2>3. CASE T!Accept(c)
    <3> DEFINE fd == T!Min(T!FreeFds)
    <3>1. fd \in T!Descriptors /\ fd \in Nat
      BY <1>0, <2>3, FreeDescriptor DEF T!Accept, T!Accepting
    <3>2. /\ T!AfterAccept /\ T!AddEntry(fd)
          /\ watch' = IF tableProg = "poll" THEN watch ELSE watch \union {fd}
          /\ maxfd' = IF tableProg \in T!Selects THEN T!Max({maxfd, fd})
                                                 ELSE maxfd
      BY <2>3 DEF T!Accept
    <3> HIDE DEF fd
    <3>3. maxfd' \in T!Descriptors
      <4>1. maxfd \in Int /\ fd \in Int /\ maxfd \in T!Descriptors
        BY <1>0, <3>1 DEF TableTyped, TableMore
      <4>2. T!Max({maxfd, fd}) \in T!Descriptors
        BY <3>1, <4>1, GreaterOf
      <4> QED BY <3>2, <4>1, <4>2
    <3>4. /\ ~Sparse => UNCHANGED maxi
          /\ tableProg \notin {"myserver", "myserver1"} => UNCHANGED tableNum
      BY <3>2 DEF T!AddEntry, Sparse
    <3> QED BY <1>p, <1>s, <2>1, <2>2, <3>2, <3>3, <3>4 DEF TableMore, Sparse
  <2>4. CASE T!AcceptBeyond(c)
    <3>1. /\ tablePc' = "undefined" /\ T!tableVars' = T!tableVars
          /\ UNCHANGED tableI
      BY <2>4 DEF T!AcceptBeyond
    <3> QED BY <1>i, <1>k, <1>s, <2>1, <3>1 DEF TableMore
  <2>5. CASE T!TooMany(c)
    <3>1. /\ T!tableVars' = T!tableVars
          /\ T!AfterAccept \/ (tablePc' = "ended" /\ UNCHANGED tableI)
      BY <2>5 DEF T!TooMany
    <3> QED BY <1>i, <1>k, <1>p, <1>s, <2>1, <2>2, <3>1 DEF TableMore
  <2> QED BY <1>5, <2>3, <2>4, <2>5
<1>h. ASSUME T!Handled
      PROVE  /\ tablePc' \in {"wait", "batch", "read"}
             /\ ~Serving' => tableI' = 0
  <2>1. PICK k \in Nat : k = tableI + 1
    BY <1>0
  <2>2. \/ tablePc' \in {"wait", "batch"} /\ tableI' = 0
        \/ T!ScanOn(k)
    BY <1>h, <2>1 DEF T!Handled, T!BatchOn
  <2> QED BY <2>2, ScanTypes
<1>r. Serving => T!Current \in Clients
  BY <1>0, OpenedFacts DEF ScanHolds, T!Current
<1>6. CASE T!ReadData \/ T!ReadEnd \/ T!ReadFails
  <2>1. /\ T!ReadEffect(T!Current) /\ tablePc = "read"
        /\ UNCHANGED <<tableProg, limit, tableSent, tableEcho>>
    BY <1>6 DEF T!ReadData, T!ReadEnd, T!ReadFails, T!Reading
  <2>2. PICK c \in Clients : c = T!Current
    BY <1>r, <2>1 DEF Serving
  <2>3. /\ tableInput' \in [Clients -> UnitSeqs]
        /\ tablePeer' \in [Clients -> {"up", "shut", "closed", "broken",
                                       "reset", "gone"}]
        /\ SubSeq(tableInput[c], 1, T!Taken(c)) \in UnitSeqs
    BY <2>1, <2>2, TableReadTyped
  <2>4. T!SocketTypeOK'
    BY <1>c, <2>1, <2>3 DEF T!SocketTypeOK, UnitSeqs
  <2>5. CASE T!ReadData
    <3>1. /\ tableBuf' = SubSeq(tableInput[c], 1, T!Taken(c))
          /\ tablePc' = "write" /\ T!tableVars' = T!tableVars
      BY <2>2, <2>5 DEF T!ReadData
    <3> QED BY <1>k, <2>1, <2>3, <2>4, <3>1 DEF Serving
  <2>6. CASE T!ReadEnd
    <3>1. T!CloseClient(T!FdAt(tableI)) /\ UNCHANGED tableBuf /\ T!Handled
      BY <2>6 DEF T!ReadEnd
    <3>2. /\ watch' = watch \ {T!FdAt(tableI)} /\ UNCHANGED maxfd
          /\ ~Sparse => UNCHANGED maxi
          /\ tableProg \notin {"myserver", "myserver1"} => UNCHANGED tableNum
      BY <3>1 DEF T!CloseClient, Sparse
    <3> QED BY <1>h, <1>p, <2>1, <2>4, <3>1, <3>2 DEF TableMore, Sparse
  <2>7. CASE T!ReadFails
    <3>1. T!tableVars' = T!tableVars /\ UNCHANGED tableBuf /\ T!Handled
      BY <2>7 DEF T!ReadFails
    <3> QED BY <1>h, <1>k, <1>p, <2>1, <2>4, <3>1 DEF TableMore
  <2> QED BY <1>6, <2>5, <2>6, <2>7
<1>7. CASE T!Writen
  <2>1. /\ T!WriteEffect(T!Current, tableBuf) /\ tablePc = "write"
        /\ tableBuf' = <<>> /\ T!tableVars' = T!tableVars /\ T!Handled
        /\ UNCHANGED <<tableProg, limit, tableInput, tableSent>>
    BY <1>7 DEF T!Writen
  <2>2. PICK c \in Clients : c = T!Current
    BY <1>r, <2>1 DEF Serving
  <2>3. PICK data \in UnitSeqs : data = tableBuf
    BY DEF TableMore
  <2>4. T!WriteEffect(c, data)
    BY <2>1, <2>2, <2>3
  <2>5. T!SocketTypeOK'
    BY <1>c, <2>1, <2>4, TableWriteTyped DEF T!SocketTypeOK, UnitSeqs
  <2> QED BY <1>e, <1>h, <1>k, <1>p, <2>1, <2>5
<1>8. ASSUME NEW c \in Clients, T!Client(c) \/ T!Departs(c)
      PROVE  T!SocketTypeOK' /\ TableMore'
  <2>1. /\ T!tableVars' = T!tableVars
        /\ UNCHANGED <<tableProg, limit, tablePc, tableI, tableBuf>>
    BY <1>8 DEF T!Client, T!Departs, T!scanVars
  <2>2. TableMore'
    BY <1>i, <1>k, <2>1 DEF TableMore
  <2> QED BY <1>8, <2>2, TableClientTyped DEF T!Client, T!Departs
<1> QED BY <1>1, <1>2, <1>3, <1>4, <1>5, <1>6, <1>7, <1>8
        DEF TableRun, T!Next, T!Server
=============================================================================
