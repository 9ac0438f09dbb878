-------------------------- MODULE ForkServerProofs --------------------------
(***************************************************************************)
(* Proofs about the echo servers that fork or start threads, in the        *)
(* composition of all programs: each connection has the one task it should *)
(* have, and what a client sent is never in two places or none.            *)
(***************************************************************************)
EXTENDS MCPrograms, TLAPS, SequenceTheorems, FiniteSetTheorems

-----------------------------------------------------------------------------
(* The units of a client, on their way through a server *)

\* A unit is its client and its number; here are those of c after the first n.
Run(c, q, n) == /\ q \in Seq(Clients \X Nat)
                /\ \A k \in 1..Len(q) : q[k] = <<c, n + k>>

\* Of the s units c has sent, those it got back, those the server has in hand
\* and those it has not read, in this order, and all of them while c listens,
\* being in state p.
Listens(p) == p \in {"up", "shut"}
Flow(c, back, hand, in, s, p) ==
  /\ s \in Nat /\ Len(hand) + Len(in) <= s
  /\ Run(c, back, 0) /\ Run(c, hand, s - Len(in) - Len(hand))
  /\ Run(c, in, s - Len(in))
  /\ Listens(p) => Len(back) + Len(hand) + Len(in) = s

\* Nothing is sent yet.
LEMMA FlowEmpty ==
  ASSUME NEW c PROVE Flow(c, <<>>, <<>>, <<>>, 0, "up")
BY DEF Flow, Run

\* The client sends the next unit.
LEMMA FlowSend ==
  ASSUME NEW c \in Clients, NEW back, NEW hand, NEW in, NEW s,
         Flow(c, back, hand, in, s, "up")
  PROVE  Flow(c, back, hand, Append(in, <<c, s + 1>>), s + 1, "up")
<1>1. /\ s \in Nat /\ in \in Seq(Clients \X Nat)
      /\ <<c, s + 1>> \in Clients \X Nat
      /\ Len(in) \in Nat /\ Len(hand) \in Nat /\ Len(back) \in Nat
      /\ Len(back) + Len(hand) + Len(in) = s
  BY DEF Flow, Run, Listens
<1> DEFINE q == Append(in, <<c, s + 1>>)
<1>2. q \in Seq(Clients \X Nat) /\ Len(q) = Len(in) + 1
  BY <1>1
<1>3. Run(c, q, s - Len(in))
  <2>1. ASSUME NEW k \in 1..Len(in) PROVE q[k] = <<c, s - Len(in) + k>>
    BY <1>1 DEF Flow, Run
  <2>2. q[Len(in) + 1] = <<c, s - Len(in) + (Len(in) + 1)>>
    BY <1>1
  <2> HIDE DEF q
  <2>3. ASSUME NEW k \in 1..Len(q) PROVE q[k] = <<c, s - Len(in) + k>>
    <3>1. k \in 1..Len(in) \/ k = Len(in) + 1
      BY <1>1, <1>2
    <3> QED BY <3>1, <2>1, <2>2
  <2> QED BY <1>2, <2>3 DEF Run
<1>4. /\ s + 1 - Len(q) = s - Len(in)
      /\ s + 1 - Len(q) - Len(hand) = s - Len(in) - Len(hand)
  BY <1>1, <1>2
<1>5. /\ s + 1 \in Nat /\ Len(hand) + Len(q) <= s + 1
      /\ Len(back) + Len(hand) + Len(q) = s + 1
  BY <1>1, <1>2
<1> HIDE DEF q
<1>6. Flow(c, back, hand, q, s + 1, "up")
  BY <1>3, <1>4, <1>5 DEF Flow
<1> QED BY <1>6 DEF q

\* The client listens no more.
LEMMA FlowLeave ==
  ASSUME NEW c, NEW back, NEW hand, NEW in, NEW s, NEW p, NEW r,
         Listens(r) => Listens(p),
         Flow(c, back, hand, in, s, p)
  PROVE  Flow(c, back, hand, in, s, r)
BY DEF Flow

\* The server takes n units in hand.
LEMMA FlowRead ==
  ASSUME NEW c, NEW back, NEW in, NEW s, NEW p, NEW n \in 0..Len(in),
         Flow(c, back, <<>>, in, s, p)
  PROVE  Flow(c, back, SubSeq(in, 1, n), SubSeq(in, n + 1, Len(in)), s, p)
<1>1. /\ s \in Nat /\ in \in Seq(Clients \X Nat) /\ Len(in) <= s
      /\ Len(in) \in Nat /\ Len(back) \in Nat /\ n \in Nat
      /\ Listens(p) => Len(back) + Len(in) = s
      /\ \A k \in 1..Len(in) : in[k] = <<c, s - Len(in) + k>>
  BY DEF Flow, Run
<1> DEFINE h == SubSeq(in, 1, n)
           q == SubSeq(in, n + 1, Len(in))
<1>2. \A k \in 1..Len(in) : in[k] \in Clients \X Nat
  BY <1>1, ElementOfSeq
<1>3. /\ h \in Seq(Clients \X Nat) /\ Len(h) = n
      /\ \A k \in 1..n : h[k] = in[k]
  <2>1. 1 \in Int /\ n \in Int /\ \A k \in 1..n : in[k] \in Clients \X Nat
    BY <1>1, <1>2
  <2>2. /\ h \in Seq(Clients \X Nat)
        /\ Len(h) = IF 1 <= n THEN n - 1 + 1 ELSE 0
        /\ \A k \in 1..n - 1 + 1 : h[k] = in[1 + k - 1]
    BY ONLY <2>1, SubSeqProperties
  <2>3. n - 1 + 1 = n /\ \A k \in 1..n : 1 + k - 1 = k
    BY <1>1
  <2> QED BY <1>1, <2>2, <2>3
<1>4. /\ q \in Seq(Clients \X Nat) /\ Len(q) = Len(in) - n
      /\ \A k \in 1..Len(in) - n : q[k] = in[n + k]
  <2>1. /\ n + 1 \in Int /\ Len(in) \in Int
        /\ \A k \in n + 1..Len(in) : in[k] \in Clients \X Nat
    BY <1>1, <1>2
  <2>2. /\ q \in Seq(Clients \X Nat)
        /\ Len(q) = IF n + 1 <= Len(in) THEN Len(in) - (n + 1) + 1 ELSE 0
        /\ \A k \in 1..Len(in) - (n + 1) + 1 : q[k] = in[n + 1 + k - 1]
    BY ONLY <2>1, SubSeqProperties
  <2>3. /\ Len(in) - (n + 1) + 1 = Len(in) - n
        /\ \A k \in 1..Len(in) - n : n + 1 + k - 1 = n + k
    BY <1>1
  <2>4. \A k \in 1..Len(in) - n : q[k] = in[n + k]
    BY ONLY <2>2, <2>3
  <2>5. Len(q) = Len(in) - n
    <3>1. n = Len(in) \/ n < Len(in)
      <4>1. n \in Int /\ Len(in) \in Int /\ n <= Len(in)
        BY <1>1
      <4> QED BY ONLY <4>1
    <3>2. CASE n = Len(in)
      <4>1. ~(n + 1 <= Len(in)) /\ Len(in) - n = 0
        BY <1>1, <3>2
      <4> QED BY <2>2, <4>1
    <3>3. CASE n < Len(in)
      <4>1. n + 1 <= Len(in)
        BY <1>1, <3>3
      <4> QED BY <2>2, <2>3, <4>1
    <3> QED BY <3>1, <3>2, <3>3
  <2> QED BY <2>2, <2>4, <2>5
<1> HIDE DEF h, q
<1>5. Run(c, h, s - Len(in))
  <2>1. ASSUME NEW k \in 1..Len(h) PROVE h[k] = <<c, s - Len(in) + k>>
    <3>1. k \in 1..n /\ k \in 1..Len(in)
      BY <1>1, <1>3
    <3> QED BY <1>1, <1>3, <3>1
  <2> QED BY <1>3, <2>1 DEF Run
<1>6. Run(c, q, s - (Len(in) - n))
  <2>1. ASSUME NEW k \in 1..Len(in) - n
        PROVE  q[k] = <<c, s - (Len(in) - n) + k>>
    <3>1. n + k \in 1..Len(in)
      BY <1>1
    <3>2. q[k] = <<c, s - Len(in) + (n + k)>>
      BY <1>1, <1>4, <3>1
    <3>3. s - Len(in) + (n + k) = s - (Len(in) - n) + k
      BY <1>1
    <3> QED BY <3>2, <3>3
  <2> QED BY <1>4, <2>1 DEF Run
<1>7. /\ Len(h) + Len(q) <= s /\ s - Len(q) - Len(h) = s - Len(in)
      /\ Listens(p) => Len(back) + Len(h) + Len(q) = s
  <2>1. /\ Len(h) = n /\ Len(q) = Len(in) - n
        /\ {s, n, Len(in), Len(back)} \subseteq Int /\ Len(in) <= s
        /\ Listens(p) => Len(back) + Len(in) = s
    BY <1>1, <1>3, <1>4
  <2>2. \A a, b, d, e \in Int : /\ a + (b - a) = b
                               /\ e - (b - a) - a = e - b
                               /\ d + a + (b - a) = d + b
    OBVIOUS
  <2>3. /\ Len(h) + Len(q) = Len(in) /\ s - Len(q) - Len(h) = s - Len(in)
        /\ Len(back) + Len(h) + Len(q) = Len(back) + Len(in)
    BY ONLY <2>1, <2>2
  <2> QED BY ONLY <2>1, <2>3
<1>8. Flow(c, back, h, q, s, p)
  BY <1>1, <1>4, <1>5, <1>6, <1>7 DEF Flow
<1> QED BY <1>8 DEF h, q

\* The client gets what was in hand.
LEMMA FlowWrite ==
  ASSUME NEW c, NEW back, NEW hand, NEW in, NEW s, NEW p,
         Listens(p),
         Flow(c, back, hand, in, s, p)
  PROVE  Flow(c, back \o hand, <<>>, in, s, p)
<1>1. /\ s \in Nat /\ in \in Seq(Clients \X Nat)
      /\ hand \in Seq(Clients \X Nat) /\ back \in Seq(Clients \X Nat)
      /\ Len(in) \in Nat /\ Len(hand) \in Nat /\ Len(back) \in Nat
      /\ Len(back) + Len(hand) + Len(in) = s
  BY DEF Flow, Run
<1> DEFINE all == back \o hand
<1>2. /\ all \in Seq(Clients \X Nat) /\ Len(all) = Len(back) + Len(hand)
      /\ \A k \in 1..Len(all) : all[k] = IF k <= Len(back) THEN back[k]
                                     ELSE hand[k - Len(back)]
  BY <1>1, ConcatProperties
<1> HIDE DEF all
<1>3. Run(c, all, 0)
  <2>1. ASSUME NEW k \in 1..Len(all) PROVE all[k] = <<c, 0 + k>>
    <3>1. CASE k <= Len(back)
      <4>1. k \in 1..Len(back) /\ 0 + k = k
        BY <1>1, <1>2, <3>1
      <4>2. back[k] = <<c, 0 + k>>
        BY <4>1 DEF Flow, Run
      <4> QED BY <1>2, <3>1, <4>2
    <3>2. CASE ~(k <= Len(back))
      <4>1. k - Len(back) \in 1..Len(hand)
        <5>1. \A a, b, e \in Int :
                e \in 1..a + b /\ ~(e <= a) => e - a \in 1..b
          OBVIOUS
        <5>2. /\ k \in Int /\ k \in 1..Len(back) + Len(hand)
              /\ Len(back) \in Int /\ Len(hand) \in Int
          BY <1>1, <1>2
        <5> QED BY ONLY <3>2, <5>1, <5>2
      <4>2. hand[k - Len(back)] =
              <<c, s - Len(in) - Len(hand) + (k - Len(back))>>
        BY <4>1 DEF Flow, Run
      <4>3. s - Len(in) - Len(hand) + (k - Len(back)) = 0 + k
        <5>1. \A a, b, d, e, x \in Int :
                a + b + d = x => x - d - b + (e - a) = 0 + e
          OBVIOUS
        <5>2. /\ k \in Int /\ s \in Int /\ Len(back) \in Int
              /\ Len(hand) \in Int /\ Len(in) \in Int
              /\ Len(back) + Len(hand) + Len(in) = s
          BY <1>1
        <5> QED BY ONLY <5>1, <5>2
      <4> QED BY <1>2, <3>2, <4>2, <4>3
    <3> QED BY <3>1, <3>2
  <2> QED BY <1>2, <2>1 DEF Run
<1>4. Run(c, <<>>, s - Len(in) - 0)
  BY DEF Run
<1>5. Flow(c, all, <<>>, in, s, p)
  BY <1>1, <1>2, <1>3, <1>4 DEF Flow
<1> QED BY <1>5 DEF all

\* Nobody gets it, as the client does not listen.
LEMMA FlowDrop ==
  ASSUME NEW c, NEW back, NEW hand, NEW in, NEW s, NEW p,
         ~Listens(p),
         Flow(c, back, hand, in, s, p)
  PROVE  Flow(c, back, <<>>, in, s, p)
<1>1. Run(c, <<>>, s - Len(in) - 0) /\ Len(<<>>) = 0
  BY DEF Run
<1> QED BY <1>1 DEF Flow, Run

-----------------------------------------------------------------------------
(* The servers that fork *)

ForkRun == F!Next \/ UNCHANGED forkVars

\* A step of the composition is a step of ForkServers or leaves its variables
\* alone.
LEMMA ForkSteps == ASSUME [Next]_vars PROVE ForkRun
BY DEF ForkRun, Next, vars, InTableServers, InForkServers, InProducers,
  InLocks, InChildren, InStreams, InStreamWrap, InLibevent, InDatagrams,
  InListing, InBufferevents

ForkTyped ==
  /\ forkProg \in {"process", "thread", "domain", "tcp"}
  /\ forkConn \in [Clients -> {"new", "queued", "open", "closed"}]
  /\ forkMain \in {"accept", "fork", "install", "serve", "ended", "undefined"}
  /\ forkNum \in Nat
  /\ task \in [F!Tasks -> {"none", "read", "write", "zombie", "reaped"}]
  /\ DOMAIN slot = F!Tasks
  /\ holders \in [Clients -> SUBSET (F!Tasks \union {0})]

\* num counts the clients accepted, and their tasks are the first ones.
Accepted == {c \in Clients : forkConn[c] \in {"open", "closed"}}
NumCounts ==
  /\ forkNum = Cardinality(Accepted)
  /\ \A n \in F!Tasks : n > forkNum => task[n] = "none"
  /\ forkMain = "fork" =>
       /\ forkProg = "process" /\ forkNum \in F!Tasks /\ task[forkNum] = "none"
       /\ cfd \in Clients /\ holders[cfd] = {0}
  /\ forkMain = "install" =>
       forkProg = "process" /\ cfd \in Clients /\ 0 \in holders[cfd]

\* A connection is open while somebody has its descriptor; a task that serves
\* has an open one for itself.
Busy(n) == task[n] \in {"read", "write"}
SlotsOpen ==
  /\ \A c \in Clients : forkConn[c] = "open" <=> holders[c] # {}
  /\ \A n \in F!Tasks : Busy(n) =>
       slot[n] \in Clients /\ forkConn[slot[n]] = "open"
  /\ \A n, m \in F!Tasks : Busy(n) /\ Busy(m) /\ slot[n] = slot[m] => n = m

\* A child has the connection it serves and no other; main has the one it has
\* just accepted.
ChildHolds ==
  forkProg = "process" =>
    /\ \A c \in Clients : \A n \in F!Tasks :
         n \in holders[c] <=> Busy(n) /\ slot[n] = c
    /\ \A c \in Clients : 0 \in holders[c] =>
         c = cfd /\ forkMain \in {"fork", "install", "ended"}

\* In one process main has them all, and each has its thread or loop.
MainHolds ==
  forkProg # "process" =>
    /\ \A c \in Clients : holders[c] \subseteq {0}
    /\ forkMain # "undefined" =>
         \A c \in Clients : forkConn[c] = "open" =>
           \E n \in F!Tasks : Busy(n) /\ slot[n] = c

ForkInv == ForkTyped /\ NumCounts /\ SlotsOpen /\ ChildHolds /\ MainHolds

\* What the constants of ForkServers are.
LEMMA ForkGiven ==
  /\ IsFiniteSet(Clients) /\ Cardinality(Clients) \in Nat
  /\ NoClient \notin Clients
  /\ F!Tasks = 1..Cardinality(Clients)
<1>1. NoClient \notin Clients /\ F!IsFiniteSet(Clients)
  BY ProgramsAssumption DEF F!ForkAssumption, T!SocketAssumption
<1>2. IsFiniteSet(Clients)
  BY <1>1 DEF F!IsFiniteSet, IsFiniteSet
<1>3. F!Cardinality(Clients) = Cardinality(Clients)
  BY DEF F!Cardinality, Cardinality
<1> QED BY <1>1, <1>2, <1>3, FS_CardinalityType DEF F!Tasks

\* Nobody is accepted yet.
LEMMA ForkInit == ASSUME Init PROVE ForkInv
<1>1. /\ forkProg \in ForkPrograms /\ forkMain = "accept" /\ forkNum = 0
      /\ forkConn = [c \in Clients |-> "new"]
      /\ task = [n \in F!Tasks |-> "none"]
      /\ slot = [n \in F!Tasks |-> NoClient]
      /\ holders = [c \in Clients |-> {}]
  BY DEF Init, F!Init, F!SocketInit
<1>2. ForkPrograms \subseteq {"process", "thread", "domain", "tcp"}
  BY ProgramsAssumption DEF F!ForkAssumption
<1>3. Accepted = {}
  BY <1>1 DEF Accepted
<1>4. Cardinality({}) = 0
  BY FS_EmptySet
<1>5. ForkTyped
  BY <1>1, <1>2 DEF ForkTyped
<1>6. NumCounts
  BY <1>1, <1>3, <1>4 DEF NumCounts
<1> QED BY <1>1, <1>5, <1>6
        DEF ForkInv, SlotsOpen, ChildHolds, MainHolds, Busy

\* A client that is accepted is one more, and there is a task for it.
LEMMA OneMore ==
  ASSUME ForkTyped, NumCounts, NEW c \in Clients, forkConn[c] = "queued",
         forkConn' = [forkConn EXCEPT ![c] = "open"]
  PROVE  /\ Cardinality(Accepted') = forkNum + 1
         /\ forkNum + 1 \in F!Tasks
<1>1. Accepted' = Accepted \union {c} /\ c \notin Accepted
  BY DEF Accepted, ForkTyped
<1>2. IsFiniteSet(Accepted) /\ Accepted' \subseteq Clients
  BY ForkGiven, FS_Subset DEF Accepted
<1>3. Cardinality(Accepted') = forkNum + 1
  BY <1>1, <1>2, FS_AddElement DEF NumCounts
<1>4. Cardinality(Accepted') <= Cardinality(Clients)
  BY <1>2, ForkGiven, FS_Subset
<1> QED BY <1>3, <1>4, ForkGiven DEF ForkTyped

\* Steps that leave the connections and who serves them alone.
LEMMA ForkSame ==
  ASSUME ForkInv, Accepted' = Accepted,
         forkConn' \in [Clients -> {"new", "queued", "open", "closed"}],
         \A c \in Clients : forkConn'[c] = "open" <=> forkConn[c] = "open",
         task' \in [F!Tasks -> {"none", "read", "write", "zombie", "reaped"}],
         \A n \in F!Tasks : Busy(n)' <=> Busy(n),
         \A n \in F!Tasks : task'[n] = "none" <=> task[n] = "none",
         UNCHANGED <<forkProg, forkNum, cfd, slot, holders>>,
         forkMain' = forkMain \/
           (forkMain' = "ended" /\ forkMain # "undefined")
  PROVE  ForkInv'
<1>1. ForkTyped'
  BY DEF ForkInv, ForkTyped
<1>2. NumCounts'
  BY DEF ForkInv, NumCounts
<1>3. SlotsOpen'
  BY DEF ForkInv, SlotsOpen
<1>4. ChildHolds'
  BY DEF ForkInv, ChildHolds
<1>5. MainHolds'
  BY DEF ForkInv, MainHolds
<1> QED BY <1>1, <1>2, <1>3, <1>4, <1>5 DEF ForkInv

\* A child that ends takes its descriptor with it, and no other.
LEMMA ChildEndStep ==
  ASSUME ForkInv, NEW n \in F!Tasks, Busy(n), forkProg = "process",
         F!ChildEnds(n), UNCHANGED <<forkProg, cfd, forkNum, slot>>
  PROVE  ForkInv'
<1> DEFINE c == slot[n]
<1>0. ForkTyped /\ NumCounts /\ SlotsOpen /\ ChildHolds /\ MainHolds
  BY DEF ForkInv
<1>1. c \in Clients /\ forkConn[c] = "open" /\ n \in holders[c]
  BY <1>0 DEF SlotsOpen, ChildHolds
<1>2. /\ forkMain' = forkMain
      /\ task' = [task EXCEPT ![n] =
                    IF forkMain = "ended" THEN "reaped" ELSE "zombie"]
      /\ holders' = [d \in Clients |-> holders[d] \ {n}]
      /\ forkConn' = [d \in Clients |->
                        IF n \in holders[d] /\ holders'[d] = {} THEN "closed"
                        ELSE forkConn[d]]
  BY DEF F!ChildEnds
<1>3. \A d \in Clients : n \in holders[d] <=> d = c
  BY <1>0 DEF ChildHolds
<1>4. \A m \in F!Tasks : Busy(m)' <=> Busy(m) /\ m # n
  BY <1>0, <1>2 DEF Busy, ForkTyped
<1>5. Accepted' = Accepted
  BY <1>0, <1>1, <1>2, <1>3 DEF Accepted, ForkTyped
<1>6. ForkTyped'
  BY <1>0, <1>2 DEF ForkTyped
<1>7. NumCounts'
  BY <1>0, <1>1, <1>2, <1>5, ForkGiven DEF NumCounts, ForkTyped, Busy
<1>8. ChildHolds'
  BY <1>0, <1>2, <1>4, ForkGiven DEF ChildHolds, ForkTyped
<1>9. SlotsOpen'
  <2>1. \A d \in Clients : d # c =>
          holders'[d] = holders[d] /\ forkConn'[d] = forkConn[d]
    BY <1>0, <1>2, <1>3 DEF ForkTyped
  <2>2. forkConn'[c] = IF holders'[c] = {} THEN "closed" ELSE "open"
    BY <1>1, <1>2
  <2>3. \A d \in Clients : forkConn'[d] = "open" <=> holders'[d] # {}
    BY <1>0, <2>1, <2>2 DEF SlotsOpen
  <2> QED BY <1>0, <1>4, <2>1, <2>3 DEF SlotsOpen
<1> QED BY <1>6, <1>7, <1>8, <1>9 DEF ForkInv, MainHolds

\* main closes the connection of a task that is done with it.
LEMMA MainCloseStep ==
  ASSUME ForkInv, NEW n \in F!Tasks, Busy(n), forkProg # "process",
         F!Closed(0, slot[n]), task' = [task EXCEPT ![n] = "reaped"],
         forkMain' = forkMain \/ forkMain' = "accept",
         forkMain # "undefined",
         UNCHANGED <<forkProg, cfd, forkNum, slot>>
  PROVE  ForkInv'
<1> DEFINE c == slot[n]
<1>0. ForkTyped /\ NumCounts /\ SlotsOpen /\ ChildHolds /\ MainHolds
  BY DEF ForkInv
<1>1. c \in Clients /\ forkConn[c] = "open" /\ holders[c] = {0}
  BY <1>0 DEF SlotsOpen, MainHolds
<1>2. /\ holders' = [holders EXCEPT ![c] = {}]
      /\ forkConn' = [forkConn EXCEPT ![c] = "closed"]
  <2>1. /\ holders' = [holders EXCEPT ![c] = @ \ {0}]
        /\ forkConn' = [forkConn EXCEPT ![c] =
                          IF holders'[c] = {} THEN "closed" ELSE @]
    BY DEF F!Closed
  <2>2. holders[c] \ {0} = {}
    BY <1>1
  <2> QED BY <1>0, <1>1, <2>1, <2>2 DEF ForkTyped
<1>3. \A m \in F!Tasks : Busy(m)' <=> Busy(m) /\ m # n
  BY <1>0 DEF Busy, ForkTyped
<1>4. Accepted' = Accepted
  BY <1>0, <1>1, <1>2 DEF Accepted, ForkTyped
<1>5. ForkTyped'
  BY <1>0, <1>1, <1>2 DEF ForkTyped
<1>6. NumCounts'
  BY <1>0, <1>4 DEF NumCounts, ForkTyped, Busy
<1>7. SlotsOpen'
  BY <1>0, <1>1, <1>2, <1>3 DEF SlotsOpen, ForkTyped
<1>8. MainHolds'
  <2>1. \A d \in Clients : holders'[d] \subseteq {0}
    BY <1>0, <1>1, <1>2 DEF MainHolds, ForkTyped
  <2>2. ASSUME NEW d \in Clients, forkConn'[d] = "open"
        PROVE  \E m \in F!Tasks : Busy(m)' /\ slot'[m] = d
    <3>1. d # c /\ forkConn[d] = "open"
      BY <1>0, <1>1, <1>2, <2>2 DEF ForkTyped
    <3>2. PICK m \in F!Tasks : Busy(m) /\ slot[m] = d
      BY <1>0, <3>1 DEF MainHolds
    <3> QED BY <1>3, <3>1, <3>2
  <2> QED BY <2>1, <2>2 DEF MainHolds
<1> QED BY <1>5, <1>6, <1>7, <1>8 DEF ForkInv, ChildHolds

\* A task's turn.
LEMMA TaskStep ==
  ASSUME ForkInv, NEW n \in F!Tasks, F!Task(n)
  PROVE  ForkInv'
<1>0. ForkTyped /\ NumCounts /\ SlotsOpen /\ ChildHolds /\ MainHolds
  BY DEF ForkInv
<1> DEFINE Same == /\ UNCHANGED <<forkProg, forkNum, cfd, slot, holders,
                                  forkConn>>
                   /\ forkMain' = forkMain \/
                        (forkMain' = "ended" /\ forkMain # "undefined")
<1>1. Busy(n)
  BY DEF F!Task, F!ReadData, F!ReadAgain, F!ReadEnd, F!Read, F!Write,
     F!SigPipe, Busy
<1>2. ASSUME Same, task' = task \/ \E s \in {"read", "write"} :
                                    task' = [task EXCEPT ![n] = s]
      PROVE  ForkInv'
  BY <1>0, <1>1, <1>2, ForkSame DEF Accepted, Busy, ForkTyped
<1>3. CASE F!ReadData(n)
  BY <1>2, <1>3 DEF F!ReadData, F!Read, F!TaskStep
<1>4. CASE F!ReadAgain(n)
  BY <1>2, <1>4 DEF F!ReadAgain, F!Read, F!TaskStep
<1>5. CASE F!ReadEnd(n)
  <2>1. UNCHANGED <<forkProg, cfd, forkNum, slot>>
    BY <1>5 DEF F!ReadEnd, F!Read, F!TaskStep
  <2>2. CASE forkProg = "process"
    BY <1>1, <1>5, <2>1, <2>2, ChildEndStep DEF F!ReadEnd
  <2>3. CASE forkProg # "process"
    <3>1. /\ F!Closed(0, slot[n]) /\ task' = [task EXCEPT ![n] = "reaped"]
          /\ forkMain' = forkMain \/ forkMain' = "accept"
          /\ forkMain # "undefined"
      BY <1>5, <2>3 DEF F!ReadEnd, F!Serves, F!Task, F!Runs, F!Alive
    <3> QED BY <1>1, <2>1, <2>3, <3>1, MainCloseStep
  <2> QED BY <2>2, <2>3
<1>6. CASE F!Write(n)
  BY <1>2, <1>6 DEF F!Write, F!TaskStep
<1>7. CASE F!SigPipe(n)
  <2>1. UNCHANGED <<forkProg, cfd, forkNum, slot>>
    BY <1>7 DEF F!SigPipe, F!TaskStep
  <2>2. CASE forkProg = "process"
    BY <1>1, <1>7, <2>1, <2>2, ChildEndStep DEF F!SigPipe
  <2>3. CASE forkProg # "process"
    BY <1>2, <1>7, <2>1, <2>3 DEF F!SigPipe, F!Task, F!Runs, F!Alive
  <2> QED BY <2>2, <2>3
<1> QED BY <1>3, <1>4, <1>5, <1>6, <1>7 DEF F!Task

\* No step of main, its handler, a task or a client breaks it.
LEMMA ForkStep == ASSUME ForkInv, ForkRun PROVE ForkInv'
<1> USE DEF F!MainStep, F!TaskStep, F!SignalStep, F!signalVars, F!socketVars
<1>0. ForkTyped /\ NumCounts /\ SlotsOpen /\ ChildHolds /\ MainHolds
  BY DEF ForkInv
<1>1. CASE UNCHANGED forkVars
  <2>1. /\ UNCHANGED <<forkProg, forkNum, cfd, slot, holders, task, forkConn,
                       forkMain>>
        /\ Accepted' = Accepted /\ \A n \in F!Tasks : Busy(n)' <=> Busy(n)
    BY <1>1 DEF forkVars, Accepted, Busy
  <2> QED BY <1>0, <2>1, ForkSame DEF ForkTyped
<1>2. ASSUME NEW c \in Clients, F!Accept(c) PROVE ForkInv'
  <2> DEFINE n == forkNum + 1
  <2>1. /\ forkMain = "accept" /\ forkConn[c] = "queued"
        /\ forkConn' = [forkConn EXCEPT ![c] = "open"]
        /\ holders' = [holders EXCEPT ![c] = {0}]
        /\ cfd' = c /\ forkNum' = n /\ forkProg' = forkProg
    BY <1>2 DEF F!Accept, F!Running
  <2>2. Cardinality(Accepted') = n /\ n \in F!Tasks
    BY <1>0, <2>1, OneMore
  <2>3. task[n] = "none" /\ holders[c] = {}
    BY <1>0, <2>1, <2>2 DEF NumCounts, SlotsOpen, ForkTyped
  <2>4. \A m \in F!Tasks : Busy(m) => slot[m] # c
    BY <1>0, <2>1 DEF SlotsOpen
  <2>5. CASE forkProg # "process" /\ (forkProg = "thread" => forkNum < Slots)
    <3>1. /\ task' = [task EXCEPT ![n] = "read"]
          /\ slot' = [slot EXCEPT ![n] = c]
          /\ forkMain' \in {"accept", "serve"} /\ forkProg # "process"
      BY <1>2, <2>1, <2>5 DEF F!Accept, F!Started
    <3>2. \A m \in F!Tasks : Busy(m)' <=> Busy(m) \/ m = n
      BY <1>0, <2>2, <3>1 DEF Busy, ForkTyped
    <3>3. ForkTyped'
      BY <1>0, <2>1, <2>2, <3>1 DEF ForkTyped
    <3>4. NumCounts'
      BY <1>0, <2>1, <2>2, <3>1, ForkGiven DEF NumCounts, ForkTyped
    <3>5. SlotsOpen'
      BY <1>0, <2>1, <2>2, <2>4, <3>1, <3>2 DEF SlotsOpen, ForkTyped
    <3>6. MainHolds'
      <4>1. \A d \in Clients : holders'[d] \subseteq {0}
        BY <1>0, <2>1, <3>1 DEF MainHolds, ForkTyped
      <4>2. ASSUME NEW d \in Clients, forkConn'[d] = "open"
            PROVE  \E m \in F!Tasks : Busy(m)' /\ slot'[m] = d
        <5>1. CASE d = c
          BY <1>0, <2>2, <3>1, <3>2, <5>1 DEF ForkTyped
        <5>2. CASE d # c
          <6>1. forkConn[d] = "open"
            BY <1>0, <2>1, <4>2, <5>2 DEF ForkTyped
          <6>2. PICK m \in F!Tasks : Busy(m) /\ slot[m] = d
            BY <1>0, <2>1, <3>1, <6>1 DEF MainHolds
          <6>3. slot'[m] = d
            BY <1>0, <2>3, <3>1, <6>2 DEF Busy, ForkTyped
          <6> QED BY <3>2, <6>2, <6>3
        <5> QED BY <5>1, <5>2
      <4> QED BY <4>1, <4>2 DEF MainHolds
    <3> QED BY <3>1, <2>1, <3>3, <3>4, <3>5, <3>6 DEF ForkInv, ChildHolds
  <2>6. CASE \/ forkProg = "process"
             \/ forkProg = "thread" /\ ~(forkNum < Slots)
    <3>1. /\ UNCHANGED <<task, slot>>
          /\ \/ forkMain' = "fork" /\ forkProg = "process"
             \/ forkMain' = "undefined" /\ forkProg = "thread"
      BY <1>2, <2>6 DEF F!Accept
    <3>2. \A m \in F!Tasks : Busy(m)' <=> Busy(m)
      BY <3>1 DEF Busy
    <3>3. ForkTyped'
      BY <1>0, <2>1, <2>2, <3>1 DEF ForkTyped
    <3>4. NumCounts'
      BY <1>0, <2>1, <2>2, <2>3, <3>1, ForkGiven DEF NumCounts, ForkTyped
    <3>5. SlotsOpen'
      BY <1>0, <2>1, <2>2, <2>4, <3>1, <3>2 DEF SlotsOpen, ForkTyped
    <3>6. ChildHolds'
      BY <1>0, <2>1, <2>3, <2>4, <3>1, <3>2, ForkGiven
      DEF ChildHolds, ForkTyped
    <3>7. MainHolds'
      BY <1>0, <2>1, <3>1 DEF MainHolds, ForkTyped
    <3> QED BY <3>3, <3>4, <3>5, <3>6, <3>7 DEF ForkInv
  <2> QED BY <2>5, <2>6
<1>3. CASE F!Fork
  <2> DEFINE n == forkNum
  <2>1. /\ forkMain = "fork" /\ forkMain' = "install"
        /\ task' = [task EXCEPT ![n] = "read"]
        /\ slot' = [slot EXCEPT ![n] = cfd]
        /\ UNCHANGED <<forkConn, cfd, forkNum, forkProg>>
    BY <1>3 DEF F!Fork, F!Running
  <2>2. /\ n \in F!Tasks /\ task[n] = "none" /\ forkProg = "process"
        /\ cfd \in Clients /\ holders[cfd] = {0}
    BY <1>0, <2>1 DEF NumCounts
  <2>3. holders' = [holders EXCEPT ![cfd] = {0, n}]
    <3>1. \A c \in Clients : 0 \in holders[c] <=> c = cfd
      BY <1>0, <2>2 DEF ChildHolds
    <3>2. holders' = [c \in Clients |-> IF c = cfd THEN {0, n} ELSE holders[c]]
      BY <1>3, <2>2, <3>1 DEF F!Fork
    <3> QED BY <1>0, <3>2 DEF ForkTyped
  <2>4. \A m \in F!Tasks : Busy(m)' <=> Busy(m) \/ m = n
    BY <1>0, <2>1, <2>2 DEF Busy, ForkTyped
  <2>5. \A m \in F!Tasks : Busy(m) => slot[m] # cfd
    BY <1>0, <2>2, ForkGiven DEF ChildHolds
  <2>6. ForkTyped'
    BY <1>0, <2>1, <2>2, <2>3 DEF ForkTyped
  <2>7. NumCounts'
    BY <1>0, <2>1, <2>2, <2>3 DEF NumCounts, Accepted, ForkTyped
  <2>8. SlotsOpen'
    BY <1>0, <2>1, <2>2, <2>3, <2>4, <2>5 DEF SlotsOpen, ForkTyped
  <2>9. ChildHolds'
    <3>1. \A d \in Clients : 0 \in holders'[d] => d = cfd
      BY <1>0, <2>2, <2>3 DEF ChildHolds, ForkTyped
    <3>2. ASSUME NEW d \in Clients, NEW m \in F!Tasks
          PROVE  m \in holders'[d] <=> Busy(m)' /\ slot'[m] = d
      <4>1. CASE m = n
        <5>1. ~Busy(n) /\ \A e \in Clients : n \notin holders[e]
          BY <1>0, <2>2 DEF ChildHolds, Busy
        <5> QED BY <1>0, <2>1, <2>2, <2>3, <2>4, <4>1, <5>1 DEF ForkTyped
      <4>2. CASE m # n
        <5>1. slot'[m] = slot[m] /\ m # 0
          BY <1>0, <2>1, <4>2, ForkGiven DEF ForkTyped
        <5>2. m \in holders'[d] <=> m \in holders[d]
          BY <1>0, <2>2, <2>3, <4>2, <5>1 DEF ForkTyped
        <5> QED BY <1>0, <2>2, <2>4, <4>2, <5>1, <5>2 DEF ChildHolds
      <4> QED BY <4>1, <4>2
    <3> QED BY <2>1, <3>1, <3>2 DEF ChildHolds
  <2> QED BY <2>1, <2>2, <2>6, <2>7, <2>8, <2>9 DEF ForkInv, MainHolds
<1>4. CASE F!ForkFails
  BY <1>0, <1>4, ForkSame DEF F!ForkFails, F!Running, Accepted, Busy, ForkTyped
<1>5. CASE F!Install
  <2>1. /\ forkMain = "install" /\ forkMain' = "accept"
        /\ F!Closed(0, cfd)
        /\ UNCHANGED <<cfd, forkNum, forkProg, task, slot>>
    BY <1>5 DEF F!Install, F!Running, F!ParentCloses, F!taskVars
  <2>2. forkProg = "process" /\ cfd \in Clients
    BY <1>0, <2>1 DEF NumCounts
  <2>3. /\ holders' = [holders EXCEPT ![cfd] = @ \ {0}]
        /\ holders'[cfd] = holders[cfd] \ {0}
        /\ forkConn' = [forkConn EXCEPT ![cfd] =
                          IF holders'[cfd] = {} THEN "closed" ELSE @]
    BY <1>0, <2>1, <2>2 DEF F!Closed, ForkTyped
  <2>4. \A m \in F!Tasks : Busy(m)' <=> Busy(m)
    BY <2>1 DEF Busy
  <2>5. Accepted' = Accepted
    <3>1. forkConn[cfd] = "open"
      BY <1>0, <2>1, <2>2 DEF NumCounts, SlotsOpen
    <3> QED BY <1>0, <2>2, <2>3, <3>1 DEF Accepted, ForkTyped
  <2>6. ForkTyped'
    BY <1>0, <2>1, <2>2, <2>3 DEF ForkTyped
  <2>7. NumCounts'
    BY <1>0, <2>1, <2>5 DEF NumCounts
  <2>8. ChildHolds'
    BY <1>0, <2>1, <2>2, <2>3, <2>4, ForkGiven DEF ChildHolds, ForkTyped
  <2>9. SlotsOpen'
    BY <1>0, <2>1, <2>2, <2>3, <2>4, ForkGiven
    DEF SlotsOpen, ChildHolds, ForkTyped
  <2> QED BY <2>1, <2>2, <2>6, <2>7, <2>8, <2>9 DEF ForkInv, MainHolds
<1>6. CASE F!Catch
  BY <1>0, <1>6, ForkSame DEF F!Catch, Accepted, Busy, ForkTyped
<1>7. CASE F!CatchReturns
  BY <1>0, <1>7, ForkSame DEF F!CatchReturns, Accepted, Busy, ForkTyped
<1>8. ASSUME NEW n \in F!Tasks, F!Reap(n) PROVE ForkInv'
  <2>1. /\ task[n] = "zombie" /\ task' = [task EXCEPT ![n] = "reaped"]
        /\ UNCHANGED <<forkProg, forkNum, cfd, slot, holders, forkConn,
                       forkMain>>
    BY <1>8 DEF F!Reap
  <2> QED BY <1>0, <2>1, ForkSame DEF Accepted, Busy, ForkTyped
<1>9. ASSUME NEW n \in F!Tasks, F!Task(n) PROVE ForkInv'
  BY <1>9, TaskStep
<1>10. ASSUME NEW c \in Clients, F!Client(c) \/ F!Departs(c) PROVE ForkInv'
  <2>1. /\ UNCHANGED <<forkProg, forkNum, cfd, slot, holders, task, forkMain>>
        /\ \/ forkConn' = forkConn
           \/ /\ forkConn[c] = "new"
              /\ forkConn' = [forkConn EXCEPT ![c] = "queued"]
    BY <1>10 DEF F!Client, F!Departs, F!Connect, F!Send, F!Finish, F!Leave,
         F!mainVars, F!taskVars
  <2>2. /\ forkConn' \in [Clients -> {"new", "queued", "open", "closed"}]
        /\ Accepted' = Accepted
        /\ \A d \in Clients : forkConn'[d] = "open" <=> forkConn[d] = "open"
    BY <1>0, <2>1 DEF Accepted, ForkTyped
  <2>3. /\ task' \in [F!Tasks -> {"none", "read", "write", "zombie", "reaped"}]
        /\ \A n \in F!Tasks : Busy(n)' <=> Busy(n)
    BY <1>0, <2>1 DEF Busy, ForkTyped
  <2> QED BY <1>0, <2>1, <2>2, <2>3, ForkSame
<1> QED BY <1>1, <1>2, <1>3, <1>4, <1>5, <1>6, <1>7, <1>8, <1>9, <1>10
        DEF ForkRun, F!Next, F!Main

\* While main waits for the next client, each connection that is open is served
\* by one task, and nobody else has its descriptor: fork copies them all, and
\* each copy that is not the child's own is closed by then.
THEOREM OneServer == Spec => []OneServerEach
<1>1. Init => ForkInv
  BY ForkInit
<1>2. ForkInv /\ [Next]_vars => ForkInv'
  BY ForkSteps, ForkStep
<1>3. ForkInv => OneServerEach
  <2> SUFFICES ASSUME ForkInv, forkMain = "accept", NEW c \in Clients,
                      forkConn[c] = "open"
               PROVE  \E n \in F!Tasks :
                        /\ Busy(n) /\ slot[n] = c
                        /\ \A m \in F!Tasks \ {n} : Busy(m) => slot[m] # c
                        /\ holders[c] = IF forkProg = "process" THEN {n}
                                                                ELSE {0}
    BY DEF OneServerEach, F!OneServerEach, F!Serves, Busy
  <2>1. ForkTyped /\ SlotsOpen /\ ChildHolds /\ MainHolds
    BY DEF ForkInv
  <2>2. holders[c] # {} /\ holders[c] \subseteq F!Tasks \union {0}
    BY <2>1 DEF SlotsOpen, ForkTyped
  <2>3. PICK n \in F!Tasks : Busy(n) /\ slot[n] = c
    <3>1. CASE forkProg = "process"
      BY <2>1, <2>2, <3>1 DEF ChildHolds
    <3>2. CASE forkProg # "process"
      BY <2>1, <3>2 DEF MainHolds
    <3> QED BY <3>1, <3>2
  <2>4. \A m \in F!Tasks : Busy(m) /\ slot[m] = c => m = n
    BY <2>1, <2>3 DEF SlotsOpen
  <2>5. forkProg = "process" => holders[c] = {n}
    BY <2>1, <2>2, <2>3, <2>4 DEF ChildHolds
  <2>6. forkProg # "process" => holders[c] = {0}
    BY <2>1, <2>2 DEF MainHolds
  <2> QED BY <2>3, <2>4, <2>5, <2>6
<1> QED BY <1>1, <1>2, <1>3, PTL DEF Spec

-----------------------------------------------------------------------------
(* What the servers that fork send back *)

ForkFlow(c, hand) == Flow(c, forkEcho[c], hand, forkInput[c], forkSent[c],
                          forkPeer[c])
Unserved(c) == \A n \in F!Tasks : Busy(n) => slot[n] # c

\* Who is closed has left, and got everything back if it listened. So has who
\* is closed as soon as main closes its copy.
Closing(c) == \/ forkConn[c] = "closed"
              \/ forkMain = "install" /\ holders[c] = {0}
ForkDone(c) == /\ forkPeer[c] # "up"
               /\ forkPeer[c] = "shut" => Len(forkEcho[c]) = forkSent[c]

ForkDomains ==
  /\ DOMAIN forkPeer = Clients /\ DOMAIN forkInput = Clients
  /\ DOMAIN forkSent = Clients /\ DOMAIN forkEcho = Clients

\* What a client sent is on its way in one place, and a task that has nothing
\* to write has an empty buffer.
ForkData ==
  /\ ForkDomains /\ DOMAIN forkBuf = F!Tasks
  /\ \A n \in F!Tasks : task[n] \in {"none", "read"} => forkBuf[n] = <<>>
  /\ \A n \in F!Tasks : Busy(n) => ForkFlow(slot[n], forkBuf[n])
  /\ \A c \in Clients : Unserved(c) => ForkFlow(c, <<>>)
  /\ \A c \in Clients : Closing(c) => ForkDone(c)

\* Nothing is sent yet.
LEMMA ForkDataInit == ASSUME Init PROVE ForkData
<1>1. /\ forkMain = "accept"
      /\ forkConn = [c \in Clients |-> "new"]
      /\ forkPeer = [c \in Clients |-> "up"]
      /\ forkInput = [c \in Clients |-> <<>>]
      /\ forkEcho = [c \in Clients |-> <<>>]
      /\ forkSent = [c \in Clients |-> 0]
      /\ forkBuf = [n \in F!Tasks |-> <<>>]
      /\ task = [n \in F!Tasks |-> "none"]
  BY DEF Init, F!Init, F!SocketInit
<1>2. \A c \in Clients : ForkFlow(c, <<>>)
  BY <1>1, FlowEmpty DEF ForkFlow
<1>3. \A n \in F!Tasks : ~Busy(n)
  BY <1>1 DEF Busy
<1>4. \A c \in Clients : ~Closing(c)
  BY <1>1 DEF Closing
<1> QED BY <1>1, <1>2, <1>3, <1>4 DEF ForkData, ForkDomains

\* Steps that move no data: tasks begin with an empty buffer, or become zombies
\* or reaped when they were before, and nobody is closed who was not to be.
LEMMA ForkQuiet ==
  ASSUME ForkData,
         UNCHANGED <<forkPeer, forkInput, forkSent, forkEcho, forkBuf>>,
         \A n \in F!Tasks : Busy(n)' =>
           \/ Busy(n) /\ slot'[n] = slot[n]
           \/ /\ task[n] = "none" /\ slot'[n] \in Clients
              /\ Unserved(slot'[n]),
         \A n \in F!Tasks : Busy(n) => Busy(n)' /\ slot'[n] = slot[n],
         \A n \in F!Tasks : task'[n] \in {"none", "read"} =>
                              task[n] \in {"none", "read"},
         \A c \in Clients : Closing(c)' => Closing(c)
  PROVE  ForkData'
<1>1. ForkDomains'
  BY DEF ForkData, ForkDomains
<1>2. \A n \in F!Tasks : task'[n] \in {"none", "read"} => forkBuf'[n] = <<>>
  BY DEF ForkData
<1>3. ASSUME NEW n \in F!Tasks, Busy(n)'
      PROVE  ForkFlow(slot[n], forkBuf[n])'
  <2>1. ForkFlow(slot'[n], forkBuf[n])
    <3>1. CASE Busy(n) /\ slot'[n] = slot[n]
      BY <3>1 DEF ForkData
    <3>2. CASE /\ task[n] = "none" /\ slot'[n] \in Clients
               /\ Unserved(slot'[n])
      BY <3>2 DEF ForkData
    <3> QED BY <1>3, <3>1, <3>2
  <2> QED BY <2>1 DEF ForkFlow
<1>4. ASSUME NEW c \in Clients, Unserved(c)' PROVE ForkFlow(c, <<>>)'
  <2>1. Unserved(c)
    BY <1>4 DEF Unserved
  <2> QED BY <2>1 DEF ForkData, ForkFlow
<1>5. ASSUME NEW c \in Clients, Closing(c)' PROVE ForkDone(c)'
  BY <1>5 DEF ForkData, ForkDone
<1> QED BY <1>1, <1>2, <1>3, <1>4, <1>5 DEF ForkData

\* What a step for client c leaves to the others.
OnlyFor(c) ==
  /\ ForkDomains'
  /\ \A d \in Clients \ {c} :
       /\ forkPeer'[d] = forkPeer[d] /\ forkInput'[d] = forkInput[d]
       /\ forkSent'[d] = forkSent[d] /\ forkEcho'[d] = forkEcho[d]

LEMMA ForkFrame ==
  ASSUME NEW c \in Clients, OnlyFor(c), NEW d \in Clients, d # c
  PROVE  /\ \A h : ForkFlow(d, h) => ForkFlow(d, h)'
         /\ ForkDone(d) => ForkDone(d)'
BY DEF OnlyFor, ForkFlow, ForkDone

\* A client that connects, sends or leaves.
LEMMA ForkClientData ==
  ASSUME ForkInv, ForkData, NEW c \in Clients, F!Client(c) \/ F!Departs(c)
  PROVE  ForkData'
<1>0. UNCHANGED <<forkMain, slot, task, holders, forkBuf>>
  BY DEF F!Client, F!Departs, F!mainVars, F!taskVars
<1>1. /\ \A n \in F!Tasks : Busy(n)' <=> Busy(n)
      /\ \A d \in Clients : Unserved(d)' <=> Unserved(d)
  BY <1>0 DEF Busy, Unserved
<1>2. CASE F!Connect(c)
  <2>1. /\ forkConn' = [forkConn EXCEPT ![c] = "queued"]
        /\ UNCHANGED <<forkPeer, forkInput, forkSent, forkEcho>>
    BY <1>2 DEF F!Connect
  <2>2. \A d \in Clients : Closing(d)' => Closing(d)
    BY <1>0, <2>1 DEF Closing, ForkInv, ForkTyped
  <2> QED BY <1>0, <1>1, <2>1, <2>2, ForkQuiet
<1>3. CASE F!Send(c) \/ F!Finish(c) \/ F!Leave(c)
  <2>1. forkPeer[c] = "up" /\ forkConn' = forkConn
    BY <1>3 DEF F!Send, F!Finish, F!Leave, F!Present
  <2>2. OnlyFor(c)
    BY <1>0, <1>3 DEF F!Send, F!Finish, F!Leave, OnlyFor, ForkData, ForkDomains
  <2>3. \A h : ForkFlow(c, h) => ForkFlow(c, h)'
    <3>1. CASE F!Send(c)
      <4>1. /\ forkSent' = [forkSent EXCEPT ![c] = @ + 1]
            /\ forkInput' = [forkInput EXCEPT ![c] =
                              Append(@, <<c, forkSent'[c]>>)]
            /\ UNCHANGED <<forkPeer, forkEcho>>
        BY <3>1 DEF F!Send
      <4>2. /\ forkSent'[c] = forkSent[c] + 1
            /\ forkInput'[c] = Append(forkInput[c], <<c, forkSent[c] + 1>>)
        BY <4>1 DEF ForkData, ForkDomains
      <4> QED BY <2>1, <4>1, <4>2, FlowSend DEF ForkFlow
    <3>2. CASE F!Finish(c) \/ F!Leave(c)
      <4>1. UNCHANGED <<forkInput, forkSent, forkEcho>>
        BY <3>2 DEF F!Finish, F!Leave
      <4> QED BY <2>1, <4>1, FlowLeave DEF ForkFlow, Listens
    <3> QED BY <1>3, <3>1, <3>2
  <2>4. ~Closing(c)
    BY <2>1 DEF ForkData, ForkDone
  <2>5. \A d \in Clients : Closing(d)' <=> Closing(d)
    BY <1>0, <2>1 DEF Closing
  <2>6. \A d \in Clients : Closing(d)' => ForkDone(d)'
    BY <2>2, <2>4, <2>5, ForkFrame DEF ForkData
  <2>7. \A d \in Clients : \A h : ForkFlow(d, h) => ForkFlow(d, h)'
    BY <2>2, <2>3, ForkFrame
  <2>8. \A d \in Clients : Unserved(d)' => ForkFlow(d, <<>>)'
    BY <1>1, <2>7 DEF ForkData
  <2>9. ASSUME NEW n \in F!Tasks, Busy(n)'
        PROVE  ForkFlow(slot[n], forkBuf[n])'
    <3>1. ForkFlow(slot[n], forkBuf[n]) /\ slot[n] \in Clients
      BY <1>1, <2>9 DEF ForkData, ForkInv, SlotsOpen
    <3>2. ForkFlow(slot[n], forkBuf[n])'
      <4>1. PICK d \in Clients : d = slot[n]
        BY <3>1
      <4>2. PICK h : h = forkBuf[n]
        OBVIOUS
      <4>3. ForkFlow(d, h)'
        BY <2>7, <3>1, <4>1, <4>2
      <4> QED BY <1>0, <4>1, <4>2, <4>3
    <3> QED BY <3>2
  <2> QED BY <1>0, <2>2, <2>6, <2>8, <2>9 DEF ForkData, OnlyFor
<1> QED BY <1>2, <1>3 DEF F!Client, F!Departs

\* The turn of task n, for its client: afterwards n has in hand what is in its
\* buffer, or serves no more.
LEMMA ForkTaskData ==
  ASSUME ForkInv, ForkData, NEW n \in F!Tasks, Busy(n), slot' = slot,
         OnlyFor(slot[n]), DOMAIN forkBuf' = F!Tasks,
         \A m \in F!Tasks \ {n} :
           task'[m] = task[m] /\ forkBuf'[m] = forkBuf[m],
         \/ /\ Busy(n)' /\ ForkFlow(slot[n], forkBuf[n])'
            /\ task'[n] = "read" => forkBuf'[n] = <<>>
         \/ task'[n] \in {"zombie", "reaped"} /\ ForkFlow(slot[n], <<>>)',
         \A d \in Clients : Closing(d)' =>
           Closing(d) \/ (d = slot[n] /\ ForkDone(d)')
  PROVE  ForkData'
<1>1. PICK c \in Clients : c = slot[n]
  BY DEF ForkInv, SlotsOpen
<1>2. /\ forkConn[c] = "open"
      /\ \A m \in F!Tasks : Busy(m) /\ slot[m] = c => m = n
  BY <1>1 DEF ForkInv, SlotsOpen
<1>3. ~Closing(c)
  <2>1. forkMain = "install" => n \in holders[c] /\ n # 0
    BY <1>1, ForkGiven DEF ForkInv, NumCounts, ChildHolds
  <2> QED BY <1>2, <2>1 DEF Closing
<1>4. \A d \in Clients : Closing(d)' => ForkDone(d)'
  BY <1>1, <1>3, ForkFrame DEF ForkData
<1>5. \A m \in F!Tasks \ {n} : Busy(m)' <=> Busy(m)
  BY DEF Busy
<1>6. ForkFlow(c, <<>>)' \/ Busy(n)'
  BY <1>1
<1>7. ASSUME NEW d \in Clients, Unserved(d)' PROVE ForkFlow(d, <<>>)'
  <2>1. CASE d = c
    <3>1. ~Busy(n)'
      BY <1>1, <1>7, <2>1 DEF Unserved
    <3> QED BY <1>6, <2>1, <3>1
  <2>2. CASE d # c
    <3>1. Unserved(d)
      BY <1>1, <1>5, <1>7, <2>2 DEF Unserved
    <3>2. ForkFlow(d, <<>>)
      BY <3>1 DEF ForkData
    <3> QED BY <1>1, <2>2, <3>2, ForkFrame
  <2> QED BY <2>1, <2>2
<1>8. ASSUME NEW m \in F!Tasks, Busy(m)'
      PROVE  ForkFlow(slot[m], forkBuf[m])'
  <2>1. CASE m = n
    BY <1>8, <2>1 DEF Busy
  <2>2. CASE m # n
    <3>1. Busy(m) /\ forkBuf'[m] = forkBuf[m]
      BY <1>5, <1>8, <2>2
    <3>2. PICK d \in Clients : d = slot[m]
      BY <3>1 DEF ForkInv, SlotsOpen
    <3>3. PICK h : h = forkBuf[m]
      OBVIOUS
    <3>4. d # c /\ ForkFlow(d, h)
      BY <1>2, <2>2, <3>1, <3>2, <3>3 DEF ForkData
    <3>5. ForkFlow(d, h)'
      BY <1>1, <3>4, ForkFrame
    <3> QED BY <3>1, <3>2, <3>3, <3>5
  <2> QED BY <2>1, <2>2
<1>9. ASSUME NEW m \in F!Tasks, task'[m] \in {"none", "read"}
      PROVE  forkBuf'[m] = <<>>
  BY <1>9 DEF ForkData, Busy
<1> QED BY <1>4, <1>7, <1>8, <1>9 DEF ForkData, OnlyFor

\* What Read takes, and what it says of who has nothing more to be read.
LEMMA ForkReadFacts ==
  ASSUME ForkInv, ForkData, NEW n \in F!Tasks, task[n] = "read",
         F!ReadReturns(slot[n]), F!ReadEffect(slot[n]),
         UNCHANGED <<forkSent, forkEcho, slot>>
  PROVE  /\ OnlyFor(slot[n])
         /\ F!Taken(slot[n]) \in 0..Len(forkInput[slot[n]])
         /\ \A h : h = SubSeq(forkInput[slot[n]], 1, F!Taken(slot[n])) =>
                   ForkFlow(slot[n], h)'
         /\ F!ReadResult(slot[n]) <= 0 =>
              ForkFlow(slot[n], <<>>)' /\ ForkDone(slot[n])'
<1>1. PICK c \in Clients : c = slot[n]
  BY DEF ForkInv, SlotsOpen, Busy
<1> DEFINE k == F!Taken(c)
           in == forkInput[c]
<1>2. ForkFlow(c, <<>>)
  BY <1>1 DEF ForkData, Busy
<1>3. BufLen \in Nat /\ BufLen > 0
  BY ProgramsAssumption DEF T!SocketAssumption
<1>4. /\ Len(in) \in Nat /\ in \in Seq(Clients \X Nat)
      /\ Len(forkEcho[c]) \in Nat /\ forkSent[c] \in Nat
  BY <1>2 DEF ForkFlow, Flow, Run
<1>5. k \in 0..Len(in)
  BY <1>3, <1>4 DEF F!Taken
<1>6. /\ forkInput' = [forkInput EXCEPT ![c] = SubSeq(in, k + 1, Len(in))]
      /\ forkPeer' = [forkPeer EXCEPT ![c] =
                       IF F!ReadResult(c) = -1 THEN "gone" ELSE @]
  BY <1>1 DEF F!ReadEffect
<1>7. /\ OnlyFor(c) /\ forkInput'[c] = SubSeq(in, k + 1, Len(in))
      /\ forkPeer'[c] = IF F!ReadResult(c) = -1 THEN "gone" ELSE forkPeer[c]
  BY <1>6 DEF OnlyFor, ForkData, ForkDomains
<1>8. CASE in # <<>>
  <2>1. Len(in) # 0
    BY <1>4, <1>8, EmptySeq
  <2>2. F!ReadResult(c) = k /\ k > 0 /\ ~(k <= 0) /\ k # -1
    BY <1>3, <1>4, <1>8, <2>1 DEF F!ReadResult, F!Taken
  <2>3. Flow(c, forkEcho[c], SubSeq(in, 1, k), SubSeq(in, k + 1, Len(in)),
             forkSent[c], forkPeer[c])
    BY <1>2, <1>5, FlowRead DEF ForkFlow
  <2>4. PICK h : h = SubSeq(in, 1, k)
    OBVIOUS
  <2>5. ForkFlow(c, h)'
    BY <1>7, <2>2, <2>3, <2>4 DEF ForkFlow
  <2> QED BY <1>1, <1>5, <1>7, <2>2, <2>4, <2>5
<1>9. CASE in = <<>>
  <2>1. forkInput'[c] = <<>>
    <3>1. SubSeq(<<>>, 0 + 1, 0) = <<>>
      OBVIOUS
    <3>2. k = 0 /\ Len(in) = 0
      BY <1>5, <1>9
    <3> QED BY <1>7, <1>9, <3>1, <3>2
  <2>2. ~Listens(forkPeer'[c]) \/ forkPeer'[c] = forkPeer[c]
    BY <1>7 DEF Listens
  <2>3. Flow(c, forkEcho[c], <<>>, <<>>, forkSent[c], forkPeer'[c])
    BY <1>2, <1>9, <2>2, FlowLeave DEF ForkFlow
  <2>4. ForkFlow(c, <<>>)'
    BY <2>1, <2>3 DEF ForkFlow
  <2>5. forkPeer'[c] # "up"
    BY <1>1, <1>7, <1>9 DEF F!ReadReturns, F!Readable
  <2>6. forkPeer'[c] = "shut" => Len(forkEcho[c]) = forkSent[c]
    BY <1>4, <2>3 DEF Flow, Listens
  <2>7. ForkDone(c)'
    BY <2>5, <2>6 DEF ForkDone
  <2>8. SubSeq(in, 1, k) = <<>>
    <3>1. SubSeq(<<>>, 1, 0) = <<>>
      OBVIOUS
    <3>2. k = 0
      BY <1>5, <1>9
    <3> QED BY <1>9, <3>1, <3>2
  <2> QED BY <1>1, <1>5, <1>7, <2>4, <2>7, <2>8
<1> QED BY <1>8, <1>9

\* What Write does with the units in hand, if it is not the end of the task.
LEMMA ForkWriteFacts ==
  ASSUME ForkInv, ForkData, NEW n \in F!Tasks, task[n] = "write",
         F!WriteEffect(slot[n], forkBuf[n]),
         UNCHANGED <<forkSent, forkInput, slot>>
  PROVE  OnlyFor(slot[n]) /\ ForkFlow(slot[n], <<>>)'
<1>1. PICK c \in Clients : c = slot[n]
  BY DEF ForkInv, SlotsOpen, Busy
<1>2. PICK h : h = forkBuf[n]
  OBVIOUS
<1>3. ForkFlow(c, h)
  BY <1>1, <1>2 DEF ForkData, Busy
<1>4. PICK p : /\ forkPeer' = [forkPeer EXCEPT ![c] = p]
               /\ \/ p = forkPeer[c]
                  \/ ~Listens(p) /\ ~Listens(forkPeer[c])
  BY <1>1 DEF F!WriteEffect, Listens
<1>5. forkEcho' = [forkEcho EXCEPT ![c] = IF Listens(forkPeer[c])
                                          THEN @ \o h ELSE @]
  BY <1>1, <1>2 DEF F!WriteEffect, Listens
<1>6. /\ OnlyFor(c) /\ forkPeer'[c] = p
      /\ forkEcho'[c] = IF Listens(forkPeer[c]) THEN forkEcho[c] \o h
                                                ELSE forkEcho[c]
  BY <1>4, <1>5 DEF OnlyFor, ForkData, ForkDomains
<1>7. CASE Listens(forkPeer[c])
  <2>1. Flow(c, forkEcho[c] \o h, <<>>, forkInput[c], forkSent[c], forkPeer[c])
    BY <1>3, <1>7, FlowWrite DEF ForkFlow
  <2> QED BY <1>1, <1>4, <1>6, <1>7, <2>1 DEF ForkFlow
<1>8. CASE ~Listens(forkPeer[c])
  <2>1. Flow(c, forkEcho[c], <<>>, forkInput[c], forkSent[c], forkPeer[c])
    BY <1>3, <1>8, FlowDrop DEF ForkFlow
  <2>2. Flow(c, forkEcho[c], <<>>, forkInput[c], forkSent[c], p)
    BY <1>4, <1>8, <2>1, FlowLeave
  <2> QED BY <1>1, <1>6, <1>8, <2>2 DEF ForkFlow
<1> QED BY <1>7, <1>8

\* Who is closed when the child of task n ends.
LEMMA ForkEndCloses ==
  ASSUME ForkInv, NEW n \in F!Tasks, Busy(n), slot' = slot,
         \/ forkProg = "process" /\ F!ChildEnds(n)
         \/ /\ forkProg # "process" /\ F!Closed(0, slot[n])
            /\ forkMain' # "install"
  PROVE  \A d \in Clients : Closing(d)' => Closing(d) \/ d = slot[n]
<1>1. CASE forkProg = "process"
  <2>1. \A d \in Clients : n \in holders[d] <=> d = slot[n]
    BY <1>1 DEF ForkInv, ChildHolds
  <2>2. \A d \in Clients : d # slot[n] =>
          holders'[d] = holders[d] /\ forkConn'[d] = forkConn[d]
    BY <1>1, <2>1 DEF F!ChildEnds, ForkInv, ForkTyped
  <2>3. forkMain' = forkMain
    BY <1>1 DEF F!ChildEnds
  <2> QED BY <2>2, <2>3 DEF Closing
<1>2. CASE forkProg # "process"
  <2>1. \A d \in Clients : d # slot[n] => forkConn'[d] = forkConn[d]
    BY <1>2 DEF F!Closed, ForkInv, ForkTyped
  <2> QED BY <1>2, <2>1 DEF Closing
<1> QED BY <1>1, <1>2

\* A task's turn.
LEMMA ForkTurnData ==
  ASSUME ForkInv, ForkData, NEW n \in F!Tasks, F!Task(n)
  PROVE  ForkData'
<1>0. Busy(n) /\ UNCHANGED <<forkProg, slot>> /\ ForkTyped /\ ForkDomains
  BY DEF F!Task, F!ReadData, F!ReadAgain, F!ReadEnd, F!Read, F!Write,
     F!SigPipe, Busy, F!TaskStep, ForkInv, ForkData
<1> DEFINE Others == \A m \in F!Tasks \ {n} :
                       task'[m] = task[m] /\ forkBuf'[m] = forkBuf[m]
           Now == \/ /\ Busy(n)' /\ ForkFlow(slot[n], forkBuf[n])'
                     /\ task'[n] = "read" => forkBuf'[n] = <<>>
                  \/ /\ task'[n] \in {"zombie", "reaped"}
                     /\ ForkFlow(slot[n], <<>>)'
           Closes == \A d \in Clients : Closing(d)' =>
                       Closing(d) \/ (d = slot[n] /\ ForkDone(d)')
<1>1. ASSUME OnlyFor(slot[n]), DOMAIN forkBuf' = F!Tasks, Others, Now, Closes
      PROVE  ForkData'
  BY <1>0, <1>1, ForkTaskData
<1>2. ASSUME F!Read(n)
      PROVE  /\ task[n] = "read" /\ OnlyFor(slot[n])
             /\ \A h : h = SubSeq(forkInput[slot[n]], 1, F!Taken(slot[n])) =>
                       ForkFlow(slot[n], h)'
             /\ F!ReadResult(slot[n]) <= 0 =>
                  ForkFlow(slot[n], <<>>)' /\ ForkDone(slot[n])'
  BY <1>0, <1>2, ForkReadFacts DEF F!Read, F!Serves
<1>3. \A d \in Clients : UNCHANGED <<forkConn, forkMain, holders>> =>
                           (Closing(d)' => Closing(d))
  BY DEF Closing
<1>4. CASE F!ReadData(n)
  <2>1. PICK h : h = SubSeq(forkInput[slot[n]], 1, F!Taken(slot[n]))
    OBVIOUS
  <2>2. /\ forkBuf' = [forkBuf EXCEPT ![n] = h]
        /\ task' = [task EXCEPT ![n] = "write"]
        /\ UNCHANGED <<forkConn, forkMain, holders>> /\ F!Read(n)
    BY <1>4, <2>1 DEF F!ReadData, F!Serves
  <2>3. /\ forkBuf'[n] = h /\ task'[n] = "write" /\ Others /\ Busy(n)'
        /\ DOMAIN forkBuf' = F!Tasks
    BY <1>0, <2>2 DEF ForkTyped, Busy, ForkData
  <2>4. ForkFlow(slot[n], forkBuf[n])'
    <3>1. ForkFlow(slot[n], h)'
      BY <1>2, <2>1, <2>2
    <3> QED BY <2>3, <3>1
  <2>5. Now
    BY <2>3, <2>4
  <2>6. Closes
    BY <1>3, <2>2
  <2> QED BY <1>1, <1>2, <2>2, <2>3, <2>5, <2>6
<1>5. CASE F!ReadAgain(n)
  <2>1. /\ F!Read(n) /\ F!ReadResult(slot[n]) = -1
        /\ UNCHANGED <<forkConn, forkMain, task, forkBuf, holders>>
    BY <1>5 DEF F!ReadAgain, F!Serves
  <2>2. task[n] = "read" /\ forkBuf[n] = <<>> /\ ForkFlow(slot[n], <<>>)'
    BY <1>2, <2>1 DEF ForkData
  <2>3. Now
    BY <2>1, <2>2 DEF Busy
  <2>4. Closes
    BY <1>3, <2>1
  <2> QED BY <1>1, <1>2, <2>1, <2>3, <2>4 DEF ForkData
<1>6. CASE F!ReadEnd(n)
  <2>1. /\ F!Read(n) /\ forkBuf' = forkBuf
        /\ F!ReadResult(slot[n]) = -1 \/ F!ReadResult(slot[n]) = 0
        /\ \/ forkProg = "process" /\ F!ChildEnds(n)
           \/ /\ forkProg # "process" /\ F!Closed(0, slot[n])
              /\ task' = [task EXCEPT ![n] = "reaped"]
              /\ forkMain' = forkMain \/ forkMain' = "accept"
    BY <1>6 DEF F!ReadEnd, F!Serves
  <2>2. ForkFlow(slot[n], <<>>)' /\ ForkDone(slot[n])'
    BY <1>2, <2>1
  <2>3. Others /\ task'[n] \in {"zombie", "reaped"}
    BY <1>0, <2>1 DEF F!ChildEnds, ForkTyped
  <2>4. forkProg # "process" => forkMain' # "install"
    BY <2>1 DEF ForkInv, NumCounts
  <2>5. \A d \in Clients : Closing(d)' => Closing(d) \/ d = slot[n]
    BY <1>0, <2>1, <2>4, ForkEndCloses
  <2>6. Closes
    <3>1. PICK c : c = slot[n]
      OBVIOUS
    <3>2. ForkDone(c)'
      BY <1>0, <2>2, <3>1
    <3> QED BY <2>5, <3>1, <3>2
  <2> QED BY <1>1, <1>2, <2>1, <2>2, <2>3, <2>6 DEF ForkData
<1>7. CASE F!Write(n)
  <2>1. /\ task[n] = "write" /\ task' = [task EXCEPT ![n] = "read"]
        /\ forkBuf' = [forkBuf EXCEPT ![n] = <<>>]
        /\ F!WriteEffect(slot[n], forkBuf[n])
        /\ UNCHANGED <<forkConn, forkInput, forkSent, forkMain, holders>>
    BY <1>7 DEF F!Write, F!Serves
  <2>2. OnlyFor(slot[n]) /\ ForkFlow(slot[n], <<>>)'
    BY <1>0, <2>1, ForkWriteFacts
  <2>3. /\ forkBuf'[n] = <<>> /\ task'[n] = "read" /\ Others /\ Busy(n)'
        /\ DOMAIN forkBuf' = F!Tasks
    BY <1>0, <2>1 DEF ForkTyped, Busy, ForkData
  <2>4. Now
    BY <2>2, <2>3
  <2>5. Closes
    BY <1>3, <2>1
  <2> QED BY <1>1, <2>2, <2>3, <2>4, <2>5
<1>8. CASE F!SigPipe(n)
  <2>1. /\ task[n] = "write" /\ ~Listens(forkPeer[slot[n]])
        /\ UNCHANGED <<forkPeer, forkInput, forkSent, forkEcho, forkBuf>>
        /\ \/ forkProg = "process" /\ F!ChildEnds(n)
           \/ forkMain' = "ended" /\ UNCHANGED <<forkConn, task, holders>>
    BY <1>8 DEF F!SigPipe, F!Serves, F!Kills, F!WriteKills, Listens
  <2>2. CASE forkProg = "process" /\ F!ChildEnds(n)
    <3>1. PICK c \in Clients : c = slot[n]
      BY <1>0 DEF ForkInv, SlotsOpen
    <3>2. PICK h : h = forkBuf[n]
      OBVIOUS
    <3>3. ForkFlow(c, h) /\ ~Listens(forkPeer[c])
      BY <1>0, <2>1, <3>1, <3>2 DEF ForkData, Listens
    <3>4. ForkFlow(c, <<>>)'
      BY <2>1, <3>3, FlowDrop DEF ForkFlow
    <3>5. ForkDone(c)'
      BY <2>1, <3>1 DEF ForkDone, Listens
    <3>6. Others /\ task'[n] \in {"zombie", "reaped"}
      BY <1>0, <2>1, <2>2 DEF F!ChildEnds, ForkTyped
    <3>7. \A d \in Clients : Closing(d)' => Closing(d) \/ d = slot[n]
      BY <1>0, <2>2, ForkEndCloses
    <3>8. Closes
      BY <3>1, <3>5, <3>7
    <3>9. OnlyFor(slot[n]) /\ DOMAIN forkBuf' = F!Tasks
      BY <1>0, <2>1 DEF OnlyFor, ForkDomains, ForkData
    <3>10. Now
      BY <1>0, <3>1, <3>4, <3>6
    <3> QED BY <1>1, <3>6, <3>8, <3>9, <3>10
  <2>3. CASE forkMain' = "ended" /\ UNCHANGED <<forkConn, task, holders>>
    <3>1. \A d \in Clients : Closing(d)' => Closing(d)
      BY <2>3 DEF Closing
    <3>2. \A m \in F!Tasks : Busy(m)' <=> Busy(m)
      BY <2>3 DEF Busy
    <3> QED BY <1>0, <2>1, <2>3, <3>1, <3>2, ForkQuiet
  <2> QED BY <2>1, <2>2, <2>3
<1> QED BY <1>4, <1>5, <1>6, <1>7, <1>8 DEF F!Task

\* No step of main, its handler, a task or a client breaks it.
LEMMA ForkDataStep == ASSUME ForkInv, ForkData, ForkRun PROVE ForkData'
<1> USE DEF F!MainStep, F!SignalStep, F!signalVars, F!socketVars, F!taskVars
<1>0. /\ ForkTyped /\ NumCounts /\ SlotsOpen /\ ChildHolds
      /\ DOMAIN slot = F!Tasks
  BY DEF ForkInv, ForkTyped
<1> DEFINE NoData == UNCHANGED <<forkPeer, forkInput, forkSent, forkEcho,
                                forkBuf>>
           SameTasks == /\ UNCHANGED slot
                        /\ \A n \in F!Tasks : Busy(n)' <=> Busy(n)
                        /\ \A n \in F!Tasks :
                             task'[n] \in {"none", "read"} =>
                               task[n] \in {"none", "read"}
           Closes == \A c \in Clients : Closing(c)' => Closing(c)
<1>1. ASSUME NoData, SameTasks, Closes PROVE ForkData'
  BY <1>1, ForkQuiet
<1>2. UNCHANGED <<task, slot>> => SameTasks
  BY DEF Busy
<1>3. CASE UNCHANGED forkVars
  <2>1. Closes
    BY <1>3 DEF forkVars, Closing
  <2> QED BY <1>1, <1>2, <1>3, <2>1 DEF forkVars
<1>4. ASSUME NEW c \in Clients, F!Accept(c) PROVE ForkData'
  <2>1. /\ NoData /\ forkConn[c] = "queued"
        /\ forkConn' = [forkConn EXCEPT ![c] = "open"]
        /\ forkMain' # "install"
        /\ \/ UNCHANGED <<task, slot>>
           \/ F!Started(c)
    BY <1>4 DEF F!Accept, F!Running
  <2>2. Closes
    BY <1>0, <2>1 DEF Closing, ForkTyped
  <2>3. CASE UNCHANGED <<task, slot>>
    BY <1>1, <1>2, <2>1, <2>2, <2>3
  <2>4. CASE F!Started(c)
    <3>1. /\ task' = [task EXCEPT ![forkNum + 1] = "read"]
          /\ slot' = [slot EXCEPT ![forkNum + 1] = c]
      BY <2>4 DEF F!Started
    <3>2. forkNum + 1 \in F!Tasks /\ task[forkNum + 1] = "none"
      <4>1. forkNum + 1 \in F!Tasks
        BY <1>0, <2>1, OneMore
      <4> QED BY <1>0, <4>1 DEF NumCounts, ForkTyped
    <3>3. Unserved(c)
      BY <1>0, <2>1 DEF Unserved, SlotsOpen
    <3>4. \A n \in F!Tasks : n # forkNum + 1 =>
            task'[n] = task[n] /\ slot'[n] = slot[n]
      BY <1>0, <3>1 DEF ForkTyped
    <3>5. task'[forkNum + 1] = "read" /\ slot'[forkNum + 1] = c
      BY <1>0, <3>1, <3>2 DEF ForkTyped
    <3> QED BY <2>1, <2>2, <3>2, <3>3, <3>4, <3>5, ForkQuiet DEF Busy
  <2> QED BY <2>1, <2>3, <2>4
<1>5. CASE F!Fork
  <2>1. /\ NoData /\ forkMain = "fork" /\ forkMain' = "install"
        /\ task' = [task EXCEPT ![forkNum] = "read"]
        /\ slot' = [slot EXCEPT ![forkNum] = cfd]
        /\ holders' = [c \in Clients |->
                        IF 0 \in holders[c] THEN holders[c] \union {forkNum}
                        ELSE holders[c]]
        /\ forkConn' = forkConn
    BY <1>5 DEF F!Fork, F!Running
  <2>2. /\ forkNum \in F!Tasks /\ task[forkNum] = "none"
        /\ forkProg = "process" /\ cfd \in Clients /\ holders[cfd] = {0}
        /\ forkNum # 0
    BY <1>0, <2>1, ForkGiven DEF NumCounts
  <2>3. Unserved(cfd)
    BY <1>0, <2>2, ForkGiven DEF Unserved, ChildHolds
  <2>4. \A n \in F!Tasks : n # forkNum =>
          task'[n] = task[n] /\ slot'[n] = slot[n]
    BY <1>0, <2>1 DEF ForkTyped
  <2>5. task'[forkNum] = "read" /\ slot'[forkNum] = cfd
    BY <1>0, <2>1, <2>2 DEF ForkTyped
  <2>6. \A c \in Clients : holders'[c] # {0}
    BY <2>1, <2>2
  <2>7. Closes
    BY <2>1, <2>6 DEF Closing
  <2> QED BY <2>1, <2>2, <2>3, <2>4, <2>5, <2>7, ForkQuiet DEF Busy
<1>6. CASE F!ForkFails
  <2>1. NoData /\ UNCHANGED <<task, slot>> /\ Closes
    BY <1>6 DEF F!ForkFails, Closing
  <2> QED BY <1>1, <1>2, <2>1
<1>7. CASE F!Install
  <2>1. /\ NoData /\ UNCHANGED <<task, slot>> /\ forkMain = "install"
        /\ forkMain' = "accept" /\ F!Closed(0, cfd)
    BY <1>7 DEF F!Install, F!Running, F!ParentCloses
  <2>2. cfd \in Clients /\ 0 \in holders[cfd]
    BY <1>0, <2>1 DEF NumCounts
  <2>3. /\ holders'[cfd] = holders[cfd] \ {0}
        /\ forkConn'[cfd] = IF holders'[cfd] = {} THEN "closed"
                                                  ELSE forkConn[cfd]
        /\ \A d \in Clients : d # cfd => forkConn'[d] = forkConn[d]
    BY <1>0, <2>1, <2>2 DEF F!Closed, ForkTyped
  <2>4. holders'[cfd] = {} => holders[cfd] = {0}
    BY <2>2, <2>3
  <2>5. Closes
    BY <2>1, <2>3, <2>4 DEF Closing
  <2> QED BY <1>1, <1>2, <2>1, <2>5
<1>8. CASE F!Catch \/ F!CatchReturns
  <2>1. NoData /\ UNCHANGED <<task, slot>> /\ Closes
    BY <1>8 DEF F!Catch, F!CatchReturns, Closing
  <2> QED BY <1>1, <1>2, <2>1
<1>9. ASSUME NEW n \in F!Tasks, F!Reap(n) PROVE ForkData'
  <2>1. /\ task[n] = "zombie" /\ task' = [task EXCEPT ![n] = "reaped"]
        /\ NoData /\ UNCHANGED slot /\ Closes
    BY <1>9 DEF F!Reap, Closing
  <2>2. SameTasks
    BY <1>0, <2>1 DEF Busy, ForkTyped
  <2> QED BY <1>1, <2>1, <2>2
<1>10. ASSUME NEW n \in F!Tasks, F!Task(n) PROVE ForkData'
  BY <1>10, ForkTurnData
<1>11. ASSUME NEW c \in Clients, F!Client(c) \/ F!Departs(c) PROVE ForkData'
  BY <1>11, ForkClientData
<1> QED BY <1>3, <1>4, <1>5, <1>6, <1>7, <1>8, <1>9, <1>10, <1>11
        DEF ForkRun, F!Next, F!Main

\* A client of these servers gets back what it sent.
LEMMA ForkEchoes == ASSUME ForkInv, ForkData PROVE F!EchoWhole
<1> SUFFICES ASSUME NEW c \in Clients
             PROVE  /\ \A k \in DOMAIN forkEcho[c] : forkEcho[c][k] = <<c, k>>
                    /\ forkConn[c] = "closed" /\ forkPeer[c] = "shut" =>
                         Len(forkEcho[c]) = forkSent[c]
  BY DEF F!EchoWhole
<1>1. Run(c, forkEcho[c], 0)
  <2>1. CASE Unserved(c)
    BY <2>1 DEF ForkData, ForkFlow, Flow
  <2>2. CASE ~Unserved(c)
    BY <2>2 DEF Unserved, ForkData, ForkFlow, Flow
  <2> QED BY <2>1, <2>2
<1>2. \A k \in 1..Len(forkEcho[c]) : forkEcho[c][k] = <<c, k>>
  <2>1. \A k \in 1..Len(forkEcho[c]) : 0 + k = k
    BY <1>1 DEF Run
  <2> QED BY <1>1, <2>1 DEF Run
<1>3. DOMAIN forkEcho[c] = 1..Len(forkEcho[c])
  BY <1>1 DEF Run
<1> QED BY <1>2, <1>3 DEF ForkData, Closing, ForkDone

-----------------------------------------------------------------------------
(* Types *)

UnitSeqs == Seq(Clients \X Nat)

\* The two parts of what is read in part.
LEMMA PartsTyped ==
  ASSUME NEW s \in UnitSeqs, NEW k \in 0..Len(s)
  PROVE  SubSeq(s, 1, k) \in UnitSeqs /\ SubSeq(s, k + 1, Len(s)) \in UnitSeqs
BY SubSeqProperties DEF UnitSeqs

\* What fills a buffer, or has been read in part, is of the same type.
LEMMA ForkReadTyped ==
  ASSUME F!SocketTypeOK, NEW c \in Clients, F!ReadEffect(c)
  PROVE  /\ forkInput' \in [Clients -> UnitSeqs]
         /\ forkPeer' \in [Clients -> {"up", "shut", "closed", "broken",
                                       "reset", "gone"}]
         /\ SubSeq(forkInput[c], 1, F!Taken(c)) \in UnitSeqs
<1>1. forkInput[c] \in UnitSeqs
  BY DEF F!SocketTypeOK, UnitSeqs
<1>2. F!Taken(c) \in 0..Len(forkInput[c])
  BY <1>1, ProgramsAssumption
     DEF F!Taken, T!SocketAssumption, UnitSeqs
<1>3. /\ SubSeq(forkInput[c], 1, F!Taken(c)) \in UnitSeqs
      /\ SubSeq(forkInput[c], F!Taken(c) + 1, Len(forkInput[c])) \in UnitSeqs
  BY <1>1, <1>2, PartsTyped
<1> QED BY <1>3 DEF F!ReadEffect, F!SocketTypeOK, UnitSeqs

LEMMA ForkWriteTyped ==
  ASSUME F!SocketTypeOK, NEW c \in Clients, NEW data \in UnitSeqs,
         F!WriteEffect(c, data)
  PROVE  /\ forkEcho' \in [Clients -> UnitSeqs]
         /\ forkPeer' \in [Clients -> {"up", "shut", "closed", "broken",
                                       "reset", "gone"}]
<1>1. forkEcho[c] \o data \in UnitSeqs
  BY DEF F!SocketTypeOK, UnitSeqs
<1> QED BY <1>1 DEF F!WriteEffect, F!SocketTypeOK, UnitSeqs

LEMMA ForkClientTyped ==
  ASSUME F!SocketTypeOK, NEW c \in Clients,
         F!Connect(c) \/ F!Send(c) \/ F!Finish(c) \/ F!Leave(c)
  PROVE  F!SocketTypeOK'
<1>1. CASE F!Connect(c)
  BY <1>1 DEF F!Connect, F!SocketTypeOK
<1>2. CASE F!Send(c)
  <2>1. /\ forkSent[c] < Units[c] /\ Units \in [Clients -> Nat]
        /\ forkSent' = [forkSent EXCEPT ![c] = @ + 1]
        /\ forkInput' = [forkInput EXCEPT ![c] =
                           Append(@, <<c, forkSent'[c]>>)]
        /\ UNCHANGED <<forkConn, forkPeer, forkEcho>>
    BY <1>2, ProgramsAssumption DEF F!Send, T!SocketAssumption
  <2>2. /\ forkSent' \in [Clients -> Nat] /\ forkSent'[c] \in Nat
        /\ \A d \in Clients : forkSent'[d] <= Units[d]
    BY <2>1 DEF F!SocketTypeOK
  <2>3. Append(forkInput[c], <<c, forkSent'[c]>>) \in UnitSeqs
    BY <2>2 DEF F!SocketTypeOK, UnitSeqs
  <2> QED BY <2>1, <2>2, <2>3 DEF F!SocketTypeOK, UnitSeqs
<1>3. CASE F!Finish(c)
  BY <1>3 DEF F!Finish, F!SocketTypeOK
<1>4. CASE F!Leave(c)
  <2>1. Departures[c] \subseteq {"shut", "closed", "reset"}
    BY ProgramsAssumption DEF T!SocketAssumption
  <2> QED BY <1>4, <2>1 DEF F!Leave, F!SocketTypeOK
<1> QED BY <1>1, <1>2, <1>3, <1>4

\* What ForkTyped does not say of main and the tasks.
ForkMore ==
  /\ forkProg \in ForkPrograms /\ cfd \in Clients \union {NoClient}
  /\ slot \in [F!Tasks -> Clients \union {NoClient}]
  /\ forkBuf \in [F!Tasks -> UnitSeqs]
  /\ forkHandler \in BOOLEAN /\ forkPending \in BOOLEAN
  /\ forkHandling \in BOOLEAN /\ unheard \subseteq F!Tasks

\* The rest of the types is in ForkInv.
LEMMA ForkTypesAre ==
  ASSUME ForkInv, F!SocketTypeOK, ForkMore
  PROVE  F!TypeOK
<1>1. forkNum \in 0..Cardinality(Clients)
  <2>1. Accepted \subseteq Clients /\ forkNum = Cardinality(Accepted)
    BY DEF Accepted, ForkInv, NumCounts
  <2>2. Cardinality(Accepted) <= Cardinality(Clients)
    BY <2>1, ForkGiven, FS_Subset
  <2> QED BY <2>1, <2>2, ForkGiven DEF ForkInv, ForkTyped
<1>2. F!Cardinality(Clients) = Cardinality(Clients)
  BY DEF F!Cardinality, Cardinality
<1> QED BY <1>1, <1>2 DEF F!TypeOK, ForkInv, ForkTyped, ForkMore, UnitSeqs

LEMMA ForkTypesInit == ASSUME Init PROVE F!SocketTypeOK /\ ForkMore
<1>1. F!Init /\ <<>> \in UnitSeqs /\ Units \in [Clients -> Nat]
  BY ProgramsAssumption DEF Init, UnitSeqs, T!SocketAssumption
<1>2. ForkMore
  BY <1>1 DEF F!Init, ForkMore
<1>3. F!SocketTypeOK
  <2>1. /\ [c \in Clients |-> <<>>] \in [Clients -> UnitSeqs]
        /\ [c \in Clients |-> 0] \in [Clients -> Nat]
        /\ \A c \in Clients : 0 <= Units[c]
    BY <1>1
  <2> QED BY <1>1, <2>1 DEF F!Init, F!SocketInit, F!SocketTypeOK, UnitSeqs
<1> QED BY <1>2, <1>3

LEMMA ForkTypesStep ==
  ASSUME ForkInv, ForkInv', F!SocketTypeOK, ForkMore, ForkRun
  PROVE  F!SocketTypeOK' /\ ForkMore'
<1> USE DEF F!MainStep, F!TaskStep, F!SignalStep, F!signalVars, F!socketVars
<1>c. forkConn' \in [Clients -> {"new", "queued", "open", "closed"}]
  BY DEF ForkInv, ForkTyped
<1>s. ASSUME UNCHANGED <<forkPeer, forkInput, forkSent, forkEcho>>
      PROVE  F!SocketTypeOK'
  BY <1>c, <1>s DEF F!SocketTypeOK
<1>e. <<>> \in UnitSeqs
  BY DEF UnitSeqs
<1>1. CASE UNCHANGED forkVars
  BY <1>1 DEF forkVars, F!SocketTypeOK, ForkMore
<1>2. ASSUME NEW c \in Clients, F!Accept(c) PROVE F!SocketTypeOK' /\ ForkMore'
  <2>1. /\ UNCHANGED <<forkPeer, forkInput, forkSent, forkEcho, forkProg,
                       forkBuf, forkHandler, forkPending, forkHandling,
                       unheard>>
        /\ cfd' = c
        /\ UNCHANGED slot \/ slot' = [slot EXCEPT ![forkNum + 1] = c]
    BY <1>2 DEF F!Accept, F!Started
  <2> QED BY <1>s, <2>1 DEF ForkMore
<1>3. CASE F!Fork
  BY <1>3, <1>s DEF F!Fork, ForkMore
<1>4. CASE F!ForkFails
  BY <1>4, <1>s DEF F!ForkFails, ForkMore
<1>5. CASE F!Install
  BY <1>5, <1>s DEF F!Install, ForkMore, F!taskVars
<1>6. CASE F!Catch \/ F!CatchReturns \/ \E n \in F!Tasks : F!Reap(n)
  BY <1>6, <1>s DEF F!Catch, F!CatchReturns, F!Reap, F!ReapNext, ForkMore
<1>7. ASSUME NEW n \in F!Tasks, F!Task(n) PROVE F!SocketTypeOK' /\ ForkMore'
  <2>0. UNCHANGED <<forkProg, cfd, slot>> /\ forkBuf[n] \in UnitSeqs
    BY <1>7 DEF F!Task, F!ReadData, F!ReadAgain, F!ReadEnd, F!Read, F!Write,
         F!SigPipe, ForkMore
  <2>1. slot[n] \in Clients
    BY <1>7 DEF F!Task, F!ReadData, F!ReadAgain, F!ReadEnd, F!Read, F!Write,
         F!SigPipe, ForkInv, SlotsOpen, Busy
  <2>2. ASSUME F!Read(n)
        PROVE  /\ F!SocketTypeOK'
               /\ SubSeq(forkInput[slot[n]], 1, F!Taken(slot[n])) \in UnitSeqs
    <3>1. F!ReadEffect(slot[n]) /\ UNCHANGED <<forkSent, forkEcho>>
      BY <2>2 DEF F!Read, F!Serves
    <3> QED BY <1>c, <2>1, <3>1, ForkReadTyped DEF F!SocketTypeOK, UnitSeqs
  <2>3. \/ UNCHANGED <<forkHandler, forkPending, forkHandling, unheard>>
        \/ F!ChildEnds(n)
    BY <1>7 DEF F!Task, F!ReadData, F!ReadAgain, F!ReadEnd, F!Write, F!SigPipe
  <2>4. /\ forkHandler' \in BOOLEAN /\ forkPending' \in BOOLEAN
        /\ forkHandling' \in BOOLEAN /\ unheard' \subseteq F!Tasks
    <3>1. CASE UNCHANGED <<forkHandler, forkPending, forkHandling, unheard>>
      BY <3>1 DEF ForkMore
    <3>2. CASE F!ChildEnds(n)
      BY <3>2 DEF F!ChildEnds, ForkMore
    <3> QED BY <2>3, <3>1, <3>2
  <2>5. ASSUME forkBuf' = forkBuf \/
                 \E d \in UnitSeqs : forkBuf' = [forkBuf EXCEPT ![n] = d]
        PROVE  ForkMore'
    BY <2>0, <2>4, <2>5 DEF ForkMore
  <2>6. CASE F!ReadData(n)
    BY <2>2, <2>5, <2>6 DEF F!ReadData, F!Serves
  <2>7. CASE F!ReadAgain(n) \/ F!ReadEnd(n)
    BY <2>2, <2>5, <2>7 DEF F!ReadAgain, F!ReadEnd
  <2>8. CASE F!Write(n)
    <3>1. /\ F!WriteEffect(slot[n], forkBuf[n])
          /\ UNCHANGED <<forkInput, forkSent>>
      BY <2>8 DEF F!Write, F!Serves
    <3>2. F!SocketTypeOK'
      BY <1>c, <2>0, <2>1, <3>1, ForkWriteTyped DEF F!SocketTypeOK, UnitSeqs
    <3> QED BY <1>e, <2>5, <2>8, <3>2 DEF F!Write
  <2>9. CASE F!SigPipe(n)
    BY <1>s, <2>5, <2>9 DEF F!SigPipe
  <2> QED BY <1>7, <2>6, <2>7, <2>8, <2>9 DEF F!Task
<1>8. ASSUME NEW c \in Clients, F!Client(c) \/ F!Departs(c)
      PROVE  F!SocketTypeOK' /\ ForkMore'
  <2>1. ForkMore'
    BY <1>8 DEF F!Client, F!Departs, F!mainVars, F!taskVars, ForkMore
  <2> QED BY <1>8, <2>1, ForkClientTyped DEF F!Client, F!Departs
<1> QED BY <1>1, <1>2, <1>3, <1>4, <1>5, <1>6, <1>7, <1>8
        DEF ForkRun, F!Next, F!Main

=============================================================================
