----------------------------- MODULE SyncProofs -----------------------------
(***************************************************************************)
(* Proofs about the programs of pthread_sync, in the composition of all    *)
(* programs: what a lock protects is not divided, and the ring and the     *)
(* list between producers and consumers are the buffer they expect.        *)
(***************************************************************************)
EXTENDS MCPrograms, TLAPS, FiniteSetTheorems, SequenceTheorems

-----------------------------------------------------------------------------
(* Locks *)

LocksRun == L!Next \/ UNCHANGED lockVars

\* A step of the composition is a step of Locks or leaves its variables alone.
LEMMA LocksSteps == ASSUME [Next]_vars PROVE LocksRun
BY DEF LocksRun, Next, vars, InTableServers, InForkServers, InProducers,
  InLocks, InChildren, InStreams, InStreamWrap, InLibevent, InDatagrams,
  InListing, InBufferevents

\* Whoever is between a lock and its unlock has it: a line's printer the mutex,
\* a writer the rwlock, with no reader beside it.
LineHeld ==
  \A s \in L!Pair : lockProg = "share" /\ lockPc[s] \in {"second", "unlock"}
                      => owner["mutex"] = s
WriteHeld ==
  \A s \in Writers : lockPc[s] \in {"store", "unlock"}
                       => owner["rwlock"] = s /\ sharing = {}

\* What a writer loaded is still the counter when it stores.
LoadedNow ==
  \A s \in Writers : lockPc[s] = "store"
                       => loaded[s] = counter /\ counter < Writes
CountedOnce == counter = lockWritten /\ \A s \in Writers : t[s] <= counter

LockInv == L!TypeOK /\ LineHeld /\ WriteHeld /\ LoadedNow /\ CountedOnce

USE DEF L!Pair, L!Mutexes

\* What the constants of Locks are.
LEMMA LockNames ==
  /\ Writes \in Nat /\ Writers \intersect Readers = {}
  /\ "nobody" \notin L!Threads
  /\ L!Pair \intersect Writers = {} /\ L!Pair \intersect Readers = {}
  /\ L!Pair \subseteq L!Threads /\ Writers \subseteq L!Threads
  /\ Readers \subseteq L!Threads
BY ProgramsAssumption DEF L!LocksAssumption, L!Threads

\* The programs with locks begin so.
LEMMA LockInit == ASSUME Init PROVE LockInv
BY LockNames DEF Init, LockInv, LineHeld, WriteHeld, LoadedNow, CountedOnce,
  L!Init, L!TypeOK

\* No step of main, a child, a writer or a reader breaks it.
LEMMA LockStep == ASSUME LockInv, LocksRun PROVE LockInv'
<1> USE LockNames
<1> USE DEF LockInv, L!TypeOK, LineHeld, WriteHeld, LoadedNow, CountedOnce,
      L!At, L!Goto
<1>1. CASE UNCHANGED lockVars
  BY <1>1 DEF lockVars
<1>2. CASE L!Next
  <2>1. PICK s \in L!Threads : L!Step(s)
    BY <1>2 DEF L!Next
  \* pthread_LOCK.c: none of what the other programs hold.
  <2>2. CASE L!LockFirst(s) \/ L!LockSecond(s)
    <3>1. /\ s \in L!Pair /\ lockProg = "LOCK" /\ L!InLOCK
          /\ UNCHANGED destroyed
          /\ \E m \in {"mutex", "mutex1"} : L!Take(s, m)
          /\ \E label \in {"second", "unlock"} :
               lockPc' = [lockPc EXCEPT ![s] = label]
      BY <2>2 DEF L!LockFirst, L!LockSecond, L!FirstOf, L!SecondOf
    <3> QED BY <3>1 DEF L!Take, L!InLOCK, L!counterVars
  <2>3. CASE L!LockFails(s)
    BY <2>3 DEF L!LockFails, L!InLOCK, L!counterVars, L!mutexVars
  <2>4. CASE L!Unlock(s) \/ L!Unlock1(s)
    <3>1. /\ s \in L!Pair /\ lockProg = "LOCK" /\ L!InLOCK
          /\ UNCHANGED destroyed
          /\ \E m \in {"mutex", "mutex1"} :
               owner' = [owner EXCEPT ![m] = "nobody"]
          /\ \E label \in {"unlock1", "destroy", "done"} :
               lockPc' = [lockPc EXCEPT ![s] = label]
      BY <2>4 DEF L!Unlock, L!Unlock1, L!Release
    <3> QED BY <3>1 DEF L!InLOCK, L!counterVars
  <2>5. CASE s = "main" /\ (\/ L!Join
                            \/ L!Destroy("mutex", "destroy", "destroy1")
                            \/ L!Destroy("mutex1", "destroy1", "join"))
    <3>1. /\ lockProg = "LOCK" /\ L!InLOCK /\ UNCHANGED owner
          /\ destroyed' \in SUBSET L!Mutexes
          /\ \E label \in {"destroy1", "join", "done"} :
               lockPc' = [lockPc EXCEPT !["main"] = label]
      BY <2>5 DEF L!Join, L!Destroy, L!mutexVars
    <3> QED BY <3>1 DEF L!InLOCK, L!counterVars
  <2>6. CASE L!Hello(s)
    BY <2>6 DEF L!Hello, L!Take, L!InShare, L!counterVars
  <2>7. CASE L!World(s)
    BY <2>7 DEF L!World, L!InShare, L!counterVars
  <2>8. CASE L!UnlockLine(s)
    BY <2>8 DEF L!UnlockLine, L!Release, L!InShare, L!counterVars
  <2>9. CASE L!Sample(s)
    BY <2>9 DEF L!Sample, L!InRwlock
  <2>10. CASE L!LoadCounter(s)
    BY <2>10 DEF L!LoadCounter, L!WriteLock, L!Take, L!InRwlock
  <2>11. CASE L!StoreCounter(s)
    BY <2>11 DEF L!StoreCounter, L!InRwlock
  <2>12. CASE L!UnlockWrite(s)
    BY <2>12 DEF L!UnlockWrite, L!Release, L!InRwlock, L!counterVars
  <2>13. CASE L!ReadLock(s)
    BY <2>13 DEF L!ReadLock, L!InRwlock
  <2>14. CASE L!UnlockRead(s)
    BY <2>14 DEF L!UnlockRead, L!InRwlock
  <2> QED BY <2>1, <2>2, <2>3, <2>4, <2>5, <2>6, <2>7, <2>8, <2>9, <2>10,
             <2>11, <2>12, <2>13, <2>14 DEF L!Step
<1> QED BY <1>1, <1>2 DEF LocksRun

\* At most one of two has begun a line, as the mutex has one owner.
LEMMA OneLine ==
  ASSUME LockInv, lockProg = "share"
  PROVE  L!Cardinality({s \in L!Pair : lockPc[s] = "second"}) <= 1
<1> DEFINE Begun == {s \in L!Pair : lockPc[s] = "second"}
<1>1. \A s \in Begun : s = owner["mutex"]
  BY DEF LockInv, LineHeld
<1>2. Begun = {} \/ Begun = {owner["mutex"]}
  BY <1>1
<1>3. Cardinality({}) = 0 /\ Cardinality({owner["mutex"]}) = 1
  BY FS_EmptySet, FS_Singleton, Zenon
<1>4. L!Cardinality(Begun) = Cardinality(Begun)
  BY DEF L!Cardinality, Cardinality
<1> HIDE DEF Begun
<1>5. Cardinality(Begun) <= 1
  BY <1>2, <1>3
<1> QED BY <1>4, <1>5 DEF Begun

\* What is done under a lock is not divided by another thread.
THEOREM LocksUndivided == Spec => []Undivided
<1>1. Init => LockInv
  BY LockInit
<1>2. LockInv /\ [Next]_vars => LockInv'
  BY LocksSteps, LockStep
<1>3. LockInv => Undivided
  <2>1. LockInv /\ lockProg = "share"
          => L!Cardinality({s \in L!Pair : lockPc[s] = "second"}) <= 1
    BY OneLine
  <2>2. LockInv => \A s \in Writers : t[s] <= counter
    BY DEF LockInv, CountedOnce
  <2>3. LockInv => counter = lockWritten
    BY DEF LockInv, CountedOnce
  <2>4. LockInv => ((\E s \in Writers : lockPc[s] = "store") => sharing = {})
    BY DEF LockInv, WriteHeld
  <2> QED BY <2>1, <2>2, <2>3, <2>4 DEF Undivided, L!Undivided
<1> QED BY <1>1, <1>2, <1>3, PTL DEF Spec

HIDE DEF L!Pair, L!Mutexes

-----------------------------------------------------------------------------
(* Producers and consumers: the ring *)

\* The constants of Producers.
LEMMA ProducersGiven ==
  /\ NUM \in Nat \ {0} /\ Products \in Nat
  /\ \A p \in {"sem", "cond"} : ProducerOf[p] \intersect ConsumerOf[p] = {}
  /\ \A s, u \in ProducerOf["sem"] : s = u
  /\ \A s, u \in ConsumerOf["sem"] : s = u
  /\ \A p \in {"sem", "cond"} : 
       ProducerOf[p] \subseteq P!Threads /\ ConsumerOf[p] \subseteq P!Threads
BY ProgramsAssumption DEF P!ProducersAssumption, P!Threads

BufferTyped ==
  /\ prodProg \in {"sem", "cond"}
  /\ prodPc \in [P!Threads -> {"idle", "fill", "post", "lock", "wait", "use",
                               "signal"}]
  /\ item \in [P!Threads -> 0..Products] /\ made \in 0..Products
  /\ used \in Seq(0..Products)
  /\ blank_number \in 0..NUM /\ product_number \in 0..NUM
  /\ queue \in [P!Ring -> 0..Products] /\ index \in [P!Threads -> P!Ring]
  /\ head \in Seq(1..Products) /\ asleep \subseteq P!Threads

\* The places of the ring from its oldest product on, round the end.
Wrap(a) == IF a < NUM THEN a ELSE a - NUM
InRing == made - Len(used)
Past(s) == IF prodPc[s] = "post" THEN Wrap(index[s] + 1) ELSE index[s]

\* The ring holds the products made and not used, in order from the place the
\* consumer comes to next up to the one the producer comes to next.
RingHolds(oldest) ==
  /\ \A s \in P!Users : Past(s) = oldest
  /\ \A s \in P!Makers : Past(s) = Wrap(oldest + InRing)
  /\ \A k \in P!Ring : queue[Wrap(oldest + k)] =
                         IF k < InRing THEN Len(used) + 1 + k ELSE 0

\* A semaphore counts the places, or the products, less those that a thread
\* has waited for and not filled, or filled and not posted.
At(threads, label) == IF \E s \in threads : prodPc[s] = label THEN 1 ELSE 0
Tokens ==
  /\ InRing \in 0..NUM
  /\ blank_number + At(P!Makers, "fill") + InRing + At(P!Users, "post") = NUM
  /\ product_number + At(P!Makers, "post") + At(P!Users, "fill") = InRing

UsedInOrder == \A k \in 1..Len(used) : used[k] = k
NoList == head = <<>> /\ asleep = {} /\ \A s \in P!Threads : item[s] = 0

RingInv ==
  /\ \A s \in P!Makers : prodPc[s] = "fill" => made < Products
  /\ UsedInOrder /\ NoList /\ Tokens
  /\ \A s \in P!Threads : prodPc[s] \in {"idle", "fill", "post"}
  /\ \E oldest \in P!Ring : RingHolds(oldest)

\* Going round the ring: NextPlace of the code, and places told apart.
LEMMA WrapFacts ==
  /\ \A k \in P!Ring : P!NextPlace(k) = Wrap(k + 1) /\ Wrap(k + 1) \in P!Ring
  /\ \A j, k \in P!Ring : Wrap(j + k) \in P!Ring
  /\ \A j \in P!Ring : Wrap(j + 0) = j /\ Wrap(j + NUM) = j
  /\ \A h, j, k \in P!Ring : Wrap(h + j) = Wrap(h + k) => j = k
  /\ \A h \in P!Ring, j \in 0..NUM - 1 :
       /\ Wrap(Wrap(h + j) + 1) = Wrap(h + (j + 1))
       /\ Wrap(Wrap(h + 1) + j) = Wrap(h + (j + 1))
<1> USE ProducersGiven DEF P!Ring
<1>1. \A k \in P!Ring : P!NextPlace(k) = Wrap(k + 1) /\ Wrap(k + 1) \in P!Ring
  <2> TAKE k \in P!Ring
  <2>1. k \in Nat /\ k + 1 <= NUM
    OBVIOUS
  <2>2. CASE k + 1 < NUM
    BY <2>1, <2>2 DEF P!NextPlace, Wrap
  <2>3. CASE k + 1 = NUM
    <3>1. NUM % NUM = 0
      OBVIOUS
    <3> QED BY <2>1, <2>3, <3>1 DEF P!NextPlace, Wrap
  <2> QED BY <2>1, <2>2, <2>3
<1>2. /\ \A j, k \in P!Ring : Wrap(j + k) \in P!Ring
      /\ \A j \in P!Ring : Wrap(j + 0) = j /\ Wrap(j + NUM) = j
      /\ \A h, j, k \in P!Ring : Wrap(h + j) = Wrap(h + k) => j = k
  BY DEF Wrap
<1>3. \A h \in P!Ring, j \in 0..NUM - 1 :
        Wrap(Wrap(h + j) + 1) = Wrap(h + (j + 1))
  BY DEF Wrap
<1>4. \A h \in P!Ring, j \in 0..NUM - 1 :
        Wrap(Wrap(h + 1) + j) = Wrap(h + (j + 1))
  BY DEF Wrap
<1> QED BY <1>1, <1>2, <1>3, <1>4

\* The one producer, or consumer, of the ring is all there is to count.
LEMMA OneThread ==
  ASSUME BufferTyped, prodProg = "sem", NEW s \in P!Threads, NEW next,
         prodPc' = [prodPc EXCEPT ![s] = next], UNCHANGED prodProg
  PROVE  /\ s \in P!Makers =>
              /\ At(P!Makers, "fill") = IF prodPc[s] = "fill" THEN 1 ELSE 0
              /\ At(P!Makers, "fill")' = IF next = "fill" THEN 1 ELSE 0
              /\ At(P!Users, "fill")' = At(P!Users, "fill")
              /\ At(P!Users, "fill") \in {0, 1}
              /\ At(P!Makers, "post") = IF prodPc[s] = "post" THEN 1 ELSE 0
              /\ At(P!Makers, "post")' = IF next = "post" THEN 1 ELSE 0
              /\ At(P!Users, "post")' = At(P!Users, "post")
              /\ At(P!Users, "post") \in {0, 1}
         /\ s \in P!Users =>
              /\ At(P!Users, "fill") = IF prodPc[s] = "fill" THEN 1 ELSE 0
              /\ At(P!Users, "fill")' = IF next = "fill" THEN 1 ELSE 0
              /\ At(P!Makers, "fill")' = At(P!Makers, "fill")
              /\ At(P!Makers, "fill") \in {0, 1}
              /\ At(P!Users, "post") = IF prodPc[s] = "post" THEN 1 ELSE 0
              /\ At(P!Users, "post")' = IF next = "post" THEN 1 ELSE 0
              /\ At(P!Makers, "post")' = At(P!Makers, "post")
              /\ At(P!Makers, "post") \in {0, 1}
         /\ prodPc'[s] = next
         /\ \A u \in P!Threads \ {s} : prodPc'[u] = prodPc[u]
         /\ P!Makers \subseteq P!Threads /\ P!Users \subseteq P!Threads
         /\ P!Makers \intersect P!Users = {}
         /\ UNCHANGED <<P!Makers, P!Users>>
BY ProducersGiven DEF At, P!Makers, P!Users, BufferTyped

\* No system call of the producer or the consumer of the ring breaks RingInv.
LEMMA RingStep ==
  ASSUME BufferTyped, RingInv, prodProg = "sem", NEW s \in P!Threads, P!Step(s)
  PROVE  BufferTyped' /\ RingInv'
<1> USE DEF P!Goto
<1>g. NUM \in Nat \ {0} /\ Products \in Nat
  BY ProducersGiven
<1> USE <1>g
<1>0. PICK oldest \in P!Ring : RingHolds(oldest)
  BY DEF RingInv
<1>n. /\ InRing \in 0..NUM /\ Len(used) \in Nat /\ InRing = made - Len(used)
      /\ made \in Nat /\ \A u \in P!Threads : index[u] \in P!Ring
      /\ blank_number \in Nat /\ product_number \in Nat
  BY LenProperties DEF RingInv, Tokens, BufferTyped, InRing
<1>c. /\ blank_number + At(P!Makers, "fill") + InRing
           + At(P!Users, "post") = NUM
      /\ product_number + At(P!Makers, "post") + At(P!Users, "fill") = InRing
  BY DEF RingInv, Tokens
<1>1. CASE P!SemWaitBlank(s)
  <2>1. /\ s \in P!Makers /\ prodPc[s] = "idle" /\ made < Products
        /\ prodPc' = [prodPc EXCEPT ![s] = "fill"]
        /\ blank_number > 0 /\ blank_number' = blank_number - 1
        /\ UNCHANGED <<prodProg, item, made, used, product_number, queue,
                       index, head, asleep>>
    BY <1>1 DEF P!SemWaitBlank, P!condVars
  <2>2. BufferTyped'
    BY <2>1 DEF BufferTyped
  <2>m. /\ At(P!Makers, "fill") = 0 /\ At(P!Makers, "fill")' = 1
        /\ At(P!Makers, "post") = 0 /\ At(P!Makers, "post")' = 0
        /\ At(P!Users, "fill") \in {0, 1} /\ At(P!Users, "post") \in {0, 1}
        /\ At(P!Users, "fill")' = At(P!Users, "fill")
        /\ At(P!Users, "post")' = At(P!Users, "post")
        /\ UNCHANGED <<P!Makers, P!Users>>
        /\ prodPc'[s] = "fill"
        /\ \A u \in P!Threads \ {s} : prodPc'[u] = prodPc[u]
    <3>1. UNCHANGED prodProg
      BY <2>1
    <3> QED BY <2>1, <3>1, OneThread
  <2>3. Tokens'
    <3>1. InRing' = InRing
      BY <2>1 DEF InRing
    <3> QED BY <3>1, <2>1, <1>n, <1>c, <2>m DEF Tokens
  <2>4. RingHolds(oldest)'
    BY <2>1, <1>0, <2>m, ProducersGiven
    DEF RingHolds, Past, InRing, P!Makers, P!Users
  <2>5. UsedInOrder' /\ NoList'
    BY <2>1 DEF RingInv, UsedInOrder, NoList
  <2>6. \A u \in P!Threads : prodPc'[u] \in {"idle", "fill", "post"}
    BY <2>1, <2>m DEF RingInv
  <2> QED BY <2>1, <2>2, <2>3, <2>4, <2>5, <2>6 DEF RingInv
<1>2. CASE P!Fill(s)
  <2>1. /\ s \in P!Makers /\ prodPc[s] = "fill" /\ made < Products
        /\ prodPc' = [prodPc EXCEPT ![s] = "post"]
        /\ made' = made + 1
        /\ queue' = [queue EXCEPT ![index[s]] = made + 1]
        /\ UNCHANGED <<prodProg, item, used, blank_number, product_number,
                       index, head, asleep>>
    BY <1>2 DEF P!Fill, P!condVars, RingInv
  <2>2. BufferTyped'
    BY <2>1 DEF BufferTyped
  <2>m. /\ At(P!Makers, "fill") = 1 /\ At(P!Makers, "fill")' = 0
        /\ At(P!Makers, "post") = 0 /\ At(P!Makers, "post")' = 1
        /\ At(P!Users, "fill") \in {0, 1} /\ At(P!Users, "post") \in {0, 1}
        /\ At(P!Users, "fill")' = At(P!Users, "fill")
        /\ At(P!Users, "post")' = At(P!Users, "post")
        /\ UNCHANGED <<P!Makers, P!Users>>
        /\ prodPc'[s] = "post"
        /\ \A u \in P!Threads \ {s} : prodPc'[u] = prodPc[u]
    <3>1. UNCHANGED prodProg
      BY <2>1
    <3> QED BY <2>1, <3>1, OneThread
  <2>i. /\ InRing' = InRing + 1 /\ InRing < NUM
        /\ made + 1 = Len(used) + 1 + InRing
    <3>1. InRing' = InRing + 1
      BY <2>1, <1>n DEF InRing
    <3> QED BY <3>1, <1>n, <1>c, <2>m
  <2>3. Tokens'
    BY <2>i, <2>1, <1>n, <1>c, <2>m DEF Tokens
  <2>4. index[s] = Wrap(oldest + InRing) /\ InRing \in P!Ring
    <3>1. Past(s) = index[s]
      BY <2>1 DEF Past
    <3>2. Past(s) = Wrap(oldest + InRing)
      BY <2>1, <1>0 DEF RingHolds
    <3> QED BY <3>1, <3>2, <2>i, <1>n DEF P!Ring
  <2>5. RingHolds(oldest)'
    <3>1. \A u \in P!Users : u \in P!Threads \ {s}
      BY <2>1, ProducersGiven DEF P!Users, P!Makers
    <3>2. \A u \in P!Users : Past(u)' = oldest
      BY <3>1, <2>1, <2>m, <1>0 DEF RingHolds, Past
    <3>3. \A u \in P!Makers : u = s
      BY <2>1, ProducersGiven DEF P!Makers
    <3>4. Past(s)' = Wrap(oldest + InRing')
      <4>1. Past(s)' = Wrap(index[s] + 1)
        BY <2>1, <2>m DEF Past, Wrap
      <4>2. oldest \in P!Ring /\ InRing \in 0..NUM - 1
        BY <2>4 DEF P!Ring
      <4>3. Wrap(Wrap(oldest + InRing) + 1) = Wrap(oldest + (InRing + 1))
        BY <4>2, WrapFacts
      <4> QED BY <4>1, <4>3, <2>4, <2>i
    <3>5. ASSUME NEW k \in P!Ring
          PROVE  queue'[Wrap(oldest + k)] =
                   IF k < InRing' THEN Len(used) + 1 + k ELSE 0
      <4>1. Wrap(oldest + k) \in P!Ring /\ index[s] \in P!Ring
        BY WrapFacts, <2>4
      <4>2. CASE k = InRing
        BY <4>1, <4>2, <2>1, <2>i, <2>4, <1>n DEF BufferTyped
      <4>3. CASE k # InRing
        <5>1. Wrap(oldest + k) # index[s]
          BY <4>3, <2>4, WrapFacts
        <5>2. queue'[Wrap(oldest + k)] = queue[Wrap(oldest + k)]
          BY <5>1, <2>1, <4>1 DEF BufferTyped
        <5>3. k < InRing <=> k < InRing'
          BY <4>3, <2>i, <1>n DEF P!Ring
        <5> QED BY <5>2, <5>3, <1>0 DEF RingHolds
      <4> QED BY <4>2, <4>3
    <3> QED BY <3>2, <3>3, <3>4, <3>5, <2>1, <2>m DEF RingHolds
  <2>6. UsedInOrder' /\ NoList'
    BY <2>1 DEF RingInv, UsedInOrder, NoList
  <2>7. \A u \in P!Threads : prodPc'[u] \in {"idle", "fill", "post"}
    BY <2>1, <2>m DEF RingInv
  <2>8. \A u \in P!Makers : prodPc'[u] # "fill"
    BY <2>1, <2>m, ProducersGiven DEF P!Makers
  <2> QED BY <2>m, <2>2, <2>3, <2>5, <2>6, <2>7, <2>8 DEF RingInv
<1>3. CASE P!SemPostProduct(s)
  <2>1. /\ s \in P!Makers /\ prodPc[s] = "post"
        /\ prodPc' = [prodPc EXCEPT ![s] = "idle"]
        /\ product_number' = product_number + 1
        /\ index' = [index EXCEPT ![s] = P!NextPlace(@)]
        /\ UNCHANGED <<prodProg, item, made, used, blank_number, queue, head,
                       asleep>>
    BY <1>3 DEF P!SemPostProduct, P!condVars
  <2>m. /\ At(P!Makers, "fill") = 0 /\ At(P!Makers, "fill")' = 0
        /\ At(P!Makers, "post") = 1 /\ At(P!Makers, "post")' = 0
        /\ At(P!Users, "fill") \in {0, 1} /\ At(P!Users, "post") \in {0, 1}
        /\ At(P!Users, "fill")' = At(P!Users, "fill")
        /\ At(P!Users, "post")' = At(P!Users, "post")
        /\ UNCHANGED <<P!Makers, P!Users>>
        /\ prodPc'[s] = "idle"
        /\ \A u \in P!Threads \ {s} : prodPc'[u] = prodPc[u]
    <3>1. UNCHANGED prodProg
      BY <2>1
    <3> QED BY <2>1, <3>1, OneThread
  <2>i. InRing' = InRing
    BY <2>1 DEF InRing
  <2>x. /\ index'[s] = Wrap(index[s] + 1) /\ index'[s] \in P!Ring
        /\ \A u \in P!Threads \ {s} : index'[u] = index[u]
    BY <2>1, <1>n, WrapFacts DEF BufferTyped
  <2>2. BufferTyped'
    <3>1. product_number + 1 \in 0..NUM
      BY <1>n, <1>c, <2>m
    <3>2. index' \in [P!Threads -> P!Ring]
      BY <2>1, <2>x DEF BufferTyped
    <3> QED BY <3>1, <3>2, <2>1 DEF BufferTyped
  <2>3. Tokens'
    BY <2>i, <2>1, <1>n, <1>c, <2>m DEF Tokens
  <2>4. RingHolds(oldest)'
    <3>1. \A u \in P!Users \union P!Makers : Past(u)' = Past(u)
      BY <2>1, <2>m, <2>x, ProducersGiven DEF Past, Wrap, P!Users, P!Makers
    <3> QED BY <3>1, <2>1, <2>i, <2>m, <1>0 DEF RingHolds, Wrap
  <2>5. UsedInOrder' /\ NoList'
    BY <2>1 DEF RingInv, UsedInOrder, NoList
  <2>6. \A u \in P!Threads : prodPc'[u] \in {"idle", "fill", "post"}
    BY <2>1, <2>m DEF RingInv
  <2>7. \A u \in P!Makers : prodPc'[u] # "fill"
    BY <2>1, <2>m, ProducersGiven DEF P!Makers
  <2> QED BY <2>m, <2>2, <2>3, <2>4, <2>5, <2>6, <2>7 DEF RingInv
<1>4. CASE P!SemWaitProduct(s)
  <2>1. /\ s \in P!Users /\ prodPc[s] = "idle"
        /\ prodPc' = [prodPc EXCEPT ![s] = "fill"]
        /\ product_number > 0 /\ product_number' = product_number - 1
        /\ UNCHANGED <<prodProg, item, made, used, blank_number, queue, index,
                       head, asleep>>
    BY <1>4 DEF P!SemWaitProduct, P!HasProduct, P!condVars
  <2>2. BufferTyped'
    BY <2>1 DEF BufferTyped
  <2>m. /\ At(P!Users, "fill") = 0 /\ At(P!Users, "fill")' = 1
        /\ At(P!Users, "post") = 0 /\ At(P!Users, "post")' = 0
        /\ At(P!Makers, "fill") \in {0, 1} /\ At(P!Makers, "post") \in {0, 1}
        /\ At(P!Makers, "fill")' = At(P!Makers, "fill")
        /\ At(P!Makers, "post")' = At(P!Makers, "post")
        /\ UNCHANGED <<P!Makers, P!Users>>
        /\ prodPc'[s] = "fill"
        /\ \A u \in P!Threads \ {s} : prodPc'[u] = prodPc[u]
    <3>1. UNCHANGED prodProg
      BY <2>1
    <3> QED BY <2>1, <3>1, OneThread
  <2>3. Tokens'
    <3>1. InRing' = InRing
      BY <2>1 DEF InRing
    <3> QED BY <3>1, <2>1, <1>n, <1>c, <2>m DEF Tokens
  <2>4. RingHolds(oldest)'
    BY <2>1, <1>0, <2>m, ProducersGiven
      DEF RingHolds, Past, InRing, P!Makers, P!Users
  <2>5. UsedInOrder' /\ NoList'
    BY <2>1 DEF RingInv, UsedInOrder, NoList
  <2>6. \A u \in P!Threads : prodPc'[u] \in {"idle", "fill", "post"}
    BY <2>1, <2>m DEF RingInv
  <2>7. \A u \in P!Makers : prodPc'[u] = prodPc[u]
    BY <2>1, <2>m, ProducersGiven DEF P!Makers, P!Users
  <2> QED BY <2>1, <2>m, <2>2, <2>3, <2>4, <2>5, <2>6, <2>7 DEF RingInv
<1>5. CASE P!Empty(s)
  <2>1. /\ s \in P!Users /\ prodPc[s] = "fill"
        /\ prodPc' = [prodPc EXCEPT ![s] = "post"]
        /\ used' = Append(used, queue[index[s]])
        /\ queue' = [queue EXCEPT ![index[s]] = 0]
        /\ UNCHANGED <<prodProg, item, made, blank_number, product_number,
                       index, head, asleep>>
    BY <1>5 DEF P!Empty, P!condVars
  <2>m. /\ At(P!Users, "fill") = 1 /\ At(P!Users, "fill")' = 0
        /\ At(P!Users, "post") = 0 /\ At(P!Users, "post")' = 1
        /\ At(P!Makers, "fill") \in {0, 1} /\ At(P!Makers, "post") \in {0, 1}
        /\ At(P!Makers, "fill")' = At(P!Makers, "fill")
        /\ At(P!Makers, "post")' = At(P!Makers, "post")
        /\ UNCHANGED <<P!Makers, P!Users>>
        /\ prodPc'[s] = "post"
        /\ \A u \in P!Threads \ {s} : prodPc'[u] = prodPc[u]
    <3>1. UNCHANGED prodProg
      BY <2>1
    <3> QED BY <2>1, <3>1, OneThread
  <2>2. index[s] = oldest
    BY <2>1, <1>0 DEF RingHolds, Past
  <2>3. 0 < InRing /\ queue[oldest] = Len(used) + 1
    <3>1. 0 < InRing
      BY <1>n, <1>c, <2>m
    <3>2. 0 \in P!Ring /\ Wrap(oldest + 0) = oldest
      BY ProducersGiven, WrapFacts DEF P!Ring
    <3>3. queue[Wrap(oldest + 0)] = Len(used) + 1 + 0
      BY <3>1, <3>2, <1>0 DEF RingHolds
    <3> QED BY <3>1, <3>2, <3>3, <1>n
  <2>4. /\ used \in Seq(0..Products) /\ queue[oldest] \in 0..Products
        /\ used' \in Seq(0..Products) /\ Len(used') = Len(used) + 1
        /\ used'[Len(used) + 1] = Len(used) + 1
        /\ \A k \in 1..Len(used) : used'[k] = used[k]
    <3>1. used \in Seq(0..Products) /\ queue[oldest] \in 0..Products
      BY DEF BufferTyped
    <3> QED BY <3>1, <2>1, <2>2, <2>3, AppendProperties
  <2>i. InRing' = InRing - 1
    BY <2>1, <2>4, <1>n DEF InRing
  <2>5. BufferTyped'
    BY <2>1, <2>4 DEF BufferTyped
  <2>6. Tokens'
    <3>1. InRing' \in 0..NUM
      BY <2>3, <2>i, <1>n
    <3>2. /\ blank_number' + At(P!Makers, "fill")' + InRing'
               + At(P!Users, "post")' = NUM
          /\ product_number' + At(P!Makers, "post")' + At(P!Users, "fill")'
               = InRing'
      <4>1. blank_number' = blank_number /\ product_number' = product_number
        BY <2>1
      <4>2. /\ InRing \in Nat /\ At(P!Makers, "fill") \in Nat
            /\ At(P!Makers, "post") \in Nat
        BY <1>n, <2>m
      <4>3. blank_number' + At(P!Makers, "fill")' + InRing'
               + At(P!Users, "post")' = NUM
        BY <4>1, <4>2, <2>i, <1>n, <1>c, <2>m
      <4>4. product_number' + At(P!Makers, "post")' + At(P!Users, "fill")'
               = InRing'
        BY <4>1, <4>2, <2>i, <1>n, <1>c, <2>m
      <4> QED BY <4>3, <4>4
    <3> QED BY <3>1, <3>2 DEF Tokens
  <2>7. Wrap(oldest + 1) \in P!Ring /\ RingHolds(Wrap(oldest + 1))'
    <3>0. Wrap(oldest + 1) \in P!Ring
      BY WrapFacts
    <3>1. \A u \in P!Makers : u \in P!Threads \ {s}
      BY <2>1, ProducersGiven DEF P!Users, P!Makers
    <3>2. \A u \in P!Users : u = s
      BY <2>1, ProducersGiven DEF P!Users
    <3>3. Past(s)' = Wrap(oldest + 1)
      BY <2>1, <2>2, <2>m DEF Past, Wrap
    <3>4. Wrap(Wrap(oldest + 1) + (InRing - 1)) = Wrap(oldest + InRing)
      <4>1. InRing - 1 \in 0..NUM - 1 /\ (InRing - 1) + 1 = InRing
        BY <2>3, <1>n
      <4> QED BY <4>1, WrapFacts
    <3>5. \A u \in P!Makers : Past(u)' = Wrap(Wrap(oldest + 1) + InRing')
      BY <3>1, <3>4, <2>i, <2>1, <2>m, <1>0 DEF RingHolds, Past, Wrap
    <3>6. ASSUME NEW k \in P!Ring
          PROVE  queue'[Wrap(Wrap(oldest + 1) + k)] =
                   IF k < InRing' THEN Len(used') + 1 + k ELSE 0
      <4>1. /\ Wrap(Wrap(oldest + 1) + k) = Wrap(oldest + (k + 1))
            /\ k \in Nat /\ k < NUM
        BY WrapFacts DEF P!Ring
      <4>2. CASE k = NUM - 1
        <5>1. Wrap(oldest + (k + 1)) = oldest
          BY <4>2, WrapFacts, ProducersGiven
        <5>2. queue'[oldest] = 0
          BY <2>1, <2>2 DEF BufferTyped
        <5> QED BY <5>1, <5>2, <4>1, <4>2, <2>i, <1>n
      <4>3. CASE k # NUM - 1
        <5>1. k + 1 \in P!Ring /\ 0 \in P!Ring /\ k + 1 # 0
          BY <4>1, <4>3 DEF P!Ring
        <5>2. Wrap(oldest + (k + 1)) \in P!Ring
              /\ Wrap(oldest + (k + 1)) # oldest
          BY <5>1, WrapFacts
        <5>3. queue'[Wrap(oldest + (k + 1))] = queue[Wrap(oldest + (k + 1))]
          BY <5>2, <2>1, <2>2 DEF BufferTyped
        <5>4. queue[Wrap(oldest + (k + 1))] =
                IF k + 1 < InRing THEN Len(used) + 1 + (k + 1) ELSE 0
          BY <5>1, <1>0 DEF RingHolds
        <5>5. k + 1 < InRing <=> k < InRing'
          BY <4>1, <2>i, <1>n
        <5>6. Len(used) + 1 + (k + 1) = Len(used') + 1 + k
          BY <4>1, <2>4, <1>n
        <5> QED BY <5>3, <5>4, <5>5, <5>6, <4>1
      <4> QED BY <4>2, <4>3
    <3>7. \A u \in P!Users : Past(u)' = Wrap(oldest + 1)
      BY <3>2, <3>3
    <3> QED BY <3>0, <3>5, <3>6, <3>7, <2>m DEF RingHolds, Wrap, P!Ring
  <2>8. UsedInOrder' /\ NoList'
    <3>1. \A k \in 1..Len(used) : used[k] = k
      BY DEF RingInv, UsedInOrder
    <3>2. ASSUME NEW k \in 1..Len(used')
          PROVE  used'[k] = k
      <4>1. k \in 1..Len(used) \/ k = Len(used) + 1
        BY <2>4, <1>n
      <4> QED BY <4>1, <3>1, <2>4
    <3> QED BY <3>2, <2>1 DEF RingInv, UsedInOrder, NoList
  <2>9. \A u \in P!Threads : prodPc'[u] \in {"idle", "fill", "post"}
    BY <2>1, <2>m DEF RingInv
  <2>10. \A u \in P!Makers : prodPc'[u] = prodPc[u]
    BY <2>1, <2>m, ProducersGiven DEF P!Makers, P!Users
  <2> QED BY <2>1, <2>m, <2>5, <2>6, <2>7, <2>8, <2>9, <2>10 DEF RingInv
<1>6. CASE P!SemPostBlank(s)
  <2>1. /\ s \in P!Users /\ prodPc[s] = "post"
        /\ prodPc' = [prodPc EXCEPT ![s] = "idle"]
        /\ blank_number' = blank_number + 1
        /\ index' = [index EXCEPT ![s] = P!NextPlace(@)]
        /\ UNCHANGED <<prodProg, item, made, used, product_number, queue, head,
                       asleep>>
    BY <1>6 DEF P!SemPostBlank, P!condVars
  <2>m. /\ At(P!Users, "fill") = 0 /\ At(P!Users, "fill")' = 0
        /\ At(P!Users, "post") = 1 /\ At(P!Users, "post")' = 0
        /\ At(P!Makers, "fill") \in {0, 1} /\ At(P!Makers, "post") \in {0, 1}
        /\ At(P!Makers, "fill")' = At(P!Makers, "fill")
        /\ At(P!Makers, "post")' = At(P!Makers, "post")
        /\ UNCHANGED <<P!Makers, P!Users>>
        /\ prodPc'[s] = "idle"
        /\ \A u \in P!Threads \ {s} : prodPc'[u] = prodPc[u]
    <3>1. UNCHANGED prodProg
      BY <2>1
    <3> QED BY <2>1, <3>1, OneThread
  <2>i. InRing' = InRing
    BY <2>1 DEF InRing
  <2>x. /\ index'[s] = Wrap(index[s] + 1) /\ index'[s] \in P!Ring
        /\ \A u \in P!Threads \ {s} : index'[u] = index[u]
    BY <2>1, <1>n, WrapFacts DEF BufferTyped
  <2>2. BufferTyped'
    <3>1. blank_number + 1 \in 0..NUM
      BY <1>n, <1>c, <2>m
    <3>2. index' \in [P!Threads -> P!Ring]
      BY <2>1, <2>x DEF BufferTyped
    <3> QED BY <3>1, <3>2, <2>1 DEF BufferTyped
  <2>3. Tokens'
    BY <2>i, <2>1, <1>n, <1>c, <2>m DEF Tokens
  <2>4. RingHolds(oldest)'
    <3>1. \A u \in P!Users \union P!Makers : Past(u)' = Past(u)
      BY <2>1, <2>m, <2>x, ProducersGiven DEF Past, Wrap, P!Users, P!Makers
    <3> QED BY <3>1, <2>1, <2>i, <2>m, <1>0 DEF RingHolds, Wrap
  <2>5. UsedInOrder' /\ NoList'
    BY <2>1 DEF RingInv, UsedInOrder, NoList
  <2>6. \A u \in P!Threads : prodPc'[u] \in {"idle", "fill", "post"}
    BY <2>1, <2>m DEF RingInv
  <2>7. \A u \in P!Makers : prodPc'[u] = prodPc[u]
    BY <2>1, <2>m, ProducersGiven DEF P!Makers, P!Users
  <2> QED BY <2>1, <2>m, <2>2, <2>3, <2>4, <2>5, <2>6, <2>7 DEF RingInv
<1>7. ~(P!Make(s) \/ P!Push(s) \/ P!Signal(s) \/ P!CondWait(s) \/ P!Pop(s)
        \/ P!Use(s))
  BY DEF P!Make, P!Push, P!Signal, P!CondWait, P!Pop, P!Use
<1> QED BY <1>1, <1>2, <1>3, <1>4, <1>5, <1>6, <1>7 DEF P!Step
-----------------------------------------------------------------------------
(* The list *)

\* The elements of a sequence, those at its places.
LEMMA RangeOf ==
  ASSUME NEW Elts, NEW seq \in Seq(Elts)
  PROVE  P!Range(seq) = {seq[k] : k \in 1..Len(seq)}
BY LenProperties DEF P!Range

\* A sequence with one more at its end.
LEMMA RangeAppend ==
  ASSUME NEW Elts, NEW seq \in Seq(Elts), NEW elt \in Elts
  PROVE  P!Range(Append(seq, elt)) = P!Range(seq) \union {elt}
<1>1. /\ Append(seq, elt) \in Seq(Elts) /\ Len(seq) \in Nat
      /\ Len(Append(seq, elt)) = Len(seq) + 1
      /\ \A k \in 1..Len(seq) : Append(seq, elt)[k] = seq[k]
      /\ Append(seq, elt)[Len(seq) + 1] = elt
  BY AppendProperties, LenProperties
<1>2. 1..Len(seq) + 1 = 1..Len(seq) \union {Len(seq) + 1}
  BY <1>1
<1>3. \A q \in Seq(Elts) : P!Range(q) = {q[k] : k \in 1..Len(q)}
  BY RangeOf
<1>4. P!Range(Append(seq, elt)) =
        {Append(seq, elt)[k] : k \in 1..Len(seq) \union {Len(seq) + 1}}
  BY <1>1, <1>2, <1>3
<1> QED BY <1>4, <1>1, <1>3

\* A sequence with one more at its head.
LEMMA RangeCons ==
  ASSUME NEW Elts, NEW seq \in Seq(Elts), NEW elt \in Elts
  PROVE  P!Range(<<elt>> \o seq) = {elt} \union P!Range(seq)
<1>0. \A q \in Seq(Elts) : P!Range(q) = {q[k] : k \in 1..Len(q)}
  BY RangeOf
<1> DEFINE q == <<elt>> \o seq
<1>1. <<elt>> \in Seq(Elts) /\ Len(<<elt>>) = 1 /\ <<elt>>[1] = elt
  OBVIOUS
<1>2. /\ q \in Seq(Elts) /\ Len(seq) \in Nat /\ Len(q) = 1 + Len(seq)
      /\ \A k \in 1..1 + Len(seq) :
           q[k] = IF k <= 1 THEN <<elt>>[k] ELSE seq[k - 1]
  BY <1>1, ConcatProperties, LenProperties
<1> HIDE DEF q
<1>3. q[1] = elt /\ \A k \in 1..Len(seq) : q[k + 1] = seq[k]
  BY <1>1, <1>2
<1>4. \A k \in 1..Len(q) : k = 1 \/ k - 1 \in 1..Len(seq)
  BY <1>2
<1>5. \A k \in 1..Len(seq) : k + 1 \in 1..Len(q)
  BY <1>2
<1>6. 1 \in 1..Len(q) /\ \A k \in 1..Len(q) : (k - 1) + 1 = k
  BY <1>2
<1>7. {q[k] : k \in 1..Len(q)} = {elt} \union {seq[k] : k \in 1..Len(seq)}
  <2>1. \A k \in 1..Len(q) : q[k] = elt \/ \E j \in 1..Len(seq) : q[k] = seq[j]
    BY <1>3, <1>4, <1>6
  <2>2. \A j \in 1..Len(seq) : \E k \in 1..Len(q) : q[k] = seq[j]
    BY <1>3, <1>5
  <2>3. \E k \in 1..Len(q) : q[k] = elt
    BY <1>3, <1>6
  <2>4. {q[k] : k \in 1..Len(q)}
          \subseteq {elt} \union {seq[k] : k \in 1..Len(seq)}
    BY <2>1
  <2>5. {elt} \union {seq[k] : k \in 1..Len(seq)}
          \subseteq {q[k] : k \in 1..Len(q)}
    BY <2>2, <2>3
  <2> QED BY <2>4, <2>5
<1> QED BY <1>7, <1>2, <1>0 DEF q

\* A sequence is its head and what is behind it.
LEMMA RangeTail ==
  ASSUME NEW Elts, NEW seq \in Seq(Elts), seq # <<>>
  PROVE  P!Range(seq) = {Head(seq)} \union P!Range(Tail(seq))
<1>0. \A q \in Seq(Elts) : P!Range(q) = {q[k] : k \in 1..Len(q)}
  BY RangeOf
<1>1. /\ Tail(seq) \in Seq(Elts) /\ Len(seq) \in Nat
      /\ Len(Tail(seq)) = Len(seq) - 1
      /\ \A k \in 1..Len(Tail(seq)) : Tail(seq)[k] = seq[k + 1]
      /\ Head(seq) = seq[1] /\ Len(seq) > 0
  BY HeadTailProperties, LenProperties, EmptySeq
<1>2. \A k \in 1..Len(seq) : k = 1 \/ k - 1 \in 1..Len(Tail(seq))
  BY <1>1
<1>3. \A k \in 1..Len(Tail(seq)) : k + 1 \in 1..Len(seq)
  BY <1>1
<1>4. 1 \in 1..Len(seq) /\ \A k \in 1..Len(seq) : (k - 1) + 1 = k
  BY <1>1
<1>5. {seq[k] : k \in 1..Len(seq)} =
        {seq[1]} \union {Tail(seq)[k] : k \in 1..Len(Tail(seq))}
  BY <1>1, <1>2, <1>3, <1>4
<1> QED BY <1>5, <1>1, <1>0

\* Who has a product in hand: a producer before it is on the list, a consumer
\* before it is used.
HasOne(s) == \/ s \in P!Makers /\ prodPc[s] = "lock"
             \/ s \in P!Users /\ prodPc[s] = "use"

\* A product made is in one hand, at one place of the list, or used once.
OnePlace ==
  /\ \A s \in P!Threads :
       /\ item[s] # 0 <=> HasOne(s)
       /\ item[s] <= made /\ item[s] \notin P!Range(head) \union P!Range(used)
  /\ \A s, u \in P!Threads : item[s] = item[u] /\ item[s] # 0 => s = u
  /\ \A k \in 1..Len(head) : head[k] <= made /\ head[k] \notin P!Range(used)
  /\ \A k, l \in 1..Len(head) : head[k] = head[l] => k = l
  /\ \A k \in 1..Len(used) : used[k] \in 1..made
  /\ \A k, l \in 1..Len(used) : used[k] = used[l] => k = l

NoRing == \A k \in P!Ring : queue[k] = 0

ListInv == NoRing /\ OnePlace

\* No step of a producer or a consumer of the list breaks ListInv.
LEMMA ListStep ==
  ASSUME BufferTyped, ListInv, prodProg = "cond", NEW s \in P!Threads,
         P!Step(s) \/ P!Spurious(s)
  PROVE  BufferTyped' /\ ListInv'
<1> USE DEF P!Goto
<1>g. NUM \in Nat \ {0} /\ Products \in Nat /\ P!Makers \intersect P!Users = {}
  BY ProducersGiven DEF P!Makers, P!Users
<1> USE <1>g
<1>d. \A u, v \in P!Threads : item[u] = item[v] /\ item[u] # 0 => u = v
  BY DEF OnePlace, ListInv
<1>r. /\ P!Range(head) = {head[k] : k \in 1..Len(head)}
      /\ P!Range(used) = {used[k] : k \in 1..Len(used)}
  BY RangeOf DEF BufferTyped
<1>1. CASE P!Make(s)
  <2>1. /\ s \in P!Makers /\ prodPc[s] = "idle" /\ made < Products
        /\ made' = made + 1 /\ item' = [item EXCEPT ![s] = made + 1]
        /\ prodPc' = [prodPc EXCEPT ![s] = "lock"]
        /\ UNCHANGED <<prodProg, used, queue, index, blank_number,
                       product_number, head, asleep>>
    BY <1>1 DEF P!Make, P!semVars, P!condVars
  <2>2. BufferTyped'
    BY <2>1 DEF BufferTyped
  <2>3. item'[s] = made + 1 /\ \A u \in P!Threads \ {s} : item'[u] = item[u]
    BY <2>1 DEF BufferTyped
  <2>4. \A u \in P!Threads : HasOne(u)' <=> (HasOne(u) \/ u = s)
    BY <2>1 DEF HasOne, BufferTyped, P!Makers, P!Users
  <2>5. \A x \in P!Range(head) \union P!Range(used) : x <= made
    BY <1>r DEF OnePlace, ListInv, BufferTyped
  <2>6. made \in Nat /\ \A u \in P!Threads : item[u] \in Nat
    BY DEF BufferTyped
  <2>7. OnePlace'
    <3>1. \A u \in P!Threads :
            /\ item'[u] # 0 <=> HasOne(u)'
            /\ item'[u] <= made + 1
            /\ item'[u] \notin P!Range(head) \union P!Range(used)
      BY <2>3, <2>4, <2>5, <2>6 DEF OnePlace, ListInv
    <3>2. \A u, v \in P!Threads : item'[u] = item'[v] /\ item'[u] # 0 => u = v
      BY <2>3, <2>6 DEF OnePlace, ListInv
    <3>3. \A k \in 1..Len(head) : head[k] <= made + 1
      BY <2>6 DEF OnePlace, ListInv, BufferTyped
    <3>4. \A k \in 1..Len(used) : used[k] \in 1..made + 1
      BY <2>6 DEF OnePlace, ListInv, BufferTyped
    <3> QED BY <2>1, <3>1, <3>2, <3>3, <3>4 DEF OnePlace, ListInv
  <2> QED BY <2>1, <2>2, <2>7 DEF ListInv, NoRing
<1>2. CASE P!Push(s)
  <2>1. /\ s \in P!Makers /\ prodPc[s] = "lock"
        /\ head' = <<item[s]>> \o head
        /\ item' = [item EXCEPT ![s] = 0]
        /\ prodPc' = [prodPc EXCEPT ![s] = "signal"]
        /\ UNCHANGED <<prodProg, made, used, queue, index, blank_number,
                       product_number, asleep>>
    BY <1>2 DEF P!Push, P!semVars
  <2>2. /\ item'[s] = 0 /\ \A u \in P!Threads \ {s} : item'[u] = item[u]
        /\ item[s] \in 1..Products /\ head \in Seq(1..Products)
        /\ used \in Seq(0..Products)
    BY <2>1 DEF BufferTyped, ListInv, OnePlace, HasOne
  <2>3. /\ <<item[s]>> \in Seq(1..Products) /\ Len(<<item[s]>>) = 1
        /\ <<item[s]>>[1] = item[s]
    BY <2>2
  <2>4. /\ head' \in Seq(1..Products) /\ Len(head') = 1 + Len(head)
        /\ Len(head) \in Nat
        /\ \A k \in 1..Len(head') :
             head'[k] = IF k = 1 THEN item[s] ELSE head[k - 1]
        /\ \A k \in 1..Len(head') : k # 1 => k - 1 \in 1..Len(head)
    <3>1. /\ head' \in Seq(1..Products) /\ Len(head') = 1 + Len(head)
          /\ Len(head) \in Nat
          /\ \A k \in 1..1 + Len(head) :
               head'[k] = IF k <= 1 THEN <<item[s]>>[k] ELSE head[k - 1]
      BY <2>1, <2>2, <2>3, ConcatProperties, LenProperties
    <3> QED BY <3>1, <2>3
  <2>5. P!Range(head') = {item[s]} \union P!Range(head)
    <3>1. P!Range(<<item[s]>> \o head) = {item[s]} \union P!Range(head)
      BY <2>2, RangeCons
    <3> QED BY <3>1, <2>1
  <2>6. BufferTyped'
    BY <2>1, <2>4 DEF BufferTyped
  <2>7. \A u \in P!Threads : HasOne(u)' <=> (HasOne(u) /\ u # s)
    BY <2>1 DEF HasOne, BufferTyped, P!Makers, P!Users
  <2>8. OnePlace'
    <3>1. \A u \in P!Threads :
            /\ item'[u] # 0 <=> HasOne(u)'
            /\ item'[u] <= made
            /\ item'[u] \notin P!Range(head') \union P!Range(used)
      <4>1. 0 \notin P!Range(head) \union P!Range(used) \union {item[s]}
        BY <2>2, <1>r DEF OnePlace, ListInv
      <4>2. 0 <= made
        BY DEF BufferTyped
      <4> QED BY <4>1, <4>2, <2>2, <2>5, <2>7 DEF OnePlace, ListInv
    <3>2. \A u, v \in P!Threads : item'[u] = item'[v] /\ item'[u] # 0 => u = v
      BY <2>2, <1>d
    <3>3. \A k \in 1..Len(head') :
            head'[k] <= made /\ head'[k] \notin P!Range(used)
      BY <2>4 DEF OnePlace, ListInv
    <3>4. \A k, l \in 1..Len(head') : head'[k] = head'[l] => k = l
      <4>1. \A k \in 1..Len(head) : head[k] # item[s]
        BY <2>2, <1>r DEF OnePlace, ListInv
      <4>2. \A k, l \in 1..Len(head) : head[k] = head[l] => k = l
        BY DEF OnePlace, ListInv
      <4>3. \A k, l \in 1..Len(head') : k - 1 = l - 1 => k = l
        BY <2>4
      <4> TAKE k, l \in 1..Len(head')
      <4> HAVE head'[k] = head'[l]
      <4>4. CASE k = 1 \/ l = 1
        BY <4>1, <4>4, <2>4
      <4>5. CASE k # 1 /\ l # 1
        <5>1. head'[k] = head[k - 1] /\ head'[l] = head[l - 1]
          BY <4>5, <2>4
        <5>2. k - 1 \in 1..Len(head) /\ l - 1 \in 1..Len(head)
          BY <4>5, <2>4
        <5> QED BY <5>1, <5>2, <4>2, <4>3
      <4> QED BY <4>4, <4>5
    <3> QED BY <2>1, <3>1, <3>2, <3>3, <3>4 DEF OnePlace, ListInv
  <2> QED BY <2>1, <2>6, <2>8 DEF ListInv, NoRing
<1>3. CASE P!Pop(s)
  <2>1. /\ s \in P!Users /\ prodPc[s] \in {"idle", "wait"} /\ head # <<>>
        /\ item' = [item EXCEPT ![s] = Head(head)] /\ head' = Tail(head)
        /\ prodPc' = [prodPc EXCEPT ![s] = "use"]
        /\ UNCHANGED <<prodProg, made, used, queue, index, blank_number,
                       product_number, asleep>>
    BY <1>3 DEF P!Pop, P!MustWait, P!semVars
  <2>2. head \in Seq(1..Products) /\ used \in Seq(0..Products)
    BY DEF BufferTyped
  <2>3. /\ head' \in Seq(1..Products) /\ Len(head') = Len(head) - 1
        /\ Len(head) \in Nat /\ Len(head) > 0
        /\ \A k \in 1..Len(head') : head'[k] = head[k + 1]
        /\ \A k \in 1..Len(head') : k + 1 \in 1..Len(head)
        /\ Head(head) = head[1] /\ Head(head) \in 1..Products
    <3>1. Len(head) \in Nat /\ Len(head) > 0
      BY <2>1, <2>2, LenProperties, EmptySeq
    <3>2. /\ head' \in Seq(1..Products) /\ Len(head') = Len(head) - 1
          /\ \A k \in 1..Len(head') : head'[k] = head[k + 1]
          /\ Head(head) = head[1] /\ Head(head) \in 1..Products
      BY <2>1, <2>2, HeadTailProperties
    <3> QED BY <3>1, <3>2
  <2>4. P!Range(head) = {head[1]} \union P!Range(head')
    BY <2>1, <2>2, <2>3, RangeTail
  <2>5. /\ item'[s] = head[1] /\ \A u \in P!Threads \ {s} : item'[u] = item[u]
        /\ item[s] = 0
    <3>1. ~HasOne(s)
      BY <2>1 DEF HasOne
    <3> QED BY <3>1, <2>1, <2>3 DEF BufferTyped, ListInv, OnePlace
  <2>6. BufferTyped'
    BY <2>1, <2>3 DEF BufferTyped
  <2>7. \A u \in P!Threads : HasOne(u)' <=> (HasOne(u) \/ u = s)
    BY <2>1 DEF HasOne, BufferTyped, P!Makers, P!Users
  <2>8. \A k \in 1..Len(head') : head'[k] # head[1]
    <3>1. \A k \in 1..Len(head') : k + 1 # 1 /\ 1 \in 1..Len(head)
      BY <2>3
    <3> QED BY <3>1, <2>3 DEF OnePlace, ListInv
  <2>9. OnePlace'
    <3>0. 1 \in 1..Len(head) /\ head[1] \in 1..Products
      BY <2>3
    <3>1. \A u \in P!Threads :
            /\ item'[u] # 0 <=> HasOne(u)'
            /\ item'[u] <= made
            /\ item'[u] \notin P!Range(head') \union P!Range(used)
      <4>1. head[1] \notin P!Range(head')
        <5>1. P!Range(head') = {head'[k] : k \in 1..Len(head')}
          BY <2>3, RangeOf
        <5> QED BY <5>1, <2>8
      <4>2. head[1] <= made /\ head[1] \notin P!Range(used) /\ head[1] # 0
        BY <3>0 DEF OnePlace, ListInv
      <4> QED BY <4>1, <4>2, <2>4, <2>5, <2>7 DEF OnePlace, ListInv
    <3>2. \A u, v \in P!Threads : item'[u] = item'[v] /\ item'[u] # 0 => u = v
      BY <2>4, <2>5 DEF OnePlace, ListInv
    <3>3. \A k \in 1..Len(head') :
            head'[k] <= made /\ head'[k] \notin P!Range(used)
      BY <2>3 DEF OnePlace, ListInv
    <3>4. \A k, l \in 1..Len(head') : head'[k] = head'[l] => k = l
      <4>1. \A k, l \in 1..Len(head') : k + 1 = l + 1 => k = l
        BY <2>3
      <4>2. \A k, l \in 1..Len(head) : head[k] = head[l] => k = l
        BY DEF OnePlace, ListInv
      <4> TAKE k, l \in 1..Len(head')
      <4> HAVE head'[k] = head'[l]
      <4>3. head[k + 1] = head[l + 1]
        BY <2>3
      <4>4. k + 1 = l + 1
        BY <4>2, <4>3, <2>3
      <4> QED BY <4>1, <4>4
    <3> QED BY <2>1, <3>1, <3>2, <3>3, <3>4 DEF OnePlace, ListInv
  <2> QED BY <2>1, <2>6, <2>9 DEF ListInv, NoRing
<1>4. CASE P!Use(s)
  <2>1. /\ s \in P!Users /\ prodPc[s] = "use"
        /\ used' = Append(used, item[s])
        /\ item' = [item EXCEPT ![s] = 0]
        /\ prodPc' = [prodPc EXCEPT ![s] = "idle"]
        /\ UNCHANGED <<prodProg, made, queue, index, blank_number,
                       product_number, head, asleep>>
    BY <1>4 DEF P!Use, P!semVars, P!condVars
  <2>2. /\ item'[s] = 0 /\ \A u \in P!Threads \ {s} : item'[u] = item[u]
        /\ item[s] \in 1..made /\ item[s] \in 0..Products
        /\ head \in Seq(1..Products) /\ used \in Seq(0..Products)
        /\ made \in Nat
    BY <2>1 DEF BufferTyped, ListInv, OnePlace, HasOne
  <2>3. /\ used' \in Seq(0..Products) /\ Len(used') = Len(used) + 1
        /\ Len(used) \in Nat
        /\ \A k \in 1..Len(used) : used'[k] = used[k]
        /\ used'[Len(used) + 1] = item[s]
    BY <2>1, <2>2, AppendProperties, LenProperties
  <2>4. \A k \in 1..Len(used') : k \in 1..Len(used) \/ k = Len(used) + 1
    BY <2>3
  <2>5. P!Range(used') = P!Range(used) \union {item[s]}
    <3>1. used \in Seq(0..Products) /\ item[s] \in 0..Products
      BY <2>2
    <3>2. P!Range(Append(used, item[s])) = P!Range(used) \union {item[s]}
      BY <3>1, RangeAppend
    <3> QED BY <3>2, <2>1
  <2>6. BufferTyped'
    BY <2>1, <2>3 DEF BufferTyped
  <2>7. \A u \in P!Threads : HasOne(u)' <=> (HasOne(u) /\ u # s)
    BY <2>1 DEF HasOne, BufferTyped, P!Makers, P!Users
  <2>8. OnePlace'
    <3>0. \A k \in 1..Len(used) : used[k] # item[s]
      BY <2>2, <1>r DEF OnePlace, ListInv
    <3>1. \A u \in P!Threads :
            /\ item'[u] # 0 <=> HasOne(u)'
            /\ item'[u] <= made
            /\ item'[u] \notin P!Range(head) \union P!Range(used')
      <4>1. 0 \notin P!Range(head) \union P!Range(used) \union {item[s]}
        BY <2>2, <1>r DEF OnePlace, ListInv
      <4>2. 0 <= made
        BY DEF BufferTyped
      <4> QED BY <4>1, <4>2, <2>2, <2>5, <2>7 DEF OnePlace, ListInv
    <3>2. \A u, v \in P!Threads : item'[u] = item'[v] /\ item'[u] # 0 => u = v
      BY <2>2, <1>d
    <3>3. \A k \in 1..Len(head) : head[k] \notin P!Range(used')
      <4>1. \A k \in 1..Len(head) : head[k] \in P!Range(head)
        BY <2>2, RangeOf
      <4>2. item[s] \notin P!Range(head)
        BY DEF OnePlace, ListInv
      <4>3. \A k \in 1..Len(head) : head[k] \notin P!Range(used)
        BY DEF OnePlace, ListInv
      <4> QED BY <4>1, <4>2, <4>3, <2>5
    <3>4. \A k \in 1..Len(used') : used'[k] \in 1..made
      BY <2>2, <2>3, <2>4 DEF OnePlace, ListInv
    <3>5. \A k, l \in 1..Len(used') : used'[k] = used'[l] => k = l
      BY <3>0, <2>3, <2>4 DEF OnePlace, ListInv
    <3> QED BY <2>1, <3>1, <3>2, <3>3, <3>4, <3>5 DEF OnePlace, ListInv
  <2> QED BY <2>1, <2>6, <2>8 DEF ListInv, NoRing
<1>5. CASE P!Signal(s) \/ P!CondWait(s) \/ P!Spurious(s)
  <2>1. /\ UNCHANGED <<prodProg, item, made, used, queue, index, blank_number,
                       product_number, head>>
        /\ asleep' \subseteq P!Threads
    BY <1>5 DEF P!Signal, P!CondWait, P!Spurious, P!semVars, BufferTyped
  <2>2. \/ UNCHANGED prodPc
        \/ /\ s \in P!Makers /\ prodPc[s] = "signal"
           /\ prodPc' = [prodPc EXCEPT ![s] = "idle"]
        \/ /\ s \in P!Users /\ prodPc[s] \in {"idle", "wait"}
           /\ prodPc' = [prodPc EXCEPT ![s] = "wait"]
    BY <1>5 DEF P!Signal, P!CondWait, P!Spurious
  <2>3. BufferTyped'
    BY <2>1, <2>2 DEF BufferTyped
  <2>4. \A u \in P!Threads : HasOne(u)' <=> HasOne(u)
    BY <2>1, <2>2 DEF HasOne, BufferTyped, P!Makers, P!Users
  <2> QED BY <2>1, <2>3, <2>4 DEF ListInv, NoRing, OnePlace
<1>6. ~(P!SemWaitBlank(s) \/ P!Fill(s) \/ P!SemPostProduct(s)
        \/ P!SemWaitProduct(s) \/ P!Empty(s) \/ P!SemPostBlank(s))
  BY DEF P!SemWaitBlank, P!Fill, P!SemPostProduct, P!SemWaitProduct, P!Empty,
    P!SemPostBlank
<1> QED BY <1>1, <1>2, <1>3, <1>4, <1>5, <1>6 DEF P!Step
-----------------------------------------------------------------------------
(* Both are the buffer *)

BufferInv == /\ BufferTyped
             /\ prodProg = "sem" => RingInv
             /\ prodProg = "cond" => ListInv

\* The ring begins empty, with its places counted; so does the list.
LEMMA BufferInit == ASSUME Init PROVE BufferInv
<1> USE ProducersGiven
<1>0. P!Init
  BY DEF Init
<1>1. BufferTyped
  BY <1>0, EmptySeq DEF P!Init, BufferTyped, P!Ring
<1>2. ASSUME prodProg = "sem" PROVE RingInv
  <2>1. InRing = 0 /\ Len(used) = 0
    <3>1. used = <<>> /\ made = 0 /\ Len(<<>>) = 0
      BY <1>0 DEF P!Init
    <3>2. Len(used) = 0
      BY <3>1
    <3>3. made = 0
      BY <3>1
    <3> QED BY <3>2, <3>3 DEF InRing
  <2>2. 0 \in P!Ring /\ Wrap(0) = 0
    BY DEF P!Ring, Wrap
  <2>3. \A s \in P!Users \union P!Makers : Past(s) = 0
    BY <1>0, <1>2 DEF P!Init, Past, P!Users, P!Makers
  <2>4. RingHolds(0)
    <3>1. \A k \in P!Ring : Wrap(0 + k) = k /\ ~(k < 0)
      BY DEF P!Ring, Wrap
    <3>2. \A k \in P!Ring : queue[k] = 0
      BY <1>0 DEF P!Init
    <3> QED BY <2>1, <2>2, <2>3, <3>1, <3>2 DEF RingHolds
  <2>5. \A label \in {"fill", "post"} :
          At(P!Users, label) = 0 /\ At(P!Makers, label) = 0
    BY <1>0, <1>2 DEF P!Init, At, P!Users, P!Makers
  <2>6. Tokens
    BY <1>0, <2>1, <2>5 DEF P!Init, Tokens
  <2>7. /\ UsedInOrder /\ NoList
        /\ \A s \in P!Threads : prodPc[s] = "idle"
    BY <1>0, <2>1 DEF P!Init, UsedInOrder, NoList
  <2> QED BY <2>2, <2>4, <2>6, <2>7, <1>2 DEF RingInv, P!Makers
<1>3. ASSUME prodProg = "cond" PROVE ListInv
  <2>1. /\ head = <<>> /\ used = <<>> /\ made = 0
        /\ \A s \in P!Threads : item[s] = 0 /\ prodPc[s] = "idle"
        /\ NoRing
    BY <1>0 DEF P!Init, NoRing
  <2>2. P!Range(<<>>) = {} /\ Len(<<>>) = 0
    BY DEF P!Range
  <2> QED BY <2>1, <2>2 DEF ListInv, OnePlace, HasOne
<1> QED BY <1>1, <1>2, <1>3 DEF BufferInv

ProducersRun == P!Next \/ UNCHANGED prodVars

\* A step of the composition is a step of Producers or leaves its variables.
LEMMA ProducersSteps == ASSUME [Next]_vars PROVE ProducersRun
BY DEF ProducersRun, Next, vars, InTableServers, InForkServers, InProducers,
  InLocks, InChildren, InStreams, InStreamWrap, InLibevent, InDatagrams,
  InListing, InBufferevents

\* No step of either program breaks its part of the invariant.
LEMMA BufferStep == ASSUME BufferInv, ProducersRun PROVE BufferInv'
<1>1. CASE UNCHANGED prodVars
  <2>1. BufferTyped' <=> BufferTyped
    BY <1>1 DEF prodVars, BufferTyped
  <2>2. Tokens' <=> Tokens
    BY <1>1 DEF prodVars, Tokens, At, InRing, P!Users, P!Makers
  <2>3. \A h \in P!Ring : RingHolds(h)' <=> RingHolds(h)
    BY <1>1 DEF prodVars, RingHolds, Past, InRing, P!Users, P!Makers, Wrap
  <2>4. RingInv' <=> RingInv
    BY <2>2, <2>3, <1>1 DEF prodVars, RingInv, UsedInOrder, NoList, P!Makers
  <2>5. ListInv' <=> ListInv
    BY <1>1 DEF prodVars, ListInv, NoRing, OnePlace, HasOne, P!Users, P!Makers
  <2> QED BY <2>1, <2>4, <2>5, <1>1 DEF prodVars, BufferInv
<1>2. ASSUME NEW s \in P!Threads, P!Step(s) \/ P!Spurious(s)
      PROVE  BufferInv'
  <2>1. UNCHANGED prodProg
    BY <1>2 DEF P!Step, P!Spurious, P!SemWaitBlank, P!Fill, P!SemPostProduct,
      P!SemWaitProduct, P!Empty, P!SemPostBlank, P!Make, P!Push, P!Signal,
      P!CondWait, P!Pop, P!Use
  <2>2. CASE prodProg = "sem"
    <3>1. ~P!Spurious(s)
      BY <2>2 DEF BufferInv, RingInv, NoList, P!Spurious
    <3> QED BY <3>1, <1>2, <2>1, <2>2, RingStep DEF BufferInv
  <2>3. CASE prodProg = "cond"
    BY <1>2, <2>1, <2>3, ListStep DEF BufferInv
  <2> QED BY <2>2, <2>3 DEF BufferInv, BufferTyped
<1> QED BY <1>1, <1>2 DEF ProducersRun, P!Next

Held == (P!Range(queue) \ {0}) \union P!Range(head)
Gone == P!Range(used) \union P!Carried

\* The ring has the products made and not used, and those used were all before.
RingMapped == prodProg = "sem" => /\ Held = Len(used) + 1..made
                                  /\ Gone = 1..Len(used)

\* What the ring holds, by the invariant.
LEMMA RingMaps == BufferInv => RingMapped
<1> SUFFICES ASSUME BufferInv, prodProg = "sem"
             PROVE  Held = Len(used) + 1..made /\ Gone = 1..Len(used)
  BY DEF RingMapped
<1>1. PICK oldest \in P!Ring : RingHolds(oldest)
  BY DEF BufferInv, RingInv
<1>2. /\ InRing \in 0..NUM /\ Len(used) \in Nat /\ made \in Nat
      /\ InRing = made - Len(used) /\ NUM \in Nat \ {0}
  BY ProducersGiven, LenProperties
    DEF BufferInv, BufferTyped, RingInv, Tokens, InRing
<1>3. \A k \in P!Ring : \E j \in P!Ring : k = Wrap(oldest + j)
  <2> TAKE k \in P!Ring
  <2> DEFINE j == IF oldest <= k THEN k - oldest ELSE k - oldest + NUM
  <2>1. j \in P!Ring /\ k = Wrap(oldest + j)
    BY <1>2 DEF P!Ring, Wrap
  <2> HIDE DEF j
  <2> QED BY <2>1
<1>4. P!Range(queue) \ {0} = Len(used) + 1..made
  <2>1. P!Range(queue) = {queue[k] : k \in P!Ring}
    BY DEF P!Range, BufferInv, BufferTyped
  <2>2. ASSUME NEW k \in P!Ring, queue[k] # 0
        PROVE  queue[k] \in Len(used) + 1..made
    <3>1. PICK j \in P!Ring : k = Wrap(oldest + j)
      BY <1>3
    <3>2. j < InRing /\ queue[k] = Len(used) + 1 + j
      BY <2>2, <3>1, <1>1 DEF RingHolds
    <3> QED BY <3>2, <1>2 DEF P!Ring
  <2>3. ASSUME NEW x \in Len(used) + 1..made
        PROVE  \E k \in P!Ring : queue[k] = x /\ x # 0
    <3> DEFINE j == x - Len(used) - 1
    <3>1. j \in P!Ring /\ j < InRing /\ x = Len(used) + 1 + j /\ x # 0
      BY <1>2 DEF P!Ring
    <3> HIDE DEF j
    <3>2. Wrap(oldest + j) \in P!Ring /\ queue[Wrap(oldest + j)] = x
      BY <3>1, <1>1, WrapFacts DEF RingHolds
    <3> QED BY <3>1, <3>2
  <2> QED BY <2>1, <2>2, <2>3
<1>5. P!Range(used) = 1..Len(used)
  <2>1. P!Range(used) = {used[k] : k \in 1..Len(used)}
    BY RangeOf DEF BufferInv, BufferTyped
  <2>2. \A k \in 1..Len(used) : used[k] = k
    BY DEF BufferInv, RingInv, UsedInOrder
  <2> QED BY <2>1, <2>2
<1>6. P!Range(head) = {}
  BY DEF BufferInv, RingInv, NoList, P!Range
<1>7. P!Carried = {}
  BY ProducersGiven DEF BufferInv, RingInv, NoList, P!Carried, P!Users
<1> QED BY <1>4, <1>5, <1>6, <1>7 DEF Held, Gone
\* Each step puts a product, takes one, or changes nothing of the buffer.
LEMMA RingImplements ==
  ASSUME BufferInv, BufferInv', RingMapped, RingMapped', prodProg = "sem",
         NEW s \in P!Threads, P!Step(s)
  PROVE  P!Abstract!Next \/ UNCHANGED P!Abstract!vars
<1>1. /\ Held = Len(used) + 1..made /\ Gone = 1..Len(used)
      /\ UNCHANGED prodProg
    BY DEF RingMapped, P!Step, P!SemWaitBlank, P!Fill, P!SemPostProduct,
      P!SemWaitProduct, P!Empty, P!SemPostBlank, P!Make, P!Push, P!Signal,
      P!CondWait, P!Pop, P!Use
<1>2. Held' = Len(used') + 1..made' /\ Gone' = 1..Len(used')
  BY <1>1 DEF RingMapped
<1>3. /\ Len(used) \in Nat /\ made \in Nat /\ NUM \in Nat \ {0}
      /\ blank_number \in Nat /\ Products \in Nat /\ product_number \in Nat
      /\ used \in Seq(0..Products) /\ made' \in 0..Products
  BY ProducersGiven, LenProperties DEF BufferInv, BufferTyped
<1>4. CASE P!Fill(s)
  <2>1. made' = made + 1 /\ used' = used
    BY <1>4 DEF P!Fill
  <2>2. At(P!Makers, "fill") = 1 /\ At(P!Users, "post") \in {0, 1}
    BY <1>4 DEF P!Fill, At
  <2>3. made - Len(used) \in Nat /\ made - Len(used) < NUM
    <3>1. /\ blank_number + At(P!Makers, "fill") + InRing
               + At(P!Users, "post") = NUM
          /\ InRing \in Nat /\ InRing = made - Len(used)
      BY <1>3 DEF BufferInv, RingInv, Tokens, InRing
    <3> QED BY <3>1, <2>2, <1>3
  <2>4. /\ made + 1 \in 1..Products /\ made + 1 \notin Held \union Gone
        /\ Held' = Held \union {made + 1} /\ Gone' = Gone
    BY <2>1, <2>3, <1>1, <1>2, <1>3
  <2>5. P!Abstract!Cardinality(Held) < NUM
    <3>1. P!Abstract!Cardinality(Held) = Cardinality(Held)
      BY DEF P!Abstract!Cardinality, Cardinality
    <3>2. Cardinality(Held) = made - Len(used)
      <4> DEFINE first == Len(used) + 1
      <4>1. first \in Int /\ made \in Int /\ Held = first..made
        BY <1>1, <1>3
      <4>2. Cardinality(Held) = IF first > made THEN 0 ELSE made - first + 1
        <5> HIDE DEF first
        <5> QED BY <4>1, FS_Interval
      <4> QED BY <4>2, <1>3, <2>3
    <3> QED BY <3>1, <3>2, <2>3
  <2>6. P!Abstract!Put(made + 1)
    BY <2>4, <2>5, <1>1 DEF P!Abstract!Put, Held, Gone
  <2> QED BY <2>4, <2>6 DEF P!Abstract!Next
<1>5. CASE P!Empty(s)
  <2>1. /\ made' = made /\ used' = Append(used, queue[index[s]])
        /\ queue[index[s]] \in 0..Products
    BY <1>5 DEF P!Empty, BufferInv, BufferTyped
  <2>2. Len(used') = Len(used) + 1
    BY <2>1, <1>3, AppendProperties
  <2>3. Len(used') <= made'
    <3>1. InRing' \in 0..NUM /\ InRing' = made' - Len(used')
      BY <1>1 DEF BufferInv, RingInv, Tokens, InRing
    <3> QED BY <3>1, <1>3, <2>1, <2>2
  <2>4. /\ Len(used) + 1 \in 1..Products /\ Len(used) + 1 \in Held
        /\ \A y \in Held : Len(used) + 1 <= y
        /\ Held' = Held \ {Len(used) + 1}
        /\ Gone' = Gone \union {Len(used) + 1}
    BY <2>1, <2>2, <2>3, <1>1, <1>2, <1>3
  <2>5. P!Abstract!Take(Len(used) + 1)
    BY <2>4, <1>1 DEF P!Abstract!Take, Held, Gone
  <2> QED BY <2>4, <2>5 DEF P!Abstract!Next
<1>6. CASE P!SemWaitBlank(s) \/ P!SemPostProduct(s) \/ P!SemWaitProduct(s)
             \/ P!SemPostBlank(s)
  <2>1. UNCHANGED <<used, made>>
    BY <1>6 DEF P!SemWaitBlank, P!SemPostProduct, P!SemWaitProduct,
      P!SemPostBlank
  <2>2. UNCHANGED <<Held, Gone>>
    BY <2>1, <1>1, <1>2
  <2> QED BY <2>2, <1>1 DEF P!Abstract!vars, Held, Gone
<1>7. ~(P!Make(s) \/ P!Push(s) \/ P!Signal(s) \/ P!CondWait(s) \/ P!Pop(s)
        \/ P!Use(s))
  BY DEF P!Make, P!Push, P!Signal, P!CondWait, P!Pop, P!Use
<1> QED BY <1>4, <1>5, <1>6, <1>7 DEF P!Step

\* A product is put at the push and taken at the pop; the rest is a stutter.
LEMMA ListImplements ==
  ASSUME BufferInv, BufferInv', prodProg = "cond",
         NEW s \in P!Threads, P!Step(s) \/ P!Spurious(s)
  PROVE  P!Abstract!Next \/ UNCHANGED P!Abstract!vars
<1>1. UNCHANGED <<prodProg, P!Users>>
  BY DEF P!Step, P!Spurious, P!SemWaitBlank, P!Fill, P!SemPostProduct,
    P!SemWaitProduct, P!Empty, P!SemPostBlank, P!Make, P!Push, P!Signal,
    P!CondWait, P!Pop, P!Use, P!Users
<1>2. NoRing /\ NoRing' /\ OnePlace
  BY <1>1 DEF BufferInv, ListInv
<1>3. /\ head \in Seq(1..Products) /\ used \in Seq(0..Products)
      /\ item \in [P!Threads -> 0..Products] /\ Products \in Nat
      /\ P!Users \subseteq P!Threads /\ P!Makers \subseteq P!Threads
      /\ P!Users \intersect P!Makers = {}
  BY ProducersGiven DEF BufferInv, BufferTyped, P!Users, P!Makers
<1>4. P!Range(queue) \subseteq {0} /\ P!Range(queue)' \subseteq {0}
  BY <1>2 DEF NoRing, P!Range, BufferInv, BufferTyped
<1>5. Held = P!Range(head) /\ Held' = P!Range(head')
  BY <1>2, <1>4 DEF Held, P!Range
<1>6. CASE P!Push(s)
  <2>1. /\ s \in P!Makers /\ prodPc[s] = "lock"
        /\ head' = <<item[s]>> \o head /\ item' = [item EXCEPT ![s] = 0]
        /\ used' = used
    BY <1>6 DEF P!Push
  <2>2. item[s] \in 1..Products /\ item[s] \notin Held \union P!Range(used)
    BY <2>1, <1>2, <1>3, <1>5 DEF OnePlace, HasOne
  <2>3. item[s] \notin P!Carried
    BY <2>1, <1>2, <1>3 DEF OnePlace, P!Carried
  <2>4. P!Range(<<item[s]>> \o head) = {item[s]} \union P!Range(head)
    BY <2>2, <1>3, RangeCons
  <2>5. Held' = Held \union {item[s]}
    BY <2>1, <2>4, <1>5
  <2>6. P!Carried' = P!Carried
    BY <2>1, <1>1, <1>3 DEF P!Carried
  <2>7. Gone' = Gone /\ item[s] \notin Held \union Gone
    BY <2>1, <2>2, <2>3, <2>6 DEF Gone
  <2>8. P!Abstract!Put(item[s])
    BY <2>5, <2>7, <1>1 DEF P!Abstract!Put, Held, Gone
  <2> QED BY <2>2, <2>8 DEF P!Abstract!Next
<1>7. CASE P!Pop(s)
  <2>1. /\ s \in P!Users /\ prodPc[s] \in {"idle", "wait"} /\ head # <<>>
        /\ item' = [item EXCEPT ![s] = Head(head)] /\ head' = Tail(head)
        /\ used' = used
    BY <1>7 DEF P!Pop, P!MustWait
  <2>2. P!Range(head) = {Head(head)} \union P!Range(Tail(head))
    BY <2>1, <1>3, RangeTail
  <2>3. Head(head) \in 1..Products
    BY <2>1, <1>3, HeadTailProperties
  <2>4. Head(head) \notin P!Range(Tail(head))
    <3>1. /\ Tail(head) \in Seq(1..Products) /\ Len(head) \in Nat
          /\ Len(Tail(head)) = Len(head) - 1 /\ Head(head) = head[1]
          /\ \A k \in 1..Len(Tail(head)) : Tail(head)[k] = head[k + 1]
      BY <2>1, <1>3, HeadTailProperties, LenProperties
    <3>2. \A k \in 1..Len(Tail(head)) :
            k + 1 \in 1..Len(head) /\ 1 \in 1..Len(head) /\ k + 1 # 1
      BY <3>1
    <3>3. \A k \in 1..Len(Tail(head)) : Tail(head)[k] # Head(head)
      BY <3>1, <3>2, <1>2 DEF OnePlace
    <3>4. P!Range(Tail(head)) = {Tail(head)[k] : k \in 1..Len(Tail(head))}
      BY <3>1, RangeOf
    <3> QED BY <3>3, <3>4
  <2>5. item[s] = 0
    BY <2>1, <1>2, <1>3 DEF OnePlace, HasOne
  <2>6. P!Carried' = P!Carried \union {Head(head)}
    BY <2>1, <2>3, <2>5, <1>1, <1>3 DEF P!Carried
  <2>7. /\ Head(head) \in Held /\ Held' = Held \ {Head(head)}
        /\ Gone' = Gone \union {Head(head)}
    BY <2>1, <2>2, <2>4, <2>6, <1>5 DEF Gone
  <2>8. P!Abstract!Take(Head(head))
    BY <2>7, <1>1 DEF P!Abstract!Take, Held, Gone
  <2> QED BY <2>3, <2>8 DEF P!Abstract!Next
<1>8. CASE P!Use(s)
  <2>1. /\ s \in P!Users /\ prodPc[s] = "use" /\ used' = Append(used, item[s])
        /\ item' = [item EXCEPT ![s] = 0] /\ head' = head
    BY <1>8 DEF P!Use, P!condVars
  <2>2. item[s] \in 0..Products /\ item[s] # 0
    BY <2>1, <1>2, <1>3 DEF OnePlace, HasOne
  <2>3. P!Range(Append(used, item[s])) = P!Range(used) \union {item[s]}
    <3>1. \A q \in Seq(0..Products), e \in 0..Products :
            P!Range(Append(q, e)) = P!Range(q) \union {e}
      BY RangeAppend
    <3> QED BY <3>1, <2>2, <1>3
  <2>4. P!Carried = P!Carried' \union {item[s]}
    BY <2>1, <2>2, <1>1, <1>3 DEF P!Carried
  <2>5. UNCHANGED <<Held, Gone>>
    BY <2>1, <2>3, <2>4, <1>5 DEF Gone
  <2> QED BY <2>5, <1>1 DEF P!Abstract!vars, Held, Gone
<1>9. CASE P!Make(s) \/ P!Signal(s) \/ P!CondWait(s) \/ P!Spurious(s)
  <2>1. UNCHANGED <<head, used>>
    BY <1>9 DEF P!Make, P!Signal, P!CondWait, P!Spurious, P!condVars
  <2>2. P!Carried' = P!Carried
    <3>1. \A u \in P!Users : item'[u] = item[u]
      BY <1>9, <1>3 DEF P!Make, P!Signal, P!CondWait, P!Spurious
    <3> QED BY <3>1, <1>1 DEF P!Carried
  <2>3. UNCHANGED <<Held, Gone>>
    BY <2>1, <2>2, <1>5 DEF Gone
  <2> QED BY <2>3, <1>1 DEF P!Abstract!vars, Held, Gone
<1>10. ~(P!SemWaitBlank(s) \/ P!Fill(s) \/ P!SemPostProduct(s)
         \/ P!SemWaitProduct(s) \/ P!Empty(s) \/ P!SemPostBlank(s))
  BY DEF P!SemWaitBlank, P!Fill, P!SemPostProduct, P!SemWaitProduct, P!Empty,
    P!SemPostBlank
<1> QED BY <1>6, <1>7, <1>8, <1>9, <1>10 DEF P!Step

\* The same of both programs.
LEMMA BufferImplements ==
  BufferInv /\ BufferInv' /\ RingMapped /\ RingMapped' /\ ProducersRun
    => P!Abstract!Next \/ UNCHANGED P!Abstract!vars
<1> SUFFICES ASSUME BufferInv, BufferInv', RingMapped, RingMapped',
                    ProducersRun
             PROVE  P!Abstract!Next \/ UNCHANGED P!Abstract!vars
  OBVIOUS
<1>1. CASE UNCHANGED prodVars
  BY <1>1 DEF prodVars, P!Abstract!vars, P!Range, P!Carried, P!Users
<1>2. ASSUME NEW s \in P!Threads, P!Step(s) \/ P!Spurious(s)
      PROVE  P!Abstract!Next \/ UNCHANGED P!Abstract!vars
  <2>1. CASE prodProg = "sem"
    <3>1. ~P!Spurious(s)
      BY <2>1 DEF BufferInv, RingInv, NoList, P!Spurious
    <3> QED BY <3>1, <1>2, <2>1, RingImplements
  <2>2. CASE prodProg = "cond"
    BY <1>2, <2>2, ListImplements
  <2> QED BY <2>1, <2>2 DEF BufferInv, BufferTyped
<1> QED BY <1>1, <1>2 DEF ProducersRun, P!Next

\* The buffer begins empty.
LEMMA BufferBegins == ASSUME Init PROVE P!Abstract!Init
<1>1. /\ P!Init
  BY DEF Init
<1>2. P!Range(queue) \ {0} = {} /\ P!Range(<<>>) = {} /\ P!Carried = {}
  BY <1>1, ProducersGiven DEF P!Init, P!Range, P!Carried, P!Users
<1> QED BY <1>1, <1>2 DEF P!Init, P!Abstract!Init

\* The ring between two semaphores and the list under a mutex are each the
\* buffer that a producer and a consumer expect.
THEOREM ProducersImplementBuffer == Spec => ImplementsBuffer
<1>1. Init => BufferInv
  BY BufferInit
<1>2. BufferInv /\ [Next]_vars => BufferInv'
  BY ProducersSteps, BufferStep
<1>3. BufferInv /\ BufferInv' /\ RingMapped /\ RingMapped' /\ [Next]_vars
        => P!Abstract!Next \/ UNCHANGED P!Abstract!vars
  BY ProducersSteps, BufferImplements
<1>4. Init => P!Abstract!Init
  BY BufferBegins
<1> QED BY <1>1, <1>2, <1>3, <1>4, RingMaps, PTL
      DEF Spec, ImplementsBuffer, P!ImplementsBuffer, P!Abstract!Spec


-----------------------------------------------------------------------------
(* Types *)

\* No more is used than is made.
LEMMA ProducersTypes == ASSUME BufferInv PROVE P!TypeOK
<1>0. Products \in Nat /\ made \in 0..Products /\ Len(used) \in Nat
  BY ProducersGiven DEF BufferInv, BufferTyped
<1>1. CASE prodProg = "sem"
  <2>1. InRing \in 0..NUM
    BY <1>1 DEF BufferInv, RingInv, Tokens
  <2>2. Len(used) <= Products
    BY <1>0, <2>1, ProducersGiven DEF InRing
  <2> QED BY <2>2 DEF BufferInv, BufferTyped, P!TypeOK
<1>2. CASE prodProg = "cond"
  <2> DEFINE Places == 1..Len(used)
             Made == 1..made
  <2>1. /\ DOMAIN used = Places /\ \A k \in Places : used[k] \in Made
        /\ \A k, l \in Places : used[k] = used[l] => k = l
    BY <1>2 DEF BufferInv, BufferTyped, ListInv, OnePlace
  <2>2. /\ IsFiniteSet(Places) /\ Cardinality(Places) = Len(used)
        /\ IsFiniteSet(Made) /\ Cardinality(Made) = made
    <3>1. /\ 1 \in Int /\ Len(used) \in Int /\ made \in Int
          /\ Len(used) - 1 + 1 = Len(used) /\ made - 1 + 1 = made
          /\ (1 > Len(used) => Len(used) = 0) /\ (1 > made => made = 0)
      BY <1>0
    <3> QED BY <3>1, FS_Interval
  <2>3. used \in [Places -> Made]
    <3>1. used = [k \in Places |-> used[k]]
      BY <2>1 DEF BufferInv, BufferTyped
    <3> QED BY <2>1, <3>1
  <2>4. ~ (Cardinality(Made) < Cardinality(Places))
    <3> SUFFICES ASSUME Cardinality(Made) < Cardinality(Places) PROVE FALSE
      OBVIOUS
    <3> HIDE DEF Places, Made
    <3>1. \E x, y \in Places : x # y /\ used[x] = used[y]
      BY <2>2, <2>3, FS_PigeonHole
    <3> QED BY <2>1, <3>1
  <2>5. Len(used) <= Products
    BY <1>0, <2>2, <2>4
  <2> QED BY <2>5 DEF BufferInv, BufferTyped, P!TypeOK
<1> QED BY <1>1, <1>2 DEF BufferInv, BufferTyped
=============================================================================
