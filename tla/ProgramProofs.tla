--------------------------- MODULE ProgramProofs ---------------------------
(***************************************************************************)
(* Proofs about programs of which one property is checked, in the          *)
(* composition of all of them: parents that wait for their children, the   *)
(* reads of wrap.c that deal with a stream in parts, and the programs on   *)
(* libevent.                                                               *)
(***************************************************************************)
EXTENDS MCPrograms, TLAPS, SequenceTheorems

-----------------------------------------------------------------------------
(* Children *)

ChildrenRun == C!Next \/ UNCHANGED waitVars

\* A step of the composition is a step of Children or leaves its variables
\* alone.
LEMMA ChildrenSteps == ASSUME [Next]_vars PROVE ChildrenRun
BY DEF ChildrenRun, Next, vars, InTableServers, InForkServers, InProducers,
  InLocks, InChildren, InStreams, InStreamWrap, InLibevent, InDatagrams,
  InListing, InBufferevents

\* SIGCHLD of catch_child.c is kept for its handler from before the first fork:
\* blocked until the handler is installed, caught from then on.
Kept ==
  waitProg = "catch_child" =>
    /\ waitHandler \/ blocked
    /\ waitMain \in {"fork", "install", "unblock", "work"}
    /\ waitMain \in {"unblock", "work"} \/ waitHandling => waitHandler
    /\ C!Zombies = {} \/ waitPending \/ waitHandling

\* What the others have done when they end.
Waited ==
  waitMain = "ended" =>
    /\ waitProg = "waitpid_while" => C!Unwaited = {}
    /\ waitProg = "kill_loopfork" => child[Chosen] # "run" \/ failed

\* The loop that forks is left with its last child; only one parent kills.
Forking == /\ waitMain = "fork" => waitI < Count
           /\ waitMain = "kill" => waitProg = "kill_loopfork"

WaitInv == C!TypeOK /\ Kept /\ Waited /\ Forking

\* The parents begin so.
LEMMA WaitInit == ASSUME Init PROVE WaitInv
<1>1. /\ waitProg \in C!Programs /\ waitMain = "fork" /\ waitI = 0
      /\ failed = FALSE /\ child = [n \in 1..Count |-> "none"]
      /\ waitHandler = FALSE /\ blocked = (waitProg = "catch_child")
      /\ waitPending = FALSE /\ waitHandling = FALSE
  BY DEF Init, C!Init, C!BlockedFirst
<1>2. Count \in Nat /\ 0 < Count
  BY ProgramsAssumption DEF C!ChildrenAssumption
<1>3. C!TypeOK
  <2>1. waitI \in 0..Count
    BY <1>1, <1>2
  <2>2. {failed, waitHandler, blocked, waitPending, waitHandling}
          \subseteq BOOLEAN
    BY <1>1
  <2> QED BY <1>1, <2>1, <2>2 DEF C!TypeOK
<1> QED BY <1>1, <1>2, <1>3 DEF WaitInv, Kept, Waited, Forking, C!Zombies

\* No step of a parent, its handler or a child breaks it.
LEMMA WaitsStep == ASSUME WaitInv, ChildrenRun PROVE WaitInv'
<1> USE DEF WaitInv, C!TypeOK, Kept, Waited, Forking, C!Zombies,
      C!Unwaited
<1>0. Count \in Nat /\ Chosen \in 1..Count
  BY ProgramsAssumption DEF C!ChildrenAssumption
<1>1. CASE UNCHANGED waitVars
  BY <1>1 DEF waitVars
<1>2. CASE C!Fork
  <2>1. /\ waitMain = "fork" /\ waitI' = waitI + 1 /\ waitI + 1 \in 1..Count
        /\ child' = [child EXCEPT ![waitI + 1] = "run"]
        /\ UNCHANGED <<waitProg, failed, C!signalVars>>
    BY <1>0, <1>2 DEF C!Fork
  <2>2. child' \in [1..Count -> {"none", "run", "zombie", "reaped"}]
    BY <2>1
  <2>3. C!Zombies' \subseteq C!Zombies
    BY <2>1
  <2>4. /\ waitMain' \in {"fork", "install", "work", "wait"}
        /\ waitMain' = "fork" => waitI + 1 < Count
        /\ waitProg = "catch_child" => waitMain' \in {"fork", "install"}
    BY <1>2 DEF C!Fork, C!AfterFork
  <2> QED BY <2>1, <2>2, <2>3, <2>4, <1>0 DEF C!signalVars
<1>3. CASE C!ForkFails
  <2>1. /\ waitMain = "fork" /\ waitI' = waitI + 1 /\ waitI + 1 \in 1..Count
        /\ failed' = TRUE
        /\ UNCHANGED <<waitProg, C!signalVars>>
    BY <1>0, <1>3 DEF C!ForkFails
  <2>2. CASE waitProg = "kill_loopfork"
    <3>1. waitMain' = "ended" /\ child' = C!Orphaned(child)
      BY <1>3, <2>2 DEF C!ForkFails
    <3>2. child' \in [1..Count -> {"none", "run", "zombie", "reaped"}]
      BY <3>1 DEF C!Orphaned
    <3> QED BY <2>1, <2>2, <3>1, <3>2 DEF C!signalVars
  <2>3. CASE waitProg # "kill_loopfork"
    <3>1. /\ waitMain' \in {"fork", "install", "wait"} /\ child' = child
          /\ waitMain' = "fork" => waitI + 1 < Count
          /\ waitProg = "catch_child" => waitMain' \in {"fork", "install"}
      BY <1>3, <2>3 DEF C!ForkFails, C!AfterFork
    <3> QED BY <2>1, <2>3, <3>1, <1>0 DEF C!signalVars
  <2> QED BY <2>2, <2>3
<1>4. ASSUME NEW n \in 1..Count, C!ChildEnds(n) PROVE WaitInv'
  BY <1>0, <1>4 DEF C!ChildEnds, C!Dies
<1>5. CASE C!Install
  BY <1>5 DEF C!Install
<1>6. CASE C!Unblock
  BY <1>6 DEF C!Unblock
<1>7. CASE C!Catch
  BY <1>7 DEF C!Catch
<1>8. ASSUME NEW n \in 1..Count, C!HandlerWaits(n) PROVE WaitInv'
  BY <1>8 DEF C!HandlerWaits, C!signalVars
<1>9. CASE C!HandlerReturns
  BY <1>9 DEF C!HandlerReturns
<1>10. ASSUME NEW n \in 1..Count, C!Poll(n) PROVE WaitInv'
  BY <1>10 DEF C!Poll, C!signalVars
<1>11. CASE C!PollEnds
  BY <1>11 DEF C!PollEnds, C!signalVars
<1>12. CASE C!WaitOne
  BY <1>12 DEF C!WaitOne, C!signalVars, C!Orphaned
<1>13. CASE C!Slept
  BY <1>13 DEF C!Slept, C!signalVars
<1>14. CASE C!Kill
  <2>1. /\ waitMain = "kill" /\ waitMain' = "ended"
        /\ UNCHANGED <<waitProg, waitI, failed, C!signalVars>>
    BY <1>14 DEF C!Kill
  <2>2. waitProg # "catch_child" /\ waitProg # "waitpid_while"
    BY <2>1
  <2>3. child' \in [1..Count -> {"none", "run", "zombie", "reaped"}]
    BY <1>14 DEF C!Kill, C!Orphaned
  <2>4. child'[Chosen] = "reaped"
    BY <1>0, <1>14 DEF C!Kill, C!Orphaned
  <2> QED BY <2>1, <2>2, <2>3, <2>4 DEF C!signalVars
<1> QED BY <1>1, <1>2, <1>3, <1>4, <1>5, <1>6, <1>7, <1>8, <1>9, <1>10, <1>11,
           <1>12, <1>13, <1>14 DEF ChildrenRun, C!Next, C!Main, C!Handler

\* No child is left behind: catch_child.c has a signal on its way for those
\* that have ended, waitpid_while.c has waited for all, kill_loopfork.c has
\* killed the one that goes round for ever.
THEOREM ChildrenWaitedFor == Spec => []NoneLeft
<1>1. Init => WaitInv
  BY WaitInit
<1>2. WaitInv /\ [Next]_vars => WaitInv'
  BY ChildrenSteps, WaitsStep
<1>3. WaitInv => NoneLeft
  BY DEF WaitInv, Kept, Waited, NoneLeft, C!NoneLeft
<1> QED BY <1>1, <1>2, <1>3, PTL DEF Spec

-----------------------------------------------------------------------------
(* The reads of a stream in parts *)

StreamWrapRun == W!Next \/ UNCHANGED wrapVars

\* A step of the composition is a step of StreamWrap or leaves its variables
\* alone.
LEMMA StreamWrapSteps == ASSUME [Next]_vars PROVE StreamWrapRun
BY DEF StreamWrapRun, Next, vars, InTableServers, InForkServers, InProducers,
  InLocks, InChildren, InStreams, InStreamWrap, InLibevent, InDatagrams,
  InListing, InBufferevents

\* A byte is a descriptor and its place in what is sent there.
Bytes == Fds \X Nat

WrapTyped ==
  /\ failedTo \subseteq Fds
  /\ sentTo \in [Fds -> Nat] /\ taken \in [Fds -> Nat]
  /\ \A f \in Fds : taken[f] <= sentTo[f] /\ sentTo[f] <= Len(Data[f])
  /\ buffer \in Seq(Bytes) /\ out \in [Fds -> Seq(Bytes)]
  /\ mixed \in BOOLEAN
  /\ \/ call = W!Idle
     \/ /\ call \in [op : {"Readn", "Readline"}, fd : Fds, size : Nat,
                     left : Nat]
        /\ call.left <= call.size

\* The bytes of f that are taken and not stored are those that Readline has
\* read ahead, all of them of one descriptor.
Ahead(f) == buffer # <<>> /\ buffer[1][1] = f
TakenInOrder ==
  /\ \A f \in Fds : \A k \in 1..Len(out[f]) : out[f][k] = <<f, k>>
  /\ \A f \in Fds : ~Ahead(f) => taken[f] = Len(out[f])
  /\ \A f \in Fds : Ahead(f) => taken[f] = Len(out[f]) + Len(buffer)
  /\ \A f \in Fds : Ahead(f) =>
       \A k \in 1..Len(buffer) : buffer[k] = <<f, Len(out[f]) + k>>

\* Nor is a call at work beside bytes of another use.
CallAlone == call # W!Idle /\ buffer # <<>> =>
               (call.op = "Readline" <=> Ahead(call.fd))

\* A short result of Readn is one at the end; a result that differs from what
\* is stored is that of a failure or of a line that is cut.
ShortAtEnd ==
  /\ result.op = "Readn" /\ result.ret \in 0..result.size - 1 =>
       result.fd \in Fds /\ W!AtEnd(result.fd)
  /\ result.ret \notin {result.stored, -1} =>
       result.op = "Readline" /\ result.ret = result.size

WrapInv == WrapTyped /\ (~mixed => TakenInOrder /\ CallAlone) /\ ShortAtEnd

\* What is sent.
LEMMA WrapData ==
  Data \in [Fds -> Seq({"x", "nl"})] /\ Sizes \subseteq Nat \ {0}
BY ProgramsAssumption DEF W!StreamWrapAssumption

\* Nothing is sent or read yet.
LEMMA WrapInit == ASSUME Init PROVE WrapInv
<1>1. /\ sentTo = [f \in Fds |-> 0] /\ taken = [f \in Fds |-> 0]
      /\ failedTo = {}
      /\ buffer = <<>> /\ call = W!Idle /\ result = W!NoResult
      /\ out = [f \in Fds |-> <<>>] /\ mixed = FALSE
  BY DEF Init, W!Init
<1>2. \A f \in Fds : Len(Data[f]) \in Nat
  BY WrapData, LenProperties
<1>3. WrapTyped
  <2>1. <<>> \in Seq(Bytes)
    BY EmptySeq
  <2>2. \A f \in Fds : taken[f] = 0 /\ sentTo[f] = 0 /\ 0 <= Len(Data[f])
    BY <1>1, <1>2
  <2>3. sentTo \in [Fds -> Nat] /\ taken \in [Fds -> Nat]
    BY <1>1
  <2>4. out \in [Fds -> Seq(Bytes)]
    BY <1>1, <2>1
  <2>5. \A f \in Fds : taken[f] <= sentTo[f] /\ sentTo[f] <= Len(Data[f])
    BY <2>2
  <2> QED BY <1>1, <2>1, <2>3, <2>4, <2>5 DEF WrapTyped
<1>4. TakenInOrder
  BY <1>1 DEF TakenInOrder, Ahead
<1>5. CallAlone /\ ShortAtEnd
  BY <1>1 DEF CallAlone, ShortAtEnd, W!NoResult
<1> QED BY <1>3, <1>4, <1>5 DEF WrapInv

\* n bytes from the kernel.
LEMMA BytesRead ==
  ASSUME WrapTyped, NEW f \in Fds, NEW n \in Nat
  PROVE  /\ W!Bytes(f, n) \in Seq(Bytes) /\ Len(W!Bytes(f, n)) = n
         /\ \A k \in 1..n : W!Bytes(f, n)[k] = <<f, taken[f] + k>>
<1>1. \A k \in 1..n : <<f, taken[f] + k>> \in Bytes
  BY DEF WrapTyped, Bytes
<1>2. W!Bytes(f, n) \in [1..n -> Bytes]
  BY <1>1 DEF W!Bytes
<1>3. W!Bytes(f, n) \in Seq(Bytes)
  BY <1>2, SeqDef
<1> QED BY <1>2, <1>3, LenProperties DEF W!Bytes

\* The end stays the end.
LEMMA EndStays ==
  ASSUME WrapTyped, WrapTyped', \A f \in Fds : sentTo'[f] >= sentTo[f],
         \A f \in Fds : taken'[f] >= taken[f], failedTo \subseteq failedTo',
         \A f \in failedTo : sentTo'[f] = sentTo[f],
         NEW f \in Fds, W!AtEnd(f)
  PROVE  W!AtEnd(f)'
<1>1. Len(Data[f]) \in Nat
  BY WrapData, LenProperties
<1> QED BY <1>1 DEF WrapTyped, W!AtEnd, W!Complete

\* Readline fails, or ends with what it has.
LEMMA FailedLine ==
  ASSUME WrapInv, call.op = "Readline", NEW n, W!Return(n, W!Stored),
         n \in {-1, W!Stored, call.size},
         UNCHANGED <<sentTo, failedTo, taken, buffer, out, mixed>>
  PROVE  WrapInv'
<1>1. /\ call' = W!Idle
      /\ result' = [op |-> call.op, fd |-> call.fd, size |-> call.size,
                    ret |-> n, stored |-> W!Stored]
  BY DEF W!Return
<1>2. WrapTyped'
  BY <1>1 DEF WrapInv, WrapTyped, W!Idle
<1>3. ShortAtEnd'
  BY <1>1 DEF ShortAtEnd
<1>4. ~mixed' => TakenInOrder' /\ CallAlone'
  BY <1>1 DEF WrapInv, TakenInOrder, CallAlone, Ahead, W!Idle
<1> QED BY <1>2, <1>3, <1>4 DEF WrapInv

\* No step of a sender or of a call breaks it.
LEMMA WrapStep == ASSUME WrapInv, StreamWrapRun PROVE WrapInv'
<1>0. /\ WrapTyped /\ ShortAtEnd
      /\ ~mixed => TakenInOrder /\ CallAlone
  BY DEF WrapInv
<1>d. \A f \in Fds : Len(Data[f]) \in Nat
  BY WrapData, LenProperties
<1>l. Len(buffer) \in Nat /\ \A f \in Fds : Len(out[f]) \in Nat
  BY <1>0, LenProperties DEF WrapTyped
<1>i. call # W!Idle <=> call.op \in {"Readn", "Readline"}
  BY <1>0 DEF WrapTyped, W!Idle
<1>1. CASE UNCHANGED wrapVars
  BY <1>0, <1>1 DEF wrapVars, WrapInv, WrapTyped, TakenInOrder, Ahead,
    CallAlone, ShortAtEnd, W!AtEnd, W!Complete
<1>2. ASSUME NEW f \in Fds, W!Writen(f) PROVE WrapInv'
  <2>1. UNCHANGED <<taken, buffer, call, result, out, mixed>>
    BY <1>2 DEF W!Writen
  <2>2. PICK n \in 0..(Len(Data[f]) - sentTo[f]) :
          sentTo' = [sentTo EXCEPT ![f] = @ + n]
    <3>1. CASE UNCHANGED sentTo
      <4>1. 0 \in 0..(Len(Data[f]) - sentTo[f])
        BY <1>0, <1>d DEF WrapTyped
      <4>2. sentTo' = [sentTo EXCEPT ![f] = @ + 0]
        BY <1>0, <3>1 DEF WrapTyped
      <4> QED BY <4>1, <4>2
    <3>2. ASSUME NEW n \in 1..(Len(Data[f]) - sentTo[f]),
                 sentTo' = [sentTo EXCEPT ![f] = @ + n]
          PROVE  \E m \in 0..(Len(Data[f]) - sentTo[f]) :
                   sentTo' = [sentTo EXCEPT ![f] = @ + m]
      <4>1. n \in 0..(Len(Data[f]) - sentTo[f])
        OBVIOUS
      <4> QED BY <3>2, <4>1
    <3> QED BY <1>2, <3>1, <3>2 DEF W!Writen
  <2>3. /\ failedTo \subseteq failedTo' /\ failedTo' \subseteq Fds
        /\ f \notin failedTo
    BY <1>0, <1>2 DEF W!Writen, WrapTyped
  <2>4. WrapTyped'
    <3>1. sentTo' \in [Fds -> Nat]
      BY <1>0, <1>d, <2>2 DEF WrapTyped
    <3>2. \A g \in Fds : taken[g] <= sentTo'[g] /\ sentTo'[g] <= Len(Data[g])
      BY <1>0, <1>d, <2>2 DEF WrapTyped
    <3> QED BY <1>0, <2>1, <2>3, <3>1, <3>2 DEF WrapTyped, W!Idle
  <2>5. \A g \in Fds : sentTo'[g] >= sentTo[g] /\ taken'[g] >= taken[g]
    BY <1>0, <1>d, <2>1, <2>2 DEF WrapTyped
  <2>6. \A g \in failedTo : sentTo'[g] = sentTo[g]
    BY <1>0, <2>2, <2>3 DEF WrapTyped
  <2>7. ShortAtEnd'
    BY <1>0, <2>1, <2>3, <2>4, <2>5, <2>6, EndStays DEF ShortAtEnd
  <2>8. TakenInOrder /\ CallAlone => TakenInOrder' /\ CallAlone'
    BY <2>1 DEF TakenInOrder, CallAlone, Ahead, W!Idle
  <2> QED BY <1>0, <2>1, <2>4, <2>7, <2>8 DEF WrapInv
<1>3. ASSUME NEW op \in {"Readn", "Readline"}, NEW f \in Fds, NEW n \in Sizes,
             W!Begin(op, f, n)
      PROVE  WrapInv'
  <2>1. /\ UNCHANGED <<sentTo, failedTo, taken, buffer, result, out>>
        /\ call' = [op |-> op, fd |-> f, size |-> n,
                    left |-> IF op = "Readn" THEN n ELSE n - 1]
        /\ mixed' = (mixed \/ (buffer # <<>>
                               /\ (op = "Readn") = (buffer[1][1] = f)))
    BY <1>3 DEF W!Begin
  <2>2. n \in Nat /\ n - 1 \in Nat /\ n - 1 <= n
    BY WrapData
  <2>3. WrapTyped'
    BY <1>0, <2>1, <2>2 DEF WrapTyped
  <2>4. ShortAtEnd'
    BY <1>0, <2>1 DEF ShortAtEnd, W!AtEnd, W!Complete
  <2>5. ~mixed' => ~mixed /\ TakenInOrder' /\ CallAlone'
    BY <1>0, <2>1 DEF TakenInOrder, CallAlone, Ahead
  <2> QED BY <2>3, <2>4, <2>5 DEF WrapInv
<1>4. CASE W!Readn
  <2>f. PICK f \in Fds : f = call.fd
    BY <1>0, <1>4, <1>i DEF W!Readn, WrapTyped
  <2>1. /\ call.op = "Readn" /\ call.fd = f /\ call # W!Idle
        /\ call.size \in Nat /\ call.left \in Nat /\ call.left <= call.size
        /\ UNCHANGED <<sentTo, failedTo, buffer, mixed>>
    BY <1>0, <1>4, <1>i, <2>f DEF W!Readn, WrapTyped
  <2>2. CASE \/ W!AtEnd(call.fd) /\ W!Return(W!Stored, W!Stored)
                /\ UNCHANGED <<taken, out>>
             \/ W!Return(-1, W!Stored) /\ UNCHANGED <<taken, out>>
    <3>1. /\ call' = W!Idle /\ UNCHANGED <<taken, out>>
          /\ \/ /\ W!AtEnd(f)
                /\ result' = [op |-> call.op, fd |-> f, size |-> call.size,
                              ret |-> W!Stored, stored |-> W!Stored]
             \/ result' = [op |-> call.op, fd |-> f, size |-> call.size,
                           ret |-> -1, stored |-> W!Stored]
      BY <2>1, <2>2 DEF W!Return
    <3>2. WrapTyped'
      BY <1>0, <2>1, <2>2, <3>1 DEF WrapTyped, W!Idle
    <3>3. ShortAtEnd'
      BY <2>1, <3>1 DEF ShortAtEnd, W!AtEnd, W!Complete
    <3>4. ~mixed' => TakenInOrder' /\ CallAlone'
      BY <1>0, <2>1, <2>2, <3>1 DEF TakenInOrder, CallAlone, Ahead, W!Idle
    <3> QED BY <3>2, <3>3, <3>4 DEF WrapInv
  <2>3. ASSUME NEW n \in 1..W!Waiting(f), n <= call.left,
               taken' = [taken EXCEPT ![f] = @ + n],
               out' = [out EXCEPT ![f] = @ \o W!Bytes(f, n)],
               IF call.left = n THEN W!Return(W!Stored + n, W!Stored + n)
               ELSE /\ call' = [call EXCEPT !.left = @ - n]
                    /\ UNCHANGED result
        PROVE  WrapInv'
    <3>1. n \in Nat \ {0} /\ taken[f] + n <= sentTo[f]
      BY <1>0, <2>1 DEF WrapTyped, W!Waiting
    <3>2. /\ W!Bytes(f, n) \in Seq(Bytes) /\ Len(W!Bytes(f, n)) = n
          /\ \A k \in 1..n : W!Bytes(f, n)[k] = <<f, taken[f] + k>>
      BY <1>0, <2>1, <3>1, BytesRead
    <3>3. /\ out[f] \in Seq(Bytes) /\ out'[f] = out[f] \o W!Bytes(f, n)
          /\ \A g \in Fds \ {f} : out'[g] = out[g] /\ taken'[g] = taken[g]
          /\ taken'[f] = taken[f] + n
      BY <1>0, <2>1, <2>3 DEF WrapTyped
    <3>4. /\ out'[f] \in Seq(Bytes) /\ Len(out'[f]) = Len(out[f]) + n
          /\ \A k \in 1..Len(out[f]) : out'[f][k] = out[f][k]
          /\ \A k \in 1..Len(out[f]) + n : k > Len(out[f]) =>
               out'[f][k] = W!Bytes(f, n)[k - Len(out[f])]
      <4> DEFINE more == W!Bytes(f, n)
      <4>1. more \in Seq(Bytes) /\ Len(more) = n
        BY <3>2
      <4> HIDE DEF more
      <4>2. out[f] \o more \in Seq(Bytes)
        BY <3>3, <4>1, ConcatProperties
      <4>3. Len(out[f] \o more) = Len(out[f]) + n
        BY <3>3, <4>1, ConcatProperties
      <4>4. \A k \in 1..Len(out[f]) + n : (out[f] \o more)[k] =
                IF k <= Len(out[f]) THEN out[f][k] ELSE more[k - Len(out[f])]
        BY <3>3, <4>1, ConcatProperties
      <4>5. \A k \in 1..Len(out[f]) :
              k \in 1..Len(out[f]) + n /\ k <= Len(out[f])
        BY <1>l, <3>1
      <4>6. \A k \in 1..Len(out[f]) + n :
              k > Len(out[f]) => ~(k <= Len(out[f]))
        BY <1>l, <3>1
      <4>7. out'[f] = out[f] \o more
        BY <3>3 DEF more
      <4> QED BY <4>2, <4>3, <4>4, <4>5, <4>6, <4>7 DEF more
    <3>5. \/ call' = W!Idle
          \/ /\ call' \in [op : {"Readn", "Readline"}, fd : Fds, size : Nat,
                           left : Nat]
             /\ call'.left <= call'.size
             /\ call'.op = "Readn" /\ call'.fd = f
      <4>1. CASE call.left = n
        BY <2>3, <4>1 DEF W!Return
      <4>2. CASE call.left # n
        <5>1. call' = [call EXCEPT !.left = @ - n]
          BY <2>3, <4>2
        <5>2. call.left - n \in Nat /\ call.left - n <= call.size
          BY <2>1, <2>3, <3>1
        <5>3. call \in [op : {"Readn", "Readline"}, fd : Fds, size : Nat,
                        left : Nat]
          BY <1>0, <2>1 DEF WrapTyped
        <5> QED BY <2>1, <5>1, <5>2, <5>3
      <4> QED BY <4>1, <4>2
    <3>6. WrapTyped'
      <4>1. out' \in [Fds -> Seq(Bytes)]
        BY <1>0, <2>1, <2>3, <3>3, <3>4 DEF WrapTyped
      <4>2. taken' \in [Fds -> Nat]
        BY <1>0, <2>1, <2>3, <3>1 DEF WrapTyped
      <4>3. \A g \in Fds : taken'[g] <= sentTo'[g]
                             /\ sentTo'[g] <= Len(Data[g])
        <5> TAKE g \in Fds
        <5>1. /\ taken[g] <= sentTo[g] /\ sentTo[g] <= Len(Data[g])
              /\ sentTo' = sentTo
          BY <1>0, <2>1 DEF WrapTyped
        <5>2. CASE g = f
          BY <3>1, <3>3, <5>1, <5>2
        <5>3. CASE g # f
          BY <3>3, <5>1, <5>3
        <5> QED BY <5>2, <5>3
      <4> QED BY <1>0, <2>1, <3>5, <4>1, <4>2, <4>3 DEF WrapTyped
    <3>7. ShortAtEnd'
      <4>1. \A g \in Fds : sentTo'[g] >= sentTo[g] /\ taken'[g] >= taken[g]
        <5> TAKE g \in Fds
        <5>1. sentTo'[g] \in Int /\ taken[g] \in Int /\ sentTo' = sentTo
          BY <1>0, <2>1 DEF WrapTyped
        <5>2. CASE g = f
          BY <3>1, <3>3, <5>1, <5>2
        <5>3. CASE g # f
          BY <3>3, <5>1, <5>3
        <5> QED BY <5>2, <5>3
      <4>2. CASE call.left = n
        <5>1. W!Stored + n = call.size
          BY <2>1, <3>1, <4>2 DEF W!Stored
        <5>2. result' = [op |-> call.op, fd |-> f, size |-> call.size,
                         ret |-> W!Stored + n, stored |-> W!Stored + n]
          BY <2>1, <2>3, <4>2 DEF W!Return
        <5>3. result'.ret = result'.size /\ result'.ret = result'.stored
          BY <5>1, <5>2
        <5>4. result'.ret \in Nat
          BY <2>1, <5>1, <5>2
        <5>5. result'.ret \notin 0..result'.size - 1
          BY <5>3, <5>4
        <5> QED BY <5>3, <5>5 DEF ShortAtEnd
      <4>3. CASE call.left # n
        BY <1>0, <2>1, <2>3, <3>6, <4>1, <4>3, EndStays DEF ShortAtEnd
      <4> QED BY <4>2, <4>3
    <3>8. ASSUME ~mixed PROVE TakenInOrder' /\ CallAlone'
      <4>1. TakenInOrder /\ ~Ahead(f)
        BY <1>0, <2>1, <3>8 DEF CallAlone, Ahead
      <4>2. \A g \in Fds : Ahead(g)' <=> Ahead(g)
        BY <2>1 DEF Ahead
      <4>3. taken[f] = Len(out[f])
        BY <4>1 DEF TakenInOrder
      <4>4. \A k \in 1..Len(out'[f]) : out'[f][k] = <<f, k>>
        <5> TAKE k \in 1..Len(out'[f])
        <5>1. CASE k <= Len(out[f])
          <6>1. k \in 1..Len(out[f])
            BY <1>l, <5>1, <3>4
          <6> QED BY <3>4, <4>1, <6>1 DEF TakenInOrder
        <5>2. CASE k > Len(out[f])
          <6>1. k - Len(out[f]) \in 1..n
            BY <1>l, <2>1, <3>1, <3>4, <5>2
          <6>2. out'[f][k] = <<f, taken[f] + (k - Len(out[f]))>>
            BY <1>l, <2>1, <3>1, <3>2, <3>4, <5>2, <6>1
          <6>3. taken[f] + (k - Len(out[f])) = k
            BY <1>l, <2>1, <4>3, <6>1
          <6> QED BY <6>2, <6>3
        <5> QED BY <1>l, <2>1, <3>1, <3>4, <5>1, <5>2
      <4>5. TakenInOrder'
        <5>1. \A g \in Fds : \A k \in 1..Len(out'[g]) : out'[g][k] = <<g, k>>
          <6>1. \A g \in Fds \ {f} : out'[g] = out[g]
            BY <3>3
          <6>2. \A g \in Fds : \A k \in 1..Len(out[g]) : out[g][k] = <<g, k>>
            BY <4>1 DEF TakenInOrder
          <6> QED BY <4>4, <6>1, <6>2
        <5>2. taken'[f] = Len(out'[f])
          BY <3>3, <3>4, <4>3
        <5>3. \A g \in Fds : ~Ahead(g)' => taken'[g] = Len(out'[g])
          BY <3>3, <4>1, <4>2, <5>2 DEF TakenInOrder
        <5>4. \A g \in Fds : Ahead(g)' => g # f
          BY <4>1, <4>2
        <5>5. \A g \in Fds : Ahead(g)' =>
                taken'[g] = Len(out'[g]) + Len(buffer')
          <6> TAKE g \in Fds
          <6> HAVE Ahead(g)'
          <6>1. g # f /\ Ahead(g)
            BY <4>2, <5>4
          <6>2. taken[g] = Len(out[g]) + Len(buffer)
            BY <4>1, <6>1 DEF TakenInOrder
          <6> QED BY <2>1, <3>3, <6>1, <6>2
        <5>6. \A g \in Fds : Ahead(g)' =>
                \A k \in 1..Len(buffer') : buffer'[k] = <<g, Len(out'[g]) + k>>
          <6> TAKE g \in Fds
          <6> HAVE Ahead(g)'
          <6>1. g # f /\ Ahead(g)
            BY <4>2, <5>4
          <6>2. \A k \in 1..Len(buffer) : buffer[k] = <<g, Len(out[g]) + k>>
            BY <4>1, <6>1 DEF TakenInOrder
          <6> QED BY <2>1, <3>3, <6>1, <6>2
        <5> QED BY <5>1, <5>3, <5>5, <5>6 DEF TakenInOrder
      <4>6. CallAlone'
        BY <2>1, <3>5, <4>1, <4>2 DEF CallAlone, Ahead, W!Idle
      <4> QED BY <4>5, <4>6
    <3> QED BY <2>1, <3>6, <3>7, <3>8 DEF WrapInv
  <2> QED BY <1>4, <2>1, <2>2, <2>3 DEF W!Readn
<1>5. CASE W!Refill
  <2>f. PICK f \in Fds : f = call.fd
    BY <1>0, <1>5, <1>i DEF W!Refill, W!InReadline, WrapTyped
  <2> DEFINE n == IF W!Waiting(f) < ReadBuf THEN W!Waiting(f) ELSE ReadBuf
  <2>1. /\ call.op = "Readline" /\ call.fd = f /\ call # W!Idle
        /\ buffer = <<>>
        /\ \/ /\ W!Waiting(f) > 0 /\ UNCHANGED <<call, result>>
              /\ buffer' = W!Bytes(f, n) /\ taken' = [taken EXCEPT ![f] = @ + n]
           \/ UNCHANGED <<buffer, taken>> /\ W!Return(-1, W!Stored)
        /\ UNCHANGED <<sentTo, failedTo, out, mixed>>
    BY <1>0, <1>5, <1>i, <2>f
    DEF W!Refill, W!InReadline, W!Refills, WrapTyped
  <2>9. CASE UNCHANGED <<buffer, taken>> /\ W!Return(-1, W!Stored)
    BY <1>0, <2>1, <2>9, FailedLine
  <2> SUFFICES ASSUME /\ W!Waiting(f) > 0 /\ UNCHANGED <<call, result>>
                      /\ buffer' = W!Bytes(f, n)
                      /\ taken' = [taken EXCEPT ![f] = @ + n]
               PROVE  WrapInv'
    BY <2>1, <2>9
  <2>2. ReadBuf \in Nat \ {0}
    BY ProgramsAssumption DEF W!StreamWrapAssumption
  <2>3. n \in Nat \ {0} /\ taken[f] + n <= sentTo[f]
    BY <1>0, <2>1, <2>2 DEF WrapTyped, W!Waiting
  <2> HIDE DEF n
  <2>4. /\ buffer' \in Seq(Bytes) /\ Len(buffer') = n
        /\ \A k \in 1..n : buffer'[k] = <<f, taken[f] + k>>
    BY <1>0, <2>1, <2>3, BytesRead
  <2>5. /\ taken' \in [Fds -> Nat] /\ taken'[f] = taken[f] + n
        /\ \A g \in Fds \ {f} : taken'[g] = taken[g]
    BY <1>0, <2>1, <2>3 DEF WrapTyped
  <2>6. WrapTyped'
    <3>1. \A g \in Fds : taken'[g] <= sentTo'[g] /\ sentTo'[g] <= Len(Data[g])
      BY <1>0, <2>1, <2>3, <2>5 DEF WrapTyped
    <3> QED BY <1>0, <2>1, <2>4, <2>5, <3>1 DEF WrapTyped, W!Idle
  <2>7. ShortAtEnd'
    <3>1. \A g \in Fds : sentTo'[g] >= sentTo[g] /\ taken'[g] >= taken[g]
      BY <1>0, <2>1, <2>3, <2>5 DEF WrapTyped
    <3> QED BY <1>0, <2>1, <2>6, <3>1, EndStays DEF ShortAtEnd
  <2>8. ASSUME ~mixed PROVE TakenInOrder' /\ CallAlone'
    <3>1. TakenInOrder /\ \A g \in Fds : ~Ahead(g)
      BY <1>0, <2>1, <2>8 DEF Ahead
    <3>2. \A g \in Fds : taken[g] = Len(out[g])
      BY <3>1 DEF TakenInOrder
    <3>3. buffer' # <<>> /\ buffer'[1] = <<f, taken[f] + 1>>
      BY <2>3, <2>4
    <3>4. \A g \in Fds : Ahead(g)' <=> g = f
      BY <3>3 DEF Ahead
    <3>5. TakenInOrder'
      <4>1. \A g \in Fds : \A k \in 1..Len(out'[g]) : out'[g][k] = <<g, k>>
        BY <2>1, <3>1 DEF TakenInOrder
      <4>2. taken'[f] = Len(out'[f]) + Len(buffer')
        BY <2>1, <2>4, <2>5, <3>2
      <4>3. \A g \in Fds \ {f} : taken'[g] = Len(out'[g])
        BY <2>1, <2>5, <3>2
      <4>4. \A k \in 1..Len(buffer') : buffer'[k] = <<f, Len(out'[f]) + k>>
        BY <2>1, <2>4, <3>2
      <4> QED BY <3>4, <4>1, <4>2, <4>3, <4>4 DEF TakenInOrder
    <3>6. CallAlone'
      BY <2>1, <3>4 DEF CallAlone
    <3> QED BY <3>5, <3>6
  <2> QED BY <2>1, <2>6, <2>7, <2>8 DEF WrapInv
<1>6. CASE W!NextByte
  <2>f. PICK f \in Fds : f = call.fd
    BY <1>0, <1>6, <1>i DEF W!NextByte, W!InReadline, WrapTyped
  <2>b. PICK byte : byte = Head(buffer)
    OBVIOUS
  <2>1. /\ call.op = "Readline" /\ call.fd = f /\ call # W!Idle
        /\ call.size \in Nat /\ call.left \in Nat /\ call.left <= call.size
        /\ call.left > 0 /\ buffer # <<>>
        /\ buffer' = Tail(buffer)
        /\ out' = [out EXCEPT ![f] = Append(@, byte)]
        /\ UNCHANGED <<sentTo, failedTo, taken, mixed>>
    BY <1>0, <1>6, <1>i, <2>f, <2>b DEF W!NextByte, W!InReadline, WrapTyped
  <2>2. /\ byte \in Bytes /\ buffer' \in Seq(Bytes)
        /\ Len(buffer') = Len(buffer) - 1
        /\ \A k \in 1..Len(buffer') : buffer'[k] = buffer[k + 1]
        /\ byte = buffer[1]
    BY <1>0, <2>1, <2>b, HeadTailProperties DEF WrapTyped
  <2>3. /\ out[f] \in Seq(Bytes) /\ out'[f] = Append(out[f], byte)
        /\ \A g \in Fds \ {f} : out'[g] = out[g]
    BY <1>0, <2>1 DEF WrapTyped
  <2>4. /\ out'[f] \in Seq(Bytes) /\ Len(out'[f]) = Len(out[f]) + 1
        /\ \A k \in 1..Len(out[f]) : out'[f][k] = out[f][k]
        /\ out'[f][Len(out[f]) + 1] = byte
    BY <2>2, <2>3, AppendProperties
  <2>5. \/ /\ call' = W!Idle
           /\ result' = [op |-> call.op, fd |-> f, size |-> call.size,
                         ret |-> W!Stored + 1, stored |-> W!Stored + 1]
        \/ call' = [call EXCEPT !.left = @ - 1] /\ UNCHANGED result
    BY <1>6, <2>1, <2>b DEF W!NextByte, W!Return
  <2>6. \/ call' = W!Idle
        \/ /\ call' \in [op : {"Readn", "Readline"}, fd : Fds, size : Nat,
                         left : Nat]
           /\ call'.left <= call'.size
           /\ call'.op = "Readline" /\ call'.fd = f
    BY <1>0, <2>1, <2>5 DEF WrapTyped
  <2>7. WrapTyped'
    <3>1. out' \in [Fds -> Seq(Bytes)]
      BY <1>0, <2>1, <2>3, <2>4 DEF WrapTyped
    <3> QED BY <1>0, <2>1, <2>2, <2>6, <3>1 DEF WrapTyped
  <2>8. ShortAtEnd'
    BY <1>0, <2>1, <2>5 DEF ShortAtEnd, W!AtEnd, W!Complete
  <2>9. ASSUME ~mixed PROVE TakenInOrder' /\ CallAlone'
    <3>1. TakenInOrder /\ Ahead(f)
      BY <1>0, <2>1, <2>9 DEF CallAlone
    <3>2. \A g \in Fds : Ahead(g) <=> g = f
      BY <3>1 DEF Ahead
    <3>3. byte = <<f, Len(out[f]) + 1>>
      <4>1. 1 \in 1..Len(buffer)
        BY <1>l, <2>2, LenProperties, <1>0, <2>1
      <4> QED BY <2>1, <2>2, <3>1, <4>1 DEF TakenInOrder
    <3>4. \A k \in 1..Len(buffer') : buffer'[k] = <<f, Len(out[f]) + 1 + k>>
      <4> TAKE k \in 1..Len(buffer')
      <4>1. k + 1 \in 1..Len(buffer)
        BY <1>l, <2>2
      <4>2. buffer[k + 1] = <<f, Len(out[f]) + (k + 1)>>
        BY <2>1, <3>1, <4>1 DEF TakenInOrder
      <4>3. Len(out[f]) + (k + 1) = Len(out[f]) + 1 + k
        <5>1. Len(out[f]) \in Int /\ k \in Int
          BY <1>l
        <5>2. \A a, b \in Int : a + (b + 1) = a + 1 + b
          OBVIOUS
        <5> QED BY <5>1, <5>2
      <4> QED BY <2>2, <4>2, <4>3
    <3>5. Len(buffer') \in Nat /\ (buffer' = <<>> <=> Len(buffer') = 0)
      BY <2>2, LenProperties, EmptySeq
    <3>6. \A g \in Fds : Ahead(g)' => g = f
      <4>1. buffer' # <<>> => 1 \in 1..Len(buffer')
        BY <3>5
      <4> QED BY <3>4, <4>1 DEF Ahead
    <3>7. Ahead(f)' <=> Len(buffer') # 0
      <4>1. Len(buffer') # 0 => 1 \in 1..Len(buffer')
        BY <3>5
      <4> QED BY <3>4, <3>5, <4>1 DEF Ahead
    <3>8. \A g \in Fds : \A k \in 1..Len(out'[g]) : out'[g][k] = <<g, k>>
      <4>1. \A k \in 1..Len(out'[f]) : k \in 1..Len(out[f])
                                         \/ k = Len(out[f]) + 1
        BY <1>l, <2>1, <2>4
      <4> QED BY <2>1, <2>3, <2>4, <3>1, <3>3, <4>1 DEF TakenInOrder
    <3>9. /\ taken'[f] = Len(out'[f]) + Len(buffer')
          /\ \A g \in Fds \ {f} : taken'[g] = Len(out'[g])
      <4>1. taken[f] = Len(out[f]) + Len(buffer)
        BY <3>1 DEF TakenInOrder
      <4>2. taken'[f] = Len(out'[f]) + Len(buffer')
        BY <1>l, <2>1, <2>2, <2>4, <4>1
      <4>3. \A g \in Fds \ {f} : taken[g] = Len(out[g])
        BY <3>1, <3>2 DEF TakenInOrder
      <4> QED BY <2>1, <2>3, <4>2, <4>3
    <3>10. TakenInOrder'
      <4>1. ~Ahead(f)' => taken'[f] = Len(out'[f])
        BY <1>l, <2>4, <3>5, <3>7, <3>9
      <4>2. \A g \in Fds : ~Ahead(g)' => taken'[g] = Len(out'[g])
        BY <3>9, <4>1
      <4>3. \A g \in Fds : Ahead(g)' => taken'[g] = Len(out'[g]) + Len(buffer')
        BY <3>6, <3>9
      <4>4. \A g \in Fds : Ahead(g)' => \A k \in 1..Len(buffer') :
                                          buffer'[k] = <<g, Len(out'[g]) + k>>
        BY <2>4, <3>4, <3>6
      <4> QED BY <3>8, <4>2, <4>3, <4>4 DEF TakenInOrder
    <3>11. CallAlone'
      BY <2>6, <3>5, <3>7 DEF CallAlone, W!Idle
    <3> QED BY <3>10, <3>11
  <2> QED BY <2>1, <2>7, <2>8, <2>9 DEF WrapInv
<1>7. CASE W!ReadlineFull \/ W!ReadlineEnd
  BY <1>7, FailedLine DEF W!ReadlineFull, W!ReadlineEnd, W!InReadline
<1> QED BY <1>1, <1>2, <1>3, <1>4, <1>5, <1>6, <1>7 DEF StreamWrapRun, W!Next

\* Readn and Readline give what is sent on a descriptor in order, nothing twice
\* and nothing lost, while no call begins beside bytes of another use.
THEOREM StreamRead == Spec => []StreamInOrder
<1>1. Init => WrapInv
  BY WrapInit
<1>2. WrapInv /\ [Next]_vars => WrapInv'
  BY StreamWrapSteps, WrapStep
<1>3. WrapInv => StreamInOrder
  <2> SUFFICES ASSUME WrapInv PROVE W!StreamInOrder
    BY DEF StreamInOrder
  <2>1. \A f \in Fds : DOMAIN out[f] = 1..Len(out[f])
    BY LenProperties DEF WrapInv, WrapTyped
  <2> QED BY <2>1 DEF WrapInv, TakenInOrder, ShortAtEnd, W!StreamInOrder
<1> QED BY <1>1, <1>2, <1>3, PTL DEF Spec

-----------------------------------------------------------------------------
(* The bufferevents of ev_server.c and ev_client.c *)

BevRun == B!Next \/ UNCHANGED bevVars

\* A step of the composition is a step of Bufferevents or leaves its variables
\* alone.
LEMMA BevSteps == ASSUME [Next]_vars PROVE BevRun
BY DEF BevRun, Next, vars, InTableServers, InForkServers, InProducers,
  InLocks, InChildren, InStreams, InStreamWrap, InLibevent, InDatagrams,
  InListing, InBufferevents

\* The lines of a client that are under way or answered.
Under(c) == toServer[c] + bevPending[c] + toClient[c] + shown[c]

BevTyped ==
  /\ user \in [BevClients -> {"start", "up", "freed", "gone", "undefined"}]
  /\ served \in [BevClients -> {"none", "queued", "open", "freed"}]
  /\ keys \in [BevClients -> Nat] /\ toServer \in [BevClients -> Nat]
  /\ bevPending \in [BevClients -> Nat] /\ toClient \in [BevClients -> Nat]
  /\ shown \in [BevClients -> Nat]
  /\ broken \subseteq BevClients /\ alive \in BOOLEAN

\* The server frees the bufferevent of a client that has left, and a client its
\* own when the server has ended.
FreedAfter ==
  \A c \in BevClients :
    /\ served[c] # "none" => user[c] # "start"
    /\ served[c] = "freed" => user[c] = "gone"
    /\ user[c] \in {"freed", "undefined"} => ~alive

\* A client that left and was written to has lost a line of those it typed.
LineLost ==
  /\ \A c \in BevClients : Under(c) <= keys[c]
  /\ \A c \in broken : user[c] = "gone" /\ Under(c) < keys[c]
  /\ ~alive => \E c \in broken : keys[c] > 1

BevInv == BevTyped /\ FreedAfter /\ LineLost

\* Nobody has typed anything.
LEMMA BevInit == ASSUME Init PROVE BevInv
BY DEF Init, B!Init, BevInv, BevTyped, FreedAfter, LineLost, Under

\* No step of a client or of the server breaks it.
LEMMA BevStep == ASSUME BevInv, BevRun PROVE BevInv'
<1> USE DEF BevInv, BevTyped, FreedAfter, LineLost, Under, B!Becomes, B!lines
<1>1. CASE UNCHANGED bevVars
  BY <1>1 DEF bevVars
<1>2. ASSUME NEW c \in BevClients, B!Connect(c) PROVE BevInv'
  BY <1>2 DEF B!Connect
<1>3. ASSUME NEW c \in BevClients, B!read_terminal(c) PROVE BevInv'
  BY <1>3 DEF B!read_terminal
<1>4. ASSUME NEW c \in BevClients, B!read_cb(c) PROVE BevInv'
  BY <1>4 DEF B!read_cb
<1>5. ASSUME NEW c \in BevClients, B!ClientEvent(c) PROVE BevInv'
  BY <1>5 DEF B!ClientEvent
<1>6. ASSUME NEW c \in BevClients, B!Interrupt(c) PROVE BevInv'
  BY <1>6 DEF B!Interrupt
<1>7. ASSUME NEW c \in BevClients, B!listener_cb(c) PROVE BevInv'
  BY <1>7 DEF B!listener_cb
<1>8. ASSUME NEW c \in BevClients, B!ServerRead(c) PROVE BevInv'
  BY <1>8 DEF B!ServerRead
<1>9. ASSUME NEW c \in BevClients, B!Output(c) PROVE BevInv'
  <2>1. /\ alive /\ served[c] = "open" /\ bevPending[c] > 0
        /\ bevPending' = [bevPending EXCEPT ![c] = 0]
        /\ UNCHANGED <<user, keys, toServer, shown, reset>>
    BY <1>9 DEF B!Output
  <2>2. CASE user[c] = "up"
    <3>1. /\ toClient' = [toClient EXCEPT ![c] = @ + bevPending[c]]
          /\ UNCHANGED <<served, broken, alive>>
      BY <1>9, <2>2 DEF B!Output
    <3> QED BY <2>1, <2>2, <3>1
  <2>3. CASE user[c] # "up"
    <3>1. user[c] = "gone" /\ toClient' = toClient
      BY <1>9, <2>1, <2>3 DEF B!Output
    <3>2. \A d \in BevClients : Under(d)' <= Under(d)
      BY <2>1, <3>1
    <3>3. Under(c)' < Under(c)
      BY <2>1, <3>1
    <3>4. \A d \in BevClients : Under(d) \in Nat /\ Under(d)' \in Nat
      BY <2>1, <3>1
    <3>5. BevTyped' /\ FreedAfter'
      <4>1. /\ served' = served \/ served' = [served EXCEPT ![c] = "freed"]
            /\ broken' \subseteq BevClients /\ alive' \in BOOLEAN
        BY <1>9, <2>3 DEF B!Output
      <4>2. \A d \in BevClients : served'[d] = served[d]
              \/ (d = c /\ served'[d] = "freed")
        BY <4>1
      <4>3. FreedAfter'
        BY <2>1, <3>1, <4>2
      <4> QED BY <2>1, <3>1, <4>1, <4>3
    <3>6. /\ \A d \in BevClients : Under(d)' <= keys'[d]
          /\ Under(c)' < keys'[c]
          /\ \A d \in broken : Under(d)' < keys'[d]
      BY <2>1, <3>2, <3>3, <3>4
    <3>7. broken' \subseteq broken \union {c}
      BY <1>9, <2>3 DEF B!Output
    <3>8. ~alive' => \E d \in broken' : keys'[d] > 1
      <4>1. CASE c \in broken
        <5>1. Under(c) >= 1 /\ Under(c) < keys[c]
          BY <2>1, <4>1
        <5>2. keys[c] > 1
          BY <5>1, <3>4
        <5>3. broken' = broken
          BY <1>9, <2>3, <4>1 DEF B!Output
        <5> QED BY <2>1, <4>1, <5>2, <5>3
      <4>2. CASE c \notin broken
        <5>1. alive' = alive
          BY <1>9, <2>3, <4>2 DEF B!Output
        <5> QED BY <2>1, <5>1
      <4> QED BY <4>1, <4>2
    <3>9. \A d \in broken' : user'[d] = "gone"
      BY <2>1, <3>1, <3>7
    <3> QED BY <2>1, <3>5, <3>6, <3>7, <3>8, <3>9
  <2> QED BY <2>2, <2>3
<1>10. ASSUME NEW c \in BevClients, B!ServerEvent(c) PROVE BevInv'
  BY <1>10 DEF B!ServerEvent
<1> QED BY <1>1, <1>2, <1>3, <1>4, <1>5, <1>6, <1>7, <1>8, <1>9, <1>10
    DEF BevRun, B!Next, B!Server, B!Dispatch

-----------------------------------------------------------------------------
(* The HTTP server on libevent *)

HttpRun == H!Next \/ UNCHANGED httpVars

\* A step of the composition is a step of LibeventHttp or leaves its variables
\* alone.
LEMMA HttpSteps == ASSUME [Next]_vars PROVE HttpRun
BY DEF HttpRun, Next, vars, InTableServers, InForkServers, InProducers,
  InLocks, InChildren, InStreams, InStreamWrap, InLibevent, InDatagrams,
  InListing, InBufferevents

\* The constants of LibeventHttp.
LEMMA HttpGiven ==
  /\ {H!Root, H!Nothing} \intersect Nodes = {} /\ H!Root # H!Nothing
  /\ Browsers \intersect Hasty = {}
  /\ Browsers \subseteq H!HttpClients /\ Hasty \subseteq H!HttpClients
  /\ \A c \in H!HttpClients : c \in Browsers \/ c \in Hasty
BY ProgramsAssumption DEF H!LibeventAssumption, H!Root, H!Nothing,
  H!HttpClients

HttpTyped ==
  /\ DOMAIN arrived = H!HttpClients /\ DOMAIN output = H!HttpClients
  /\ DOMAIN got = Browsers /\ asked \in [H!HttpClients -> Nat]
  /\ DOMAIN httpPeer = H!HttpClients /\ present \subseteq Nodes

\* What a callback knows of its file holds until somebody changes it.
Bytes1(n) == IF n \in Nodes /\ ~H!IsDir(n) THEN size[n] ELSE -1
KnownFile ==
  cb # H!Idle =>
    /\ cb.who \in H!HttpClients
    /\ ~raced => /\ cb.node \in present \union {H!Root, H!Nothing}
                 /\ cb.size = Bytes1(cb.node)

\* The answer to a browser is a header with the body that belongs to it, and a
\* browser asks nothing before it has both.
Fits(h, b) == /\ h.what = "header" /\ b.what = "body"
              /\ b.node = h.node /\ (b.size = h.size \/ b.raced)
InCall(c) == cb # H!Idle /\ cb.who = c
OneAnswerOf(c) ==
  \/ got[c] = <<>> /\ output[c] = <<>>
  \/ \E h, b : /\ Fits(h, b)
               /\ \/ got[c] = <<>> /\ output[c] = <<h, b>>
                  \/ got[c] = <<h>> /\ output[c] = <<b>>
                  \/ got[c] = <<h, b>> /\ output[c] = <<>>
HeaderOut(c) ==
  \E h : /\ output[c] = <<h>> /\ h.what = "header"
         /\ h.node = cb.node /\ h.size = cb.size
BrowserInv(c) ==
  /\ httpPeer[c] = "up"
  /\ InCall(c) => got[c] = <<>> /\ arrived[c] = <<>> /\ HeaderOut(c)
  /\ ~InCall(c) => OneAnswerOf(c)
  /\ arrived[c] # <<>> => got[c] = <<>> /\ output[c] = <<>>
  /\ asked[c] = 0 => arrived[c] = <<>> /\ output[c] = <<>> /\ got[c] = <<>>

CrashCause ==
  down = "crashed" => raced \/ (cb.node = H!Nothing /\ ~ErrorPage)

HttpInv == /\ HttpTyped /\ KnownFile /\ CrashCause
           /\ \A c \in Browsers : BrowserInv(c)

\* Nobody has asked anything.
LEMMA HttpInit == ASSUME Init PROVE HttpInv
BY HttpGiven DEF Init, H!Init, HttpInv, HttpTyped, KnownFile, CrashCause,
  BrowserInv, InCall, OneAnswerOf

\* What a browser sees of a step that leaves its connection and the callback
\* alone.
LEMMA BrowserStays ==
  ASSUME NEW c \in Browsers, BrowserInv(c), UNCHANGED cb,
         httpPeer'[c] = httpPeer[c], arrived'[c] = arrived[c],
         output'[c] = output[c], got'[c] = got[c], asked'[c] = asked[c]
  PROVE  BrowserInv(c)'
BY DEF BrowserInv, InCall, OneAnswerOf, HeaderOut

\* A sequence of two is made of one and another.
LEMMA PairAppended == ASSUME NEW h, NEW b PROVE Append(<<h>>, b) = <<h, b>>
<1>1. <<h>> \in Seq({h, b}) /\ <<h, b>> \in Seq({h, b}) /\ b \in {h, b}
  OBVIOUS
<1>2. Len(<<h>>) = 1 /\ Len(<<h, b>>) = 2
  OBVIOUS
<1>3. /\ Append(<<h>>, b) \in Seq({h, b}) /\ Len(Append(<<h>>, b)) = 2
      /\ Append(<<h>>, b)[1] = h /\ Append(<<h>>, b)[2] = b
  <2>1. Append(<<h>>, b) \in Seq({h, b})
    BY <1>1, AppendProperties
  <2>2. Len(Append(<<h>>, b)) = 1 + 1
    BY <1>1, <1>2, AppendProperties
  <2>3. \A k \in 1..1 : Append(<<h>>, b)[k] = <<h>>[k]
    BY <1>1, <1>2, AppendProperties
  <2>4. Append(<<h>>, b)[1 + 1] = b
    BY <1>1, <1>2, AppendProperties
  <2> QED BY <2>1, <2>2, <2>3, <2>4
<1>4. \A k \in 1..2 : Append(<<h>>, b)[k] = <<h, b>>[k]
  BY <1>3
<1> QED BY <1>1, <1>2, <1>3, <1>4, SeqEqual

\* A step of one client's connection.
LEMMA HttpStepOf ==
  ASSUME HttpInv, NEW c \in H!HttpClients,
         \/ H!Connect(c) \/ H!Send(c) \/ H!Leave(c)
         \/ c \in Browsers /\ (H!Type(c) \/ H!Follow(c) \/ H!FollowDots(c))
         \/ H!OneClient(c)
  PROVE  HttpInv'
<1> USE HttpGiven
<1>0. /\ HttpTyped /\ KnownFile /\ CrashCause
      /\ \A d \in Browsers : BrowserInv(d)
  BY DEF HttpInv
\* Of the files and of a callback there is nothing to say when neither changes.
<1>k. ASSUME UNCHANGED <<cb, raced, present, size>> PROVE KnownFile'
  BY <1>0, <1>k DEF KnownFile, Bytes1, H!IsDir
<1>o. ASSUME UNCHANGED <<cb, arrived, output, got, asked, httpPeer>>
      PROVE  \A d \in Browsers : BrowserInv(d)'
  BY <1>0, <1>o, BrowserStays
<1>1. CASE H!Connect(c) \/ H!listener_cb(c)
  <2>1. UNCHANGED <<arrived, output, got, cb, raced, asked, httpPeer, present,
                    size, down>>
    BY <1>1 DEF H!Connect, H!listener_cb, H!AtServer, H!AtClients,
      H!clientVars, H!fileVars
  <2> QED BY <1>0, <1>k, <1>o, <2>1 DEF HttpInv, HttpTyped, CrashCause
<1>2. CASE H!Send(c) \/ H!Leave(c)
  <2>1. /\ c \in Hasty /\ DOMAIN arrived' = DOMAIN arrived
        /\ DOMAIN httpPeer' = DOMAIN httpPeer
        /\ asked' \in [H!HttpClients -> Nat]
        /\ \A d \in Browsers : /\ arrived'[d] = arrived[d]
                               /\ asked'[d] = asked[d]
                               /\ httpPeer'[d] = httpPeer[d]
        /\ UNCHANGED <<output, got, cb, raced, present, size, down>>
    BY <1>0, <1>2 DEF H!Send, H!Leave, H!AtServer, H!fileVars, HttpTyped
  <2>2. \A d \in Browsers : BrowserInv(d)'
    BY <1>0, <2>1, BrowserStays
  <2> QED BY <1>0, <1>k, <2>1, <2>2 DEF HttpInv, HttpTyped, CrashCause
<1>3. ASSUME c \in Browsers, H!Ready(c), NEW u, NEW n, NEW away,
             H!Ask(c, u, n, away)
      PROVE  HttpInv'
  <2>1. /\ arrived' = [arrived EXCEPT ![c] =
                         Append(@, [url |-> u, part |-> "all"])]
        /\ asked' = [asked EXCEPT ![c] = @ + 1]
        /\ got' = [got EXCEPT ![c] = <<>>]
        /\ UNCHANGED <<output, cb, raced, present, size, down, httpPeer>>
    BY <1>3 DEF H!Ask, H!AtServer, H!fileVars
  <2>2. output[c] = <<>> /\ ~InCall(c) /\ httpPeer[c] = "up"
    <3>1. CASE asked[c] = 0
      BY <1>0, <1>3, <3>1 DEF BrowserInv, HeaderOut
    <3>2. CASE H!Complete(c)
      BY <1>0, <1>3, <3>2 DEF BrowserInv, H!Complete, OneAnswerOf
    <3> QED BY <1>3, <3>1, <3>2 DEF H!Ready
  <2>3. HttpTyped' /\ asked'[c] # 0
    BY <1>0, <2>1 DEF HttpTyped
  <2>4. BrowserInv(c)'
    BY <1>0, <1>3, <2>1, <2>2, <2>3
    DEF HttpTyped, BrowserInv, InCall, OneAnswerOf
  <2>5. \A d \in Browsers \ {c} : BrowserInv(d)'
    BY <1>0, <2>1, BrowserStays DEF HttpTyped
  <2> QED BY <1>0, <1>k, <2>1, <2>3, <2>4, <2>5 DEF HttpInv, CrashCause
<1>4. CASE c \in Browsers /\ (H!Type(c) \/ H!Follow(c) \/ H!FollowDots(c))
  BY <1>3, <1>4 DEF H!Type, H!Follow, H!FollowDots
<1>5. CASE H!conn_readcb(c)
  <2>1. /\ cb = H!Idle /\ down = "no" /\ arrived[c] # <<>>
        /\ arrived' = [arrived EXCEPT ![c] = <<>>] /\ raced' = FALSE
        /\ UNCHANGED <<got, asked, httpPeer, present, size, down>>
    BY <1>5 DEF H!conn_readcb, H!Loop, H!AtClients, H!clientVars, H!fileVars
  <2>2. c \in Browsers => got[c] = <<>> /\ output[c] = <<>>
                            /\ httpPeer[c] = "up" /\ asked[c] # 0
    BY <1>0, <2>1 DEF BrowserInv
  <2>3. CASE UNCHANGED <<output, cb>>
    <3>1. KnownFile' /\ CrashCause' /\ HttpTyped'
      BY <1>0, <2>1, <2>3 DEF KnownFile, CrashCause, HttpTyped
    <3>2. \A d \in Browsers \ {c} : BrowserInv(d)'
      BY <1>0, <2>1, <2>3, BrowserStays DEF HttpTyped
    <3>3. c \in Browsers => BrowserInv(c)'
      BY <1>0, <2>1, <2>2, <2>3
      DEF HttpTyped, BrowserInv, InCall, OneAnswerOf
    <3> QED BY <3>1, <3>2, <3>3 DEF HttpInv
  <2>4. ASSUME NEW u, NEW n, n = H!Find(u),
               output' = [output EXCEPT ![c] =
                            Append(@, H!Header(n, Bytes1(n)))],
               cb' = [who |-> c, node |-> n, size |-> Bytes1(n),
                      slash |-> u.slash]
        PROVE  HttpInv'
    <3>1. n \in present \union {H!Root, H!Nothing}
      BY <2>4 DEF H!Find
    <3>2. cb' # H!Idle
      BY <2>4 DEF H!Idle, Bytes1
    <3>3. Bytes1(n)' = Bytes1(n)
      BY <2>1 DEF Bytes1, H!IsDir
    <3>4. HttpTyped' /\ KnownFile' /\ CrashCause'
      BY <1>0, <2>1, <2>4, <3>1, <3>2, <3>3
      DEF HttpTyped, KnownFile, CrashCause
    <3>5. ASSUME c \in Browsers PROVE BrowserInv(c)'
      <4>1. output'[c] = <<H!Header(n, Bytes1(n))>>
        BY <1>0, <2>2, <2>4, <3>5 DEF HttpTyped
      <4>2. HeaderOut(c)'
        BY <2>4, <4>1 DEF HeaderOut, H!Header
      <4> QED BY <1>0, <2>1, <2>2, <2>4, <3>2, <3>5, <4>2
          DEF HttpTyped, BrowserInv, InCall
    <3>6. ASSUME NEW d \in Browsers \ {c} PROVE BrowserInv(d)'
      <4>1. /\ arrived'[d] = arrived[d] /\ output'[d] = output[d]
            /\ got'[d] = got[d] /\ httpPeer'[d] = httpPeer[d]
            /\ asked'[d] = asked[d]
        BY <1>0, <2>1, <2>4 DEF HttpTyped
      <4>2. ~InCall(d) /\ ~InCall(d)'
        BY <2>1, <2>4 DEF InCall
      <4> QED BY <1>0, <4>1, <4>2 DEF BrowserInv, OneAnswerOf
    <3> QED BY <3>4, <3>5, <3>6 DEF HttpInv
  <2>5. \/ UNCHANGED <<output, cb>>
        \/ \E u, n : /\ n = H!Find(u)
                     /\ output' = [output EXCEPT ![c] =
                                     Append(@, H!Header(n, Bytes1(n)))]
                     /\ cb' = [who |-> c, node |-> n, size |-> Bytes1(n),
                               slash |-> u.slash]
    BY <1>5 DEF H!conn_readcb, H!Puts, Bytes1
  <2> QED BY <2>3, <2>4, <2>5
<1>6. CASE H!Flush(c)
  <2>1. /\ cb = H!Idle /\ down = "no" /\ output[c] # <<>>
        /\ UNCHANGED <<arrived, cb, raced, asked, httpPeer, present, size>>
    BY <1>6 DEF H!Flush, H!Loop, H!clientVars, H!fileVars
  <2>2. CASE /\ output' = [output EXCEPT ![c] = Tail(@)]
             /\ got' = IF c \in Browsers
                       THEN [got EXCEPT ![c] = Append(@, Head(output[c]))]
                       ELSE got
             /\ UNCHANGED down
    <3>1. HttpTyped' /\ CrashCause'
      BY <1>0, <2>1, <2>2 DEF HttpTyped, CrashCause
    <3>2. \A d \in Browsers \ {c} : BrowserInv(d)'
      BY <1>0, <2>1, <2>2, BrowserStays DEF HttpTyped
    <3>3. ASSUME c \in Browsers PROVE BrowserInv(c)'
      <4>1. /\ httpPeer[c] = "up" /\ arrived[c] = <<>> /\ asked[c] # 0
            /\ ~InCall(c) /\ ~InCall(c)' /\ OneAnswerOf(c)
        BY <1>0, <2>1, <3>3 DEF BrowserInv, InCall
      <4>2. PICK h, b : /\ Fits(h, b)
                        /\ \/ got[c] = <<>> /\ output[c] = <<h, b>>
                           \/ got[c] = <<h>> /\ output[c] = <<b>>
        BY <2>1, <4>1 DEF OneAnswerOf
      <4>3. /\ output'[c] = Tail(output[c])
            /\ got'[c] = Append(got[c], Head(output[c]))
        BY <1>0, <2>2, <3>3 DEF HttpTyped
      <4>4. \/ got'[c] = <<h>> /\ output'[c] = <<b>>
            \/ got'[c] = <<h, b>> /\ output'[c] = <<>>
        <5>1. /\ Tail(<<h, b>>) = <<b>> /\ Head(<<h, b>>) = h
              /\ Append(<<>>, h) = <<h>>
          OBVIOUS
        <5>2. /\ Tail(<<b>>) = <<>> /\ Head(<<b>>) = b
              /\ Append(<<h>>, b) = <<h, b>>
          BY PairAppended
        <5>3. CASE got[c] = <<>> /\ output[c] = <<h, b>>
          BY <4>3, <5>1, <5>3, Zenon
        <5>4. CASE got[c] = <<h>> /\ output[c] = <<b>>
          BY <4>3, <5>2, <5>4, Zenon
        <5> QED BY <4>2, <5>3, <5>4
      <4>5. OneAnswerOf(c)'
        BY <4>2, <4>4 DEF OneAnswerOf
      <4> QED BY <2>1, <4>1, <4>5 DEF BrowserInv
    <3> QED BY <1>k, <2>1, <3>1, <3>2, <3>3 DEF HttpInv
  <2>3. CASE down' = "ended" /\ UNCHANGED <<output, got>>
    BY <1>0, <1>k, <1>o, <2>1, <2>3 DEF HttpInv, HttpTyped, CrashCause
  <2> QED BY <1>6, <2>2, <2>3 DEF H!Flush
<1>7. CASE H!conn_eventcb(c)
  <2>1. /\ httpPeer[c] # "up" /\ output' = [output EXCEPT ![c] = <<>>]
        /\ UNCHANGED <<arrived, got, cb, raced, asked, httpPeer, present,
                       size, down>>
    BY <1>7 DEF H!conn_eventcb, H!AtClients, H!clientVars, H!fileVars
  <2>2. c \notin Browsers
    BY <1>0, <2>1 DEF BrowserInv
  <2>3. \A d \in Browsers : BrowserInv(d)'
    BY <1>0, <2>1, <2>2, BrowserStays DEF HttpTyped
  <2> QED BY <1>0, <1>k, <2>1, <2>3 DEF HttpInv, HttpTyped, CrashCause
<1> QED BY <1>1, <1>2, <1>4, <1>5, <1>6, <1>7 DEF H!OneClient

\* No step of a client, of a callback or of a file's owner breaks it.
LEMMA HttpStep == ASSUME HttpInv, HttpRun PROVE HttpInv'
<1> USE HttpGiven
<1>0. /\ HttpTyped /\ KnownFile /\ CrashCause
      /\ \A c \in Browsers : BrowserInv(c)
  BY DEF HttpInv
<1>1. CASE UNCHANGED httpVars
  <2>1. HttpTyped' /\ KnownFile' /\ CrashCause'
    BY <1>0, <1>1
    DEF httpVars, HttpTyped, KnownFile, CrashCause, Bytes1, H!IsDir
  <2>2. \A c \in Browsers : BrowserInv(c)'
    BY <1>0, <1>1, BrowserStays DEF httpVars
  <2> QED BY <2>1, <2>2 DEF HttpInv
<1>2. CASE H!Change
  <2>1. /\ down = "no" /\ raced' = (cb # H!Idle) /\ present' \subseteq present
        /\ UNCHANGED <<arrived, output, got, cb, asked, httpPeer, down>>
    BY <1>2 DEF H!Change, H!clientVars
  <2>2. \A c \in Browsers : BrowserInv(c)'
    BY <1>0, <2>1, BrowserStays
  <2> QED BY <1>0, <2>1, <2>2 DEF HttpInv, HttpTyped, KnownFile, CrashCause
<1>3. CASE H!signal_cb
  <2>1. /\ down' = "ended" /\ UNCHANGED <<arrived, output, got, cb, raced,
                                  asked, httpPeer, present, size>>
    BY <1>3 DEF H!signal_cb, H!clientVars, H!fileVars
  <2>2. \A c \in Browsers : BrowserInv(c)'
    BY <1>0, <2>1, BrowserStays
  <2> QED BY <1>0, <2>1, <2>2
      DEF HttpInv, HttpTyped, KnownFile, Bytes1, H!IsDir, CrashCause
\* The body that belongs to the header, put behind it.
<1>4. ASSUME NEW b, cb # H!Idle, cb' = H!Idle, down = "no",
             output' = [output EXCEPT ![cb.who] = Append(@, b)],
             b.what = "body", b.node = cb.node, b.size = cb.size \/ b.raced,
             UNCHANGED <<arrived, got, raced, asked, httpPeer, present, size,
                         down>>
      PROVE  HttpInv'
  <2>1. HttpTyped' /\ KnownFile' /\ CrashCause'
    BY <1>0, <1>4 DEF HttpTyped, KnownFile, CrashCause
  <2>2. ASSUME NEW c \in Browsers, cb.who = c PROVE BrowserInv(c)'
    <3>1. InCall(c) /\ ~InCall(c)'
      BY <1>4, <2>2 DEF InCall
    <3>2. /\ got[c] = <<>> /\ arrived[c] = <<>> /\ httpPeer[c] = "up"
          /\ HeaderOut(c)
      BY <1>0, <3>1 DEF BrowserInv
    <3>3. PICK h : /\ output[c] = <<h>> /\ h.what = "header"
                   /\ h.node = cb.node /\ h.size = cb.size
      BY <3>2 DEF HeaderOut
    <3>4. Fits(h, b)
      BY <1>4, <3>3 DEF Fits
    <3>5. output'[c] = <<h, b>>
      <4>1. output'[c] = Append(output[c], b)
        BY <1>0, <1>4, <2>2 DEF HttpTyped
      <4>2. Append(<<h>>, b) = <<h, b>>
        BY PairAppended
      <4> QED BY <3>3, <4>1, <4>2, Zenon
    <3>6. OneAnswerOf(c)'
      BY <1>4, <3>2, <3>4, <3>5 DEF OneAnswerOf
    <3>7. asked[c] # 0
      BY <1>0, <3>3 DEF BrowserInv
    <3> QED BY <1>4, <3>1, <3>2, <3>6, <3>7 DEF BrowserInv
  <2>3. ASSUME NEW c \in Browsers, cb.who # c PROVE BrowserInv(c)'
    <3>1. output'[c] = output[c] /\ ~InCall(c) /\ ~InCall(c)'
      BY <1>0, <1>4, <2>3 DEF HttpTyped, InCall
    <3>2. UNCHANGED <<arrived, got, asked, httpPeer>>
      BY <1>4
    <3>3. BrowserInv(c)
      BY <1>0, <2>3
    <3>4. OneAnswerOf(c) => OneAnswerOf(c)'
      BY <3>1, <3>2 DEF OneAnswerOf
    <3> QED BY <3>1, <3>2, <3>3, <3>4 DEF BrowserInv
  <2> QED BY <2>1, <2>2, <2>3 DEF HttpInv
<1>5. CASE H!send_dir
  <2> DEFINE b == H!List(cb.node, cb.slash)
  <2>1. /\ cb # H!Idle /\ H!IsDir(cb.node) /\ cb' = H!Idle /\ down = "no"
        /\ output' = [output EXCEPT ![cb.who] = Append(@, b)]
        /\ UNCHANGED <<arrived, got, raced, asked, httpPeer, present, size,
                       down>>
    BY <1>5 DEF H!send_dir, H!Puts, H!AtClients, H!clientVars, H!fileVars
  <2>2. b.what = "body" /\ b.node = cb.node /\ b.size = -1 /\ b.raced = raced
    BY DEF H!List
  <2>3. ~raced => cb.size = -1
    BY <1>0, <2>1 DEF KnownFile, Bytes1
  <2>4. b.size = cb.size \/ b.raced
    BY <2>2, <2>3
  <2> QED BY <1>4, <2>1, <2>2, <2>4
<1>6. CASE H!send_file_to_http
  <2>b. PICK b : b = H!Body(cb.node,
                     IF cb.node = H!Nothing THEN -1 ELSE size[cb.node])
    OBVIOUS
  <2>1. /\ cb # H!Idle /\ ~H!IsDir(cb.node) /\ H!Opens /\ cb' = H!Idle
        /\ down = "no"
        /\ output' = [output EXCEPT ![cb.who] = Append(@, b)]
        /\ UNCHANGED <<arrived, got, raced, asked, httpPeer, present, size,
                       down>>
    BY <1>6, <2>b DEF H!send_file_to_http, H!Puts, H!AtClients, H!clientVars,
      H!fileVars
  <2>2. /\ b.what = "body" /\ b.node = cb.node /\ b.raced = raced
        /\ b.size = IF cb.node = H!Nothing THEN -1 ELSE size[cb.node]
    BY <2>b DEF H!Body
  <2>3. cb.node # H!Nothing => cb.node \in Nodes
    BY <1>0, <2>1 DEF H!Opens, HttpTyped
  <2>4. ~raced => cb.size = IF cb.node = H!Nothing THEN -1 ELSE size[cb.node]
    BY <1>0, <2>1, <2>3 DEF KnownFile, Bytes1
  <2>5. b.size = cb.size \/ b.raced
    BY <2>2, <2>4
  <2> QED BY <1>4, <2>1, <2>2, <2>5
<1>7. CASE H!OpenFails
  <2>1. /\ cb # H!Idle /\ ~H!IsDir(cb.node) /\ ~H!Opens /\ down' = "crashed"
        /\ UNCHANGED <<arrived, output, got, cb, raced, asked, httpPeer,
                       present, size>>
    BY <1>7 DEF H!OpenFails, H!clientVars, H!fileVars
  <2>2. \A c \in Browsers : BrowserInv(c)'
    BY <1>0, <2>1, BrowserStays
  <2>3. raced \/ (cb.node = H!Nothing /\ ~ErrorPage)
    BY <1>0, <2>1 DEF KnownFile, H!Opens, H!IsDir
  <2> QED BY <1>0, <2>1, <2>2, <2>3
      DEF HttpInv, HttpTyped, KnownFile, Bytes1, H!IsDir, CrashCause
<1> QED BY <1>1, <1>2, <1>3, <1>5, <1>6, <1>7, HttpStepOf
    DEF HttpRun, H!Next, H!Sends

\* A browser gets the header and the body of one answer, of the size the header
\* says, and nothing but a file gone brings the server down; a bufferevent that
\* is still written to is freed only once the server has ended.
THEOREM AnswersKept == Spec => []AnswersWhole
<1>1. Init => HttpInv /\ BevInv
  BY HttpInit, BevInit
<1>2. HttpInv /\ BevInv /\ [Next]_vars => HttpInv' /\ BevInv'
  BY HttpSteps, HttpStep, BevSteps, BevStep
<1>3. HttpInv => H!AnswersWhole
  <2> SUFFICES ASSUME HttpInv PROVE H!AnswersWhole
    OBVIOUS
  <2>1. ASSUME NEW c \in Browsers, got[c] # <<>>
        PROVE  /\ got[c][1].what = "header"
               /\ H!Complete(c) =>
                    /\ got[c][2].what = "body"
                    /\ got[c][2].node = got[c][1].node
                    /\ got[c][2].size = got[c][1].size \/ got[c][2].raced
    <3>1. OneAnswerOf(c)
      BY <2>1 DEF HttpInv, BrowserInv
    <3>2. PICK h, b : Fits(h, b) /\ got[c] \in {<<h>>, <<h, b>>}
      BY <2>1, <3>1 DEF OneAnswerOf
    <3> QED BY <3>2 DEF Fits, H!Complete
  <2> QED BY <2>1 DEF HttpInv, CrashCause, H!AnswersWhole
<1>4. BevInv => B!FreedWithServer
  BY DEF BevInv, FreedAfter, LineLost, Under, B!FreedWithServer
<1>5. HttpInv /\ BevInv => AnswersWhole
  BY <1>3, <1>4 DEF AnswersWhole
<1> QED BY <1>1, <1>2, <1>5, PTL DEF Spec


-----------------------------------------------------------------------------
(* Types of the pipes and FIFOs *)

StreamRun == S!Next \/ UNCHANGED strmVars

\* A step of the composition is a step of Streams or leaves its variables alone.
LEMMA StreamSteps == ASSUME [Next]_vars PROVE StreamRun
BY DEF StreamRun, Next, vars, InTableServers, InForkServers, InProducers,
  InLocks, InChildren, InStreams, InStreamWrap, InLibevent, InDatagrams,
  InListing, InBufferevents

\* Two units are written at a time, so that a writer who has not written all
\* has two left.
InPairs == strmProg \in {"level", "edge"} => strmWritten % 2 = 0

LEMMA StreamTypesInit == ASSUME Init PROVE S!TypeOK /\ InPairs
<1>1. StreamUnits \in Nat /\ 0 \in 0..StreamUnits /\ 0 % 2 = 0
  BY ProgramsAssumption DEF S!StreamsAssumption
<1>2. /\ strmProg \in S!Pipes \union S!Fifos \union {"edge"}
      /\ fifo \in {"none", "old"} /\ writer \in {"start", "run"}
      /\ reader = "start" /\ opened = "none" /\ strmWritten = 0
      /\ consumed = 0 /\ edge = FALSE
  BY DEF Init, S!Init
<1>3. writeEnds \subseteq {"writer", "reader"}
  BY DEF Init, S!Init
<1>4. consumed \in 0..strmWritten
  BY <1>2
<1> QED BY <1>1, <1>2, <1>3, <1>4 DEF S!TypeOK, InPairs

LEMMA StreamTypesStep ==
  ASSUME S!TypeOK, InPairs, StreamRun PROVE S!TypeOK' /\ InPairs'
<1>0. StreamUnits \in Nat /\ StreamUnits >= 1 /\ StreamUnits % 2 = 0
  BY ProgramsAssumption DEF S!StreamsAssumption
<1>t. /\ strmWritten \in 0..StreamUnits /\ consumed \in 0..strmWritten
      /\ edge \in BOOLEAN
  BY DEF S!TypeOK
<1>1. CASE UNCHANGED strmVars
  BY <1>1 DEF strmVars, S!TypeOK, InPairs
<1>2. CASE S!Opens
  BY <1>2 DEF S!Opens, S!MakeFifo, S!RemakeFifo, S!OpenWrite, S!OpenRead,
    S!Meet, S!Opening, S!TypeOK, InPairs
<1>3. CASE S!Write
  <2>1. /\ strmWritten < S!Goal /\ strmWritten' = strmWritten + S!Batch
        /\ edge' = TRUE
        /\ UNCHANGED <<strmProg, fifo, writer, reader, opened, writeEnds,
                       consumed>>
    BY <1>3 DEF S!Write
  <2>2. CASE strmProg \in {"level", "edge"}
    <3>1. S!Batch = 2 /\ S!Goal = StreamUnits /\ strmWritten % 2 = 0
      BY <2>2 DEF S!Batch, S!Goal, InPairs
    <3>2. /\ strmWritten + 2 \in 0..StreamUnits
          /\ (strmWritten + 2) % 2 = 0 /\ consumed \in 0..strmWritten + 2
      BY <1>0, <1>t, <2>1, <3>1
    <3> QED BY <2>1, <3>1, <3>2 DEF S!TypeOK, InPairs
  <2>3. CASE strmProg \notin {"level", "edge"}
    <3>1. S!Batch = 1 /\ S!Goal <= StreamUnits /\ S!Goal \in Nat
      BY <1>0, <2>3 DEF S!Batch, S!Goal
    <3>2. /\ strmWritten + 1 \in 0..StreamUnits
          /\ consumed \in 0..strmWritten + 1
      BY <1>0, <1>t, <2>1, <3>1
    <3> QED BY <2>1, <2>3, <3>1, <3>2 DEF S!TypeOK, InPairs
  <2> QED BY <2>2, <2>3
<1>4. CASE S!WriterEnds
  BY <1>4 DEF S!WriterEnds, S!TypeOK, InPairs
<1>5. CASE S!ReaderStarts
  BY <1>5 DEF S!ReaderStarts, S!TypeOK, InPairs
<1>6. CASE S!Read
  <2>1. consumed' \in 0..strmWritten
    BY <1>t, <1>6 DEF S!Read, S!Takes, S!InPipe
  <2>2. reader' \in {"ended", "wait"}
    BY <1>6 DEF S!Read
  <2> QED BY <1>6, <2>1, <2>2 DEF S!Read, S!TypeOK, InPairs
<1>7. CASE S!EdgeWait
  BY <1>7 DEF S!EdgeWait, S!TypeOK, InPairs
<1>8. CASE S!Drain
  <2>1. consumed' \in 0..strmWritten /\ reader' \in {"drain", "wait"}
    BY <1>t, <1>8 DEF S!Drain, S!Takes, S!InPipe, S!ReadsOn
  <2> QED BY <1>8, <2>1 DEF S!Drain, S!TypeOK, InPairs
<1> QED BY <1>1, <1>2, <1>3, <1>4, <1>5, <1>6, <1>7, <1>8
        DEF StreamRun, S!Next, S!Reader

-----------------------------------------------------------------------------
(* Types of the reads of wrap.c *)

\* Readline reads no more ahead than read_buf has room for.
ReadFits == Len(buffer) <= ReadBuf

LEMMA WrapTypesAre == ASSUME WrapInv, ReadFits PROVE W!TypeOK
<1>1. call.op \in {"idle", "Readn", "Readline"}
  BY DEF WrapInv, WrapTyped, W!Idle
<1> QED BY <1>1 DEF WrapInv, WrapTyped, ReadFits, W!TypeOK, Bytes

LEMMA WrapTypesInit == ASSUME Init PROVE ReadFits
<1>1. buffer = <<>> /\ Len(<<>>) = 0
  BY DEF Init, W!Init
<1> QED BY <1>1, ProgramsAssumption DEF W!StreamWrapAssumption, ReadFits

LEMMA WrapTypesStep == ASSUME WrapInv, ReadFits, StreamWrapRun PROVE ReadFits'
<1>0. ReadBuf \in Nat /\ WrapTyped /\ Len(buffer) \in Nat
  BY ProgramsAssumption
     DEF W!StreamWrapAssumption, WrapInv, WrapTyped
<1>1. CASE UNCHANGED buffer
  BY <1>1 DEF ReadFits
<1>2. CASE W!Refill /\ buffer' # <<>>
  <2>1. call.fd \in Fds /\ W!Waiting(call.fd) > 0
    BY <1>0, <1>2 DEF W!Refill, W!InReadline, WrapTyped, W!Idle
  <2>2. W!Waiting(call.fd) \in Nat
    BY <1>0, <2>1 DEF WrapTyped, W!Waiting
  <2>3. PICK n \in Nat : n <= ReadBuf /\ buffer' = W!Bytes(call.fd, n)
    <3>1. PICK n : n = IF W!Waiting(call.fd) < ReadBuf
                       THEN W!Waiting(call.fd) ELSE ReadBuf
      OBVIOUS
    <3>2. buffer' = W!Bytes(call.fd, n)
      BY <1>2, <3>1 DEF W!Refill
    <3> QED BY <1>0, <2>2, <3>1, <3>2
  <2>4. Len(buffer') = n
    BY <1>0, <2>1, <2>3, BytesRead
  <2> QED BY <2>3, <2>4 DEF ReadFits
<1>3. CASE buffer' = <<>>
  <2>1. Len(buffer') = 0
    BY <1>3
  <2> QED BY <1>0, <2>1 DEF ReadFits
<1>4. CASE W!NextByte
  <2>1. buffer # <<>> /\ buffer' = Tail(buffer) /\ buffer \in Seq(Bytes)
    BY <1>0, <1>4 DEF W!NextByte, WrapTyped
  <2>2. Len(buffer') = Len(buffer) - 1
    BY <2>1
  <2> QED BY <1>0, <2>2 DEF ReadFits
<1> QED BY <1>1, <1>2, <1>3, <1>4
        DEF StreamWrapRun, wrapVars, W!Next, W!Writen, W!Begin, W!Readn,
            W!ReadlineFull, W!ReadlineEnd

-----------------------------------------------------------------------------
(* Types of the bufferevents *)

BevMore == reset \subseteq BevClients /\ \A c \in BevClients : keys[c] <= Keys

\* No line is anywhere that was not typed.
LEMMA BevTypesAre == ASSUME BevInv, BevMore PROVE B!TypeOK
<1>1. Keys \in Nat
  BY ProgramsAssumption DEF B!BuffereventsAssumption
<1>2. ASSUME NEW c \in BevClients
      PROVE  /\ keys[c] \in 0..Keys /\ toServer[c] \in 0..Keys
             /\ bevPending[c] \in 0..Keys /\ toClient[c] \in 0..Keys
             /\ shown[c] \in 0..Keys
  <2>1. /\ keys[c] \in Nat /\ toServer[c] \in Nat /\ bevPending[c] \in Nat
        /\ toClient[c] \in Nat /\ shown[c] \in Nat /\ keys[c] <= Keys
        /\ toServer[c] + bevPending[c] + toClient[c] + shown[c] <= keys[c]
    BY DEF BevInv, BevTyped, LineLost, Under, BevMore
  <2> QED BY <1>1, <2>1
<1>3. /\ keys \in [BevClients -> 0..Keys] /\ toServer \in [BevClients -> 0..Keys]
      /\ bevPending \in [BevClients -> 0..Keys]
      /\ toClient \in [BevClients -> 0..Keys]
      /\ shown \in [BevClients -> 0..Keys]
  BY <1>2 DEF BevInv, BevTyped
<1> QED BY <1>3 DEF B!TypeOK, BevInv, BevTyped, BevMore

LEMMA BevTypesInit == ASSUME Init PROVE BevMore
BY ProgramsAssumption DEF B!BuffereventsAssumption, Init, B!Init, BevMore

LEMMA BevTypesStep == ASSUME BevInv, BevMore, BevRun PROVE BevMore'
<1>0. Keys \in Nat /\ keys \in [BevClients -> Nat]
  BY ProgramsAssumption DEF B!BuffereventsAssumption, BevInv, BevTyped
<1>1. ASSUME NEW c \in BevClients, B!read_terminal(c) PROVE BevMore'
  BY <1>0, <1>1 DEF B!read_terminal, BevMore
<1>2. ASSUME NEW c \in BevClients, B!Interrupt(c) PROVE BevMore'
  BY <1>2 DEF B!Interrupt, BevMore
<1>3. CASE UNCHANGED <<keys, reset>>
  BY <1>3 DEF BevMore
<1> QED BY <1>1, <1>2, <1>3
        DEF BevRun, bevVars, B!Next, B!Server, B!Dispatch, B!Connect, B!read_cb,
            B!ClientEvent, B!listener_cb, B!ServerRead, B!Output,
            B!ServerEvent, B!lines
=============================================================================
