----------------------------- MODULE StreamWrap -----------------------------
(***************************************************************************)
(* The reads and writes of wrap.c that deal with a stream in parts: Writen *)
(* by whoever sends, Readn and Readline by a caller that has several       *)
(* descriptors. Readline reads ahead into one static buffer. Any read or   *)
(* write may fail, which leaves the stream where it was; a sender whose    *)
(* Writen fails closes. No program of the repository calls Readn or        *)
(* Readline: the caller here is any caller.                                *)
(***************************************************************************)
EXTENDS Integers, Sequences, FiniteSets

CONSTANTS
  Fds,         \* the descriptors
  Data,        \* what is sent on each: a sequence of "x" and "nl"
  ReadBuf,     \* bytes of read_buf, 100 there
  SocketBuf,   \* bytes the kernel holds
  Sizes        \* the n and maxlen that callers give

StreamWrapAssumption ==
  /\ {ReadBuf, SocketBuf} \subseteq Nat \ {0} /\ Sizes \subseteq Nat \ {0}
  /\ Data \in [Fds -> Seq({"x", "nl"})]

VARIABLES
  sentTo,      \* bytes Writen has written to each descriptor
  failedTo,    \* the descriptors on which Writen has returned -1
  taken,       \* bytes read from it
  buffer,      \* read_ptr and read_cnt: what read_buf still has
  call,        \* the call that runs
  result,      \* history: what the last call stored and returned
  out,         \* history: what calls on a descriptor have stored, in order
  mixed        \* history: read_buf had bytes of another use when a call began

vars == <<sentTo, failedTo, taken, buffer, call, result, out, mixed>>

Idle == [op |-> "idle", fd |-> CHOOSE f \in Fds : TRUE, size |-> 0, left |-> 0]
NoResult == [op |-> "idle", fd |-> Idle.fd, size |-> 0, ret |-> 0, stored |-> 0]

Init == /\ sentTo = [f \in Fds |-> 0] /\ failedTo = {}
        /\ taken = [f \in Fds |-> 0]
        /\ buffer = <<>> /\ call = Idle /\ result = NoResult
        /\ out = [f \in Fds |-> <<>>] /\ mixed = FALSE

-----------------------------------------------------------------------------
\* Writen: the kernel takes what it has room for, and the rest in later calls.
\* Interrupted, it starts over with nothing written; at another error it
\* returns -1, whatever it has written by then.
Writen(f) ==
  /\ f \notin failedTo /\ sentTo[f] < Len(Data[f])
  /\ \/ /\ \E n \in 1..(Len(Data[f]) - sentTo[f]) :
            /\ sentTo[f] + n - taken[f] <= SocketBuf
            /\ sentTo' = [sentTo EXCEPT ![f] = @ + n]
        /\ UNCHANGED failedTo
     \/ failedTo' = failedTo \union {f} /\ UNCHANGED sentTo
  /\ UNCHANGED <<taken, buffer, call, result, out, mixed>>

Complete(f) == f \in failedTo \/ sentTo[f] = Len(Data[f])
AtEnd(f) == Complete(f) /\ taken[f] = sentTo[f]
Waiting(f) == sentTo[f] - taken[f]

\* The next n bytes of f in the kernel.
Bytes(f, n) == [k \in 1..n |-> <<f, taken[f] + k>>]

Begin(op, f, n) ==
  /\ call = Idle
  /\ call' = [op |-> op, fd |-> f, size |-> n,
              left |-> IF op = "Readn" THEN n ELSE n - 1]
  /\ mixed' = (mixed \/ (buffer # <<>> /\ (op = "Readn") = (buffer[1][1] = f)))
  /\ UNCHANGED <<sentTo, failedTo, taken, buffer, result, out>>

\* size counts what the call was asked for, left what it may still store.
Stored == (IF call.op = "Readn" THEN call.size ELSE call.size - 1) - call.left

Return(n, stored) ==
  /\ result' = [op |-> call.op, fd |-> call.fd, size |-> call.size,
                 ret |-> n, stored |-> stored]
  /\ call' = Idle

\* One read of Readn; it blocks until there is something, or the end. It may
\* fail: what earlier ones have stored is there, but not in the result.
Readn ==
  /\ call.op = "Readn"
  /\ \/ \E n \in 1..Waiting(call.fd) :
          /\ n <= call.left
          /\ taken' = [taken EXCEPT ![call.fd] = @ + n]
          /\ out' = [out EXCEPT ![call.fd] = @ \o Bytes(call.fd, n)]
          /\ IF call.left = n THEN Return(Stored + n, Stored + n)
             ELSE call' = [call EXCEPT !.left = @ - n] /\ UNCHANGED result
     \/ AtEnd(call.fd) /\ Return(Stored, Stored) /\ UNCHANGED <<taken, out>>
     \/ Return(-1, Stored) /\ UNCHANGED <<taken, out>>
  /\ UNCHANGED <<sentTo, failedTo, buffer, mixed>>

InReadline == call.op = "Readline" /\ call.left > 0

\* my_read, when the buffer is used up: as much as there is and fits. If its
\* read fails the buffer stays empty and Readline returns -1.
\* Mutant: with a byte left in the buffer.
RefillsEarly == Len(buffer) <= 1
Refills == buffer = <<>>

Refill ==
  /\ InReadline /\ Refills
  /\ \/ /\ Waiting(call.fd) > 0
        /\ LET n == IF Waiting(call.fd) < ReadBuf THEN Waiting(call.fd)
                                                 ELSE ReadBuf
           IN /\ buffer' = Bytes(call.fd, n)
              /\ taken' = [taken EXCEPT ![call.fd] = @ + n]
        /\ UNCHANGED <<call, result>>
     \/ buffer' = <<>> /\ Return(-1, Stored) /\ UNCHANGED taken
  /\ UNCHANGED <<sentTo, failedTo, out, mixed>>

\* my_read gives one byte; the line is ended by "\n", or by its size: then the
\* loop has counted one more than it has stored.
NextByte ==
  /\ InReadline /\ buffer # <<>>
  /\ buffer' = Tail(buffer)
  /\ out' = [out EXCEPT ![call.fd] = Append(@, Head(buffer))]
  /\ LET byte == Head(buffer) IN
     IF Data[byte[1]][byte[2]] = "nl" THEN Return(Stored + 1, Stored + 1)
     ELSE call' = [call EXCEPT !.left = @ - 1] /\ UNCHANGED result
  /\ UNCHANGED <<sentTo, failedTo, taken, mixed>>

ReadlineFull ==
  /\ call.op = "Readline" /\ call.left = 0
  /\ Return(call.size, Stored)
  /\ UNCHANGED <<sentTo, failedTo, taken, buffer, out, mixed>>

ReadlineEnd ==
  /\ InReadline /\ buffer = <<>> /\ AtEnd(call.fd)
  /\ Return(Stored, Stored)
  /\ UNCHANGED <<sentTo, failedTo, taken, buffer, out, mixed>>

Next == \/ \E f \in Fds : Writen(f)
        \/ \E f \in Fds, n \in Sizes, op \in {"Readn", "Readline"} :
             ~(AtEnd(f) /\ buffer = <<>>) /\ Begin(op, f, n)
        \/ Readn \/ Refill \/ NextByte \/ ReadlineFull \/ ReadlineEnd

Spec == Init /\ [][Next]_vars

-----------------------------------------------------------------------------
(* Properties *)

TypeOK ==
  /\ sentTo \in [Fds -> Nat] /\ taken \in [Fds -> Nat]
  /\ \A f \in Fds : taken[f] <= sentTo[f] /\ sentTo[f] <= Len(Data[f])
  /\ failedTo \subseteq Fds
  /\ buffer \in Seq(Fds \X Nat) /\ Len(buffer) <= ReadBuf
  /\ call.op \in {"idle", "Readn", "Readline"} /\ mixed \in BOOLEAN
  /\ out \in [Fds -> Seq(Fds \X Nat)]

\* Readn and Readline give the bytes of a descriptor in order, none twice and
\* none lost however they arrive, as long as no call begins with bytes in the
\* static buffer that are another descriptor's, or its own for Readn;
\* unless it failed, Readn gives less than it was asked for only at the end,
\* and Readline returns what it has stored, but for a line cut at maxlen, where
\* it returns one more.
StreamInOrder ==
  /\ ~mixed => \A f \in Fds : \A k \in DOMAIN out[f] : out[f][k] = <<f, k>>
  /\ result.op = "Readn" /\ result.ret \in 0..result.size - 1 =>
       AtEnd(result.fd)
  /\ result.ret \notin {result.stored, -1} =>
       result.op = "Readline" /\ result.ret = result.size

=============================================================================
