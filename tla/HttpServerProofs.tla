-------------------------- MODULE HttpServerProofs --------------------------
(* Theorems about HttpServer, for both programs, any clients and requests,   *)
(* any length of the file, of a chunk and of the socket buffer.              *)
EXTENDS HttpServer, TLAPS, SequenceTheorems, FiniteSetTheorems

-----------------------------------------------------------------------------
(* Lines: get_line takes some of the input and leaves the rest.              *)

\* A set of numbers has a least one. Of the sets 0..x, which are well-founded
\* by inclusion, one is smallest.
LEMMA LeastNumber ==
  ASSUME NEW T \in SUBSET Nat, T # {}
  PROVE  \E x \in T : \A y \in T : x <= y
<1> DEFINE U == {0..x : x \in T}
<1>1. U \subseteq FiniteSubsetsOf(Nat) /\ U # {}
  <2>1. ASSUME NEW x \in T PROVE IsFiniteSet(0..x) /\ 0..x \in SUBSET Nat
    <3>1. 0 \in Int /\ x \in Int
      OBVIOUS
    <3> QED BY <3>1, FS_Interval
  <2> QED BY <2>1 DEF FiniteSubsetsOf
<1>2. PICK A \in U : \A B \in U : ~ (<<B, A>> \in StrictSubsetOrdering(Nat))
  BY <1>1, FS_StrictSubsetOrderingWellFounded, WFMin
<1>3. PICK x \in T : A = 0..x
  OBVIOUS
<1>4. ASSUME NEW y \in T, y < x PROVE FALSE
  <2>1. 0..y \in U /\ 0..y \subseteq A /\ 0..y # A
    BY <1>3, <1>4
  <2>2. <<0..y, A>> \in StrictSubsetOrdering(Nat)
    BY <2>1 DEF StrictSubsetOrdering
  <2> QED BY <1>2, <2>1, <2>2
<1> QED BY <1>4

LEMMA LineLenType ==
  ASSUME NEW q \in Seq(Tokens)
  PROVE  LineLen(q) \in 0..Len(q)
<1> DEFINE First(k) == q[k] # "half" /\ \A j \in 1..k - 1 : q[j] = "half"
<1>1. CASE Ended(q)
  <2> DEFINE T == {k \in 1..Len(q) : q[k] # "half"}
  <2>1. T \in SUBSET Nat /\ T # {}
    BY <1>1 DEF Ended
  <2>2. PICK k \in T : \A j \in T : k <= j
    BY <2>1, LeastNumber
  <2>3. k \in DOMAIN q /\ First(k)
    BY <2>2
  <2>4. LineLen(q) = CHOOSE x \in DOMAIN q : First(x)
    BY <1>1 DEF LineLen
  <2>5. (CHOOSE x \in DOMAIN q : First(x)) \in DOMAIN q
    BY <2>3
  <2> QED BY <2>4, <2>5
<1>2. CASE ~Ended(q)
  BY <1>2 DEF LineLen
<1> QED BY <1>1, <1>2

LEMMA RestType ==
  ASSUME NEW q \in Seq(Tokens)
  PROVE  SubSeq(q, LineLen(q) + 1, Len(q)) \in Seq(Tokens)
<1>1. LineLen(q) \in 0..Len(q) /\ Len(q) \in Nat
  BY LineLenType, LenProperties
<1>2. \A k \in LineLen(q) + 1..Len(q) : q[k] \in Tokens
  BY <1>1, ElementOfSeq
<1>3. LineLen(q) + 1 \in Int /\ Len(q) \in Int
  BY <1>1
<1> QED BY <1>2, <1>3, SubSeqProperties

-----------------------------------------------------------------------------
(* Types                                                                     *)

LEMMA InitType == Init => TypeOK
<1> SUFFICES ASSUME Init PROVE TypeOK
  OBVIOUS
<1>1. <<>> \in Seq(Tokens) /\ <<>> \in Seq(1..FileLen)
  OBVIOUS
<1>2. ASSUME NEW c \in Clients
      PROVE  script[c] \in Scripts[c] /\ sent[c] \in 0..Len(script[c])
  <2>1. script[c] \in Scripts[c]
    BY DEF Init
  <2>2. script[c] \in Seq(Seq(Tokens))
    BY <2>1, HttpAssumption
  <2> QED BY <2>1, <2>2, LenProperties DEF Init
<1>3. 0 \in 0..FileLen /\ 0 \in 0..SendBuf
  BY HttpAssumption
<1> QED BY <1>1, <1>2, <1>3 DEF Init, TypeOK

\* get_line leaves a sequence of tokens, and what the client did.
LEMMA GetLineType ==
  ASSUME TypeOK, GetLine(cur)
  PROVE  /\ input' \in [Clients -> Seq(Tokens)]
         /\ peer' \in [Clients -> {"up", "shut", "reset", "gone"}]
<1>1. input' \in [Clients -> Seq(Tokens)]
  BY RestType DEF TypeOK, GetLine
<1>2. peer' \in [Clients -> {"up", "shut", "reset", "gone"}]
  BY DEF TypeOK, GetLine
<1> QED BY <1>1, <1>2

\* Units read and sent: no more than are left, than a chunk, than there is
\* room for.
LEMMA ChunkFacts ==
  ASSUME TypeOK, pc = "send", pos < FileLen, cur \in Clients
  PROVE  /\ ReadLen \in Nat /\ ReadLen > 0 /\ pos + ReadLen <= FileLen
         /\ Room(cur) \in Nat /\ Room(cur) + sendq[cur] = SendBuf
         /\ Taken \in Nat /\ Taken <= ReadLen /\ Taken <= Room(cur)
         /\ ReadLen <= Room(cur) => Taken = ReadLen
<1>1. /\ FileLen \in Nat /\ ChunkLen \in Nat /\ ChunkLen > 0 /\ SendBuf \in Nat
      /\ pos \in Nat /\ sendq[cur] \in 0..SendBuf
  BY HttpAssumption DEF TypeOK
<1>2. Room(cur) \in Nat /\ Room(cur) + sendq[cur] = SendBuf
  BY <1>1 DEF Room
<1>3. ReadLen \in Nat /\ ReadLen > 0 /\ pos + ReadLen <= FileLen
  BY <1>1 DEF ReadLen
<1> QED BY <1>2, <1>3 DEF Taken

\* While a request is served cur is a client.
Serving == pc \in {"line", "headers", "answer", "send"}
CurKnown == Serving => cur \in Clients

LEMMA ReadSteps ==
  ASSUME TypeOK, RequestLine \/ RequestError \/ ClientClosed \/ HeaderLine
  PROVE  TypeOK'
<1>1. /\ UNCHANGED <<clientVars, nonblock, sendq, heads, body, pos, cur, batch>>
      /\ GetLine(cur)
  BY DEF RequestLine, RequestError, ClientClosed, HeaderLine, LineRead,
         serverVars
<1>2. /\ input' \in [Clients -> Seq(Tokens)]
      /\ peer' \in [Clients -> {"up", "shut", "reset", "gone"}]
  BY <1>1, GetLineType
<1>3. conn' \in [Clients -> {"new", "queued", "open", "closed"}]
      /\ edge' \in [Clients -> BOOLEAN]
  BY DEF TypeOK, RequestLine, RequestError, ClientClosed, HeaderLine, Disconnect
<1>4. req' \in {"none", "get", "missing", "dir", "other"}
  <2>1. CASE RequestLine
    BY <2>1 DEF RequestLine, Asks
  <2>2. CASE ~RequestLine
    BY <2>2 DEF TypeOK, RequestError, ClientClosed, HeaderLine, serverVars
  <2> QED BY <2>1, <2>2
<1>5. pc' \in {"wait", "batch", "line", "headers", "answer", "send", "exited"}
  BY DEF RequestLine, RequestError, ClientClosed, HeaderLine, Loop
<1> QED BY <1>1, <1>2, <1>3, <1>4, <1>5 DEF TypeOK, clientVars

LEMMA AnswerSteps ==
  ASSUME TypeOK, AnswerMissing \/ AnswerDir \/ AnswerLost \/ AnswerFile
  PROVE  TypeOK'
<1>1. UNCHANGED <<clientVars, cur, req, batch, nonblock, input, sendq, peer,
                  body>>
  BY DEF AnswerMissing, AnswerDir, AnswerLost, AnswerFile, Answering
<1>2. /\ conn' \in [Clients -> {"new", "queued", "open", "closed"}]
      /\ edge' \in [Clients -> BOOLEAN]
  BY DEF TypeOK, AnswerMissing, AnswerDir, AnswerLost, AnswerFile, Disconnect
<1>3. heads' \in [Clients -> Nat]
  <2>1. heads' = heads \/ heads' = [heads EXCEPT ![cur] = heads[cur] + 1]
    BY DEF TypeOK, AnswerMissing, AnswerDir, AnswerLost, AnswerFile
  <2> QED BY <2>1 DEF TypeOK
<1>4. pos' \in 0..FileLen
  <2>1. pos' = pos \/ pos' = 0
    BY DEF AnswerMissing, AnswerDir, AnswerLost, AnswerFile
  <2>2. pos \in 0..FileLen /\ 0 \in 0..FileLen
    BY HttpAssumption DEF TypeOK
  <2> QED BY <2>1, <2>2
<1>5. pc' \in {"wait", "batch", "line", "headers", "answer", "send", "exited"}
  BY DEF AnswerMissing, AnswerDir, AnswerLost, AnswerFile, Loop
<1> QED BY <1>1, <1>2, <1>3, <1>4, <1>5 DEF TypeOK, clientVars

LEMMA SendSteps ==
  ASSUME TypeOK, CurKnown, SendChunk \/ SendError \/ SendDone
  PROVE  TypeOK'
<1>1. /\ UNCHANGED <<clientVars, cur, req, batch, nonblock, input, peer, heads>>
      /\ cur \in Clients /\ pc = "send"
  BY DEF SendChunk, SendError, SendDone, Sending, CurKnown, Serving
<1>2. CASE SendChunk
  <2>1. UNCHANGED <<pc, conn, edge>> /\ pos < FileLen
    BY <1>2 DEF SendChunk
  <2>2. pos' \in 0..FileLen
    <3>1. pos' = pos + ReadLen /\ pos \in Nat /\ FileLen \in Nat
      BY <1>2, HttpAssumption DEF SendChunk, NextPos, TypeOK
    <3> QED BY <1>1, <2>1, <3>1, ChunkFacts
  <2>3. sendq' \in [Clients -> 0..SendBuf]
    <3>1. sendq[cur] + Taken \in 0..SendBuf
      <4>1. sendq[cur] \in 0..SendBuf /\ SendBuf \in Nat
        BY <1>1, HttpAssumption DEF TypeOK
      <4>2. Taken \in Nat /\ Room(cur) \in Nat /\ Taken <= Room(cur)
            /\ Room(cur) + sendq[cur] = SendBuf
        BY <1>1, <2>1, ChunkFacts
      <4> QED BY <4>1, <4>2
    <3> QED BY <1>2, <3>1 DEF SendChunk, TypeOK
  <2>4. body' \in [Clients -> Seq(1..FileLen)]
    <3> DEFINE sends == [k \in 1..Taken |-> pos + k]
    <3>1. Taken \in Nat /\ \A k \in 1..Taken : pos + k \in 1..FileLen
      <4>1. pos \in Nat /\ FileLen \in Nat
        BY HttpAssumption DEF TypeOK
      <4> QED BY <1>1, <2>1, <4>1, ChunkFacts
    <3>2. sends \in Seq(1..FileLen)
      BY <3>1
    <3>3. body[cur] \o sends \in Seq(1..FileLen)
      BY <1>1, <3>2, ConcatProperties DEF TypeOK
    <3> QED BY <1>2, <3>3 DEF SendChunk, TypeOK
  <2> QED BY <1>1, <2>1, <2>2, <2>3, <2>4 DEF TypeOK, clientVars
<1>3. CASE SendError \/ SendDone
  BY <1>1, <1>3 DEF TypeOK, clientVars, SendError, SendDone, Disconnect, Loop
<1> QED BY <1>2, <1>3

LEMMA LoopSteps ==
  ASSUME TypeOK, EpollWait \/ DoAccept \/ DoRead \/ AcceptFails
  PROVE  TypeOK'
<1>1. CASE EpollWait
  BY <1>1 DEF TypeOK, EpollWait, Reported, Loop, clientVars, serverVars
<1>2. CASE DoAccept
  <2>1. PICK c \in Clients :
          /\ conn[c] = "queued"
          /\ conn' = [conn EXCEPT ![c] = "open"]
          /\ \E nb \in NonblockAfterAccept :
               nonblock' = [nonblock EXCEPT ![c] = nb]
          /\ edge' = [edge EXCEPT ![c] = Readable(c)]
    BY <1>2 DEF DoAccept
  <2>2. nonblock' \in [Clients -> BOOLEAN]
    BY <2>1 DEF TypeOK, NonblockAfterAccept
  <2>3. edge' \in [Clients -> BOOLEAN]
    BY <2>1 DEF TypeOK, Readable
  <2> QED BY <1>2, <2>1, <2>2, <2>3
          DEF TypeOK, DoAccept, Loop, clientVars, serverVars
<1>3. CASE DoRead
  BY <1>3 DEF TypeOK, DoRead, clientVars
<1>4. CASE AcceptFails
  BY <1>4 DEF TypeOK, AcceptFails, clientVars, serverVars
<1> QED BY <1>1, <1>2, <1>3, <1>4

LEMMA ClientSteps ==
  ASSUME TypeOK, NEW c \in Clients, Client(c) \/ Leave(c)
  PROVE  TypeOK'
<1>1. UNCHANGED <<prog, script, serverVars, pc, batch, nonblock, heads, body>>
  BY DEF Client, Connect, SendSegment, ReadBody, Leave, ClientMove
<1>2. CASE Connect(c)
  BY <1>1, <1>2 DEF Connect, TypeOK, serverVars
<1>3. CASE SendSegment(c)
  <2>1. /\ sent' = [sent EXCEPT ![c] = @ + 1] /\ sent[c] < Len(script[c])
        /\ input' = [input EXCEPT ![c] = @ \o script[c][sent'[c]]]
        /\ edge' = [edge EXCEPT ![c] = conn[c] = "open"]
        /\ UNCHANGED <<conn, sendq, peer>>
    BY <1>3 DEF SendSegment
  <2>2. script[c] \in Seq(Seq(Tokens))
    BY HttpAssumption DEF TypeOK
  <2>3. Len(script[c]) \in Nat /\ sent[c] \in Nat
    BY <2>2, LenProperties DEF TypeOK
  <2>4. sent[c] + 1 \in 1..Len(script[c])
    BY <2>1, <2>3
  <2>5. \A d \in Clients : sent'[d] = IF d = c THEN sent[c] + 1 ELSE sent[d]
    BY <2>1 DEF TypeOK
  <2>6. sent'[c] \in 1..Len(script[c])
    BY <2>4, <2>5
  <2>7. script[c][sent'[c]] \in Seq(Tokens)
    BY <2>2, <2>6, ElementOfSeq
  <2>8. input' \in [Clients -> Seq(Tokens)]
    BY <2>1, <2>7, ConcatProperties DEF TypeOK
  <2>9. edge' \in [Clients -> BOOLEAN]
    BY <2>1 DEF TypeOK
  <2>10. /\ sent' \in [Clients -> Nat]
         /\ \A d \in Clients : sent'[d] \in 0..Len(script[d])
    <3>1. sent' \in [Clients -> Nat]
      BY <2>1, <2>3 DEF TypeOK
    <3>2. ASSUME NEW d \in Clients PROVE sent'[d] \in 0..Len(script[d])
      <4>1. CASE d = c
        BY <2>3, <2>4, <2>5, <4>1
      <4>2. CASE d # c
        BY <2>5, <4>2 DEF TypeOK
      <4> QED BY <4>1, <4>2
    <3> QED BY <3>1, <3>2
  <2> QED BY <1>1, <2>1, <2>8, <2>9, <2>10 DEF TypeOK, serverVars
<1>4. CASE ReadBody(c)
  <2>1. sendq' \in [Clients -> 0..SendBuf]
    <3>1. /\ sendq[c] \in 0..SendBuf /\ SendBuf \in Nat /\ sendq[c] > 0
          /\ sendq' = [sendq EXCEPT ![c] = sendq[c] - 1]
      BY <1>4, HttpAssumption DEF ReadBody, TypeOK
    <3>2. sendq[c] - 1 \in 0..SendBuf
      BY <3>1
    <3> QED BY <3>1, <3>2 DEF TypeOK
  <2> QED BY <1>1, <1>4, <2>1 DEF ReadBody, TypeOK, serverVars
<1>5. CASE Leave(c)
  <2>1. edge' \in [Clients -> BOOLEAN]
    BY <1>5 DEF Leave, TypeOK
  <2>2. peer' \in [Clients -> {"up", "shut", "reset", "gone"}]
    BY <1>5, HttpAssumption DEF Leave, TypeOK
  <2> QED BY <1>1, <1>5, <2>1, <2>2 DEF Leave, TypeOK, serverVars
<1> QED BY <1>2, <1>3, <1>4, <1>5 DEF Client

LEMMA NextCurKnown ==
  ASSUME TypeOK, CurKnown, [Next]_vars
  PROVE  CurKnown'
<1>1. CASE UNCHANGED <<pc, cur>>
  BY <1>1 DEF CurKnown, Serving
<1>2. CASE DoRead
  BY <1>2 DEF DoRead, CurKnown, TypeOK
<1>3. CASE EpollWait \/ DoAccept \/ AcceptFails
  BY <1>3 DEF EpollWait, DoAccept, AcceptFails, Loop, CurKnown, Serving
<1>4. CASE RequestLine \/ RequestError \/ ClientClosed \/ HeaderLine
  BY <1>4 DEF RequestLine, RequestError, ClientClosed, HeaderLine, LineRead,
              Loop, CurKnown, Serving, serverVars
<1>5. CASE AnswerMissing \/ AnswerDir \/ AnswerLost \/ AnswerFile
  BY <1>5 DEF AnswerMissing, AnswerDir, AnswerLost, AnswerFile, Answering,
              Loop, CurKnown, Serving
<1>6. CASE SendChunk \/ SendError \/ SendDone
  BY <1>6 DEF SendChunk, SendError, SendDone, Sending, Loop, CurKnown, Serving
<1>7. ASSUME NEW c \in Clients, Client(c) \/ Leave(c) PROVE CurKnown'
  BY <1>1, <1>7 DEF Client, Connect, SendSegment, ReadBody, Leave, ClientMove,
                    serverVars
<1> QED BY <1>1, <1>2, <1>3, <1>4, <1>5, <1>6, <1>7
        DEF Next, Server, Stopped, vars, serverVars

LEMMA TypeInvariant == Spec => [](TypeOK /\ CurKnown)
<1>1. Init => TypeOK /\ CurKnown
  BY InitType DEF Init, CurKnown, Serving
<1>2. TypeOK /\ CurKnown /\ [Next]_vars => TypeOK' /\ CurKnown'
  <2> SUFFICES ASSUME TypeOK, CurKnown, [Next]_vars PROVE TypeOK'
    BY NextCurKnown
  <2>1. CASE UNCHANGED vars
    BY <2>1 DEF TypeOK, vars, clientVars, serverVars
  <2>2. CASE Next
    BY <2>1, <2>2, ReadSteps, AnswerSteps, SendSteps, LoopSteps, ClientSteps
       DEF Next, Server, Stopped
  <2> QED BY <2>1, <2>2
<1> QED BY <1>1, <1>2, PTL DEF Spec

\* Every variable keeps its type: what is left of the input is a sequence of
\* lines, the position stays in the file, no socket buffer holds more than it
\* can.
THEOREM TypeCorrect == Spec => []TypeOK
  BY TypeInvariant, PTL

-----------------------------------------------------------------------------
(* One answer                                                                *)

\* The events of a batch are of open connections, and so is the one served,
\* whose event has been taken from the batch: disconnecting it takes nothing
\* from under the others.
BatchOpen == \A c \in batch \ {NoClient} : conn[c] = "open"
CurOpen == Serving => /\ cur \in Clients /\ conn[cur] = "open"
                      /\ cur \notin batch

\* A connection that has been given a head is closed, or its file is on the
\* way, or the program has ended; one that has not has been sent nothing.
Answered ==
  \A c \in Clients :
    \/ heads[c] = 0 /\ body[c] = <<>>
    \/ heads[c] = 1 /\ (conn[c] = "closed" \/ Down \/ (pc = "send" /\ cur = c))

\* send_file has sent units up to pos only, and all of them to a descriptor
\* that was left blocking.
FileSent ==
  pc = "send" => /\ heads[cur] = 1
                 /\ \A k \in 1..Len(body[cur]) : body[cur][k] <= pos
                 /\ ~nonblock[cur] => Len(body[cur]) = pos

ServeInv == BatchOpen /\ CurOpen /\ Answered /\ FileSent /\ BodyInOrder

LEMMA InitServe == Init => ServeInv
<1> SUFFICES ASSUME Init PROVE ServeInv
  OBVIOUS
<1>1. BatchOpen /\ CurOpen /\ Answered /\ FileSent
  BY DEF Init, BatchOpen, CurOpen, Serving, Answered, FileSent
<1>2. BodyInOrder
  <2>1. \A c \in Clients : body[c] = <<>> /\ conn[c] = "new"
    BY DEF Init
  <2>2. 1..Len(<<>>) - 1 = {}
    OBVIOUS
  <2> QED BY <2>1, <2>2 DEF BodyInOrder
<1> QED BY <1>1, <1>2 DEF ServeInv

\* A connection that is served and not yet answered has been sent nothing.
LEMMA Unanswered ==
  ASSUME ServeInv, Serving, pc # "send"
  PROVE  heads[cur] = 0 /\ body[cur] = <<>>
  BY DEF ServeInv, CurOpen, Answered, Serving, Down

\* Steps between the answers: they send nothing, change what is open only by
\* closing a connection with nothing sent, and leave the batch as it is.
LEMMA QuietServe ==
  ASSUME TypeOK, ServeInv, Serving, pc # "send",
         UNCHANGED <<cur, batch, nonblock, heads, body>>,
         pc' # "send",
         \/ conn' = conn
         \/ Disconnect(cur) /\ pc' \in {"wait", "batch", "exited"}
  PROVE  ServeInv'
<1>1. /\ heads[cur] = 0 /\ body[cur] = <<>>
      /\ cur \in Clients /\ conn[cur] = "open" /\ cur \notin batch /\ ~Down
  BY Unanswered DEF ServeInv, CurOpen, Serving, Down
<1>2. \A c \in Clients : c # cur => conn'[c] = conn[c]
  BY DEF Disconnect, TypeOK
<1>3. BatchOpen' /\ CurOpen'
  BY <1>1, <1>2 DEF ServeInv, BatchOpen, CurOpen, Serving, TypeOK
<1>4. Answered' /\ FileSent'
  BY <1>1, <1>2 DEF ServeInv, Answered, FileSent, Down
<1>5. BodyInOrder'
  BY <1>1, <1>2 DEF ServeInv, BodyInOrder
<1> QED BY <1>3, <1>4, <1>5 DEF ServeInv

LEMMA ReadServe ==
  ASSUME TypeOK, ServeInv,
         RequestLine \/ RequestError \/ ClientClosed \/ HeaderLine
  PROVE  ServeInv'
<1>1. /\ UNCHANGED <<cur, batch, nonblock, heads, body>>
      /\ pc \in {"line", "headers"}
  BY DEF RequestLine, RequestError, ClientClosed, HeaderLine, LineRead,
         serverVars
<1>2. /\ pc' # "send"
      /\ \/ conn' = conn
         \/ Disconnect(cur) /\ pc' \in {"wait", "batch", "exited"}
  BY DEF RequestLine, RequestError, ClientClosed, HeaderLine, Loop
<1> QED BY <1>1, <1>2, QuietServe DEF Serving

LEMMA AnswerServe ==
  ASSUME TypeOK, ServeInv,
         AnswerMissing \/ AnswerDir \/ AnswerLost \/ AnswerFile
  PROVE  ServeInv'
<1>1. /\ UNCHANGED <<cur, batch, nonblock, body>> /\ pc = "answer"
  BY DEF AnswerMissing, AnswerDir, AnswerLost, AnswerFile, Answering
<1>2. /\ heads[cur] = 0 /\ body[cur] = <<>>
      /\ cur \in Clients /\ conn[cur] = "open" /\ cur \notin batch /\ ~Down
  BY <1>1, Unanswered DEF ServeInv, CurOpen, Serving, Down
<1>3. CASE AnswerMissing \/ AnswerLost
  <2>1. UNCHANGED <<heads, conn>> /\ pc' = "exited"
    BY <1>3 DEF AnswerMissing, AnswerLost
  <2> QED BY <1>1, <2>1, QuietServe DEF Serving
<1>4. CASE AnswerDir
  <2>1. /\ pc' \in {"wait", "batch"} /\ conn'[cur] = "closed"
        /\ \A c \in Clients : c # cur => conn'[c] = conn[c]
        /\ heads'[cur] \in {0, 1}
        /\ \A c \in Clients : c # cur => heads'[c] = heads[c]
    BY <1>2, <1>4 DEF AnswerDir, Disconnect, Loop, TypeOK
  <2>2. BatchOpen' /\ CurOpen' /\ FileSent'
    BY <1>1, <1>2, <2>1 DEF ServeInv, BatchOpen, CurOpen, FileSent, Serving,
                            TypeOK
  <2>3. Answered'
    BY <1>1, <1>2, <2>1 DEF ServeInv, Answered, Down
  <2>4. BodyInOrder'
    BY <1>1, <1>2, <2>1 DEF ServeInv, BodyInOrder
  <2> QED BY <2>2, <2>3, <2>4 DEF ServeInv
<1>5. CASE AnswerFile
  <2>1. /\ pc' = "send" /\ pos' = 0 /\ conn' = conn
        /\ heads'[cur] = 1
        /\ \A c \in Clients : c # cur => heads'[c] = heads[c]
    BY <1>2, <1>5 DEF AnswerFile, TypeOK
  <2>2. BatchOpen' /\ CurOpen'
    BY <1>1, <1>2, <2>1 DEF ServeInv, BatchOpen, CurOpen, Serving
  <2>3. FileSent'
    <3>1. Len(<<>>) = 0
      OBVIOUS
    <3> QED BY <1>1, <1>2, <2>1, <3>1 DEF FileSent
  <2>4. Answered'
    BY <1>1, <1>2, <2>1 DEF ServeInv, Answered, Down
  <2>5. BodyInOrder'
    BY <1>1, <2>1 DEF ServeInv, BodyInOrder
  <2> QED BY <2>2, <2>3, <2>4, <2>5 DEF ServeInv
<1> QED BY <1>3, <1>4, <1>5

LEMMA SendServe ==
  ASSUME TypeOK, ServeInv, SendChunk \/ SendError \/ SendDone
  PROVE  ServeInv'
<1>1. UNCHANGED <<cur, batch, nonblock, heads>> /\ pc = "send"
  BY DEF SendChunk, SendError, SendDone, Sending
<1>2. /\ cur \in Clients /\ conn[cur] = "open" /\ cur \notin batch /\ ~Down
      /\ heads[cur] = 1
  BY <1>1 DEF ServeInv, CurOpen, Serving, FileSent, Down
<1>3. CASE SendChunk
  <2> DEFINE b == body[cur]
             sends == [k \in 1..Taken |-> pos + k]
  <2>1. /\ UNCHANGED <<pc, conn>> /\ pos < FileLen /\ pos' = pos + ReadLen
        /\ body'[cur] = b \o sends
        /\ \A c \in Clients : c # cur => body'[c] = body[c]
        /\ nonblock[cur] \/ ReadLen <= Room(cur)
    BY <1>2, <1>3 DEF SendChunk, NextPos, TypeOK
  <2>2. /\ Taken \in Nat /\ ReadLen \in Nat /\ Taken <= ReadLen /\ pos \in Nat
        /\ ReadLen <= Room(cur) => Taken = ReadLen
    BY <1>1, <1>2, <2>1, ChunkFacts DEF TypeOK
  <2>3. b \in Seq(Int) /\ sends \in Seq(Int) /\ Len(sends) = Taken
    <3>1. b \in Seq(1..FileLen) /\ 1..FileLen \subseteq Int
      BY <1>2 DEF TypeOK
    <3>2. b \in Seq(Int)
      BY <3>1, SeqMonotonic
    <3> QED BY <2>2, <3>2
  <2>a. \A j \in 1..Taken : sends[j] = pos + j
    OBVIOUS
  <2> HIDE DEF b, sends
  <2>4. Len(b) \in Nat /\ \A k \in 1..Len(b) : b[k] \in Int /\ b[k] <= pos
    BY <1>1, <2>3, LenProperties DEF ServeInv, FileSent, b
  <2>5. /\ Len(b \o sends) = Len(b) + Taken
        /\ \A k \in 1..Len(b) + Taken :
             (b \o sends)[k] = IF k <= Len(b) THEN b[k] ELSE sends[k - Len(b)]
    BY <2>3, ConcatProperties
  <2>6. ASSUME NEW k \in 1..Len(b) + Taken
        PROVE  body'[cur][k] = IF k <= Len(b) THEN b[k] ELSE pos + (k - Len(b))
    <3>1. ~(k <= Len(b)) => k - Len(b) \in 1..Taken
      BY <2>2, <2>4
    <3> QED BY <2>1, <2>5, <2>a, <3>1
  <2>7. FileSent'
    <3>1. ASSUME NEW k \in 1..Len(b) + Taken PROVE body'[cur][k] <= pos'
      <4>1. CASE k <= Len(b)
        <5>1. k \in 1..Len(b)
          BY <2>2, <2>4, <4>1
        <5>2. body'[cur][k] = b[k] /\ b[k] <= pos /\ b[k] \in Int
          BY <2>4, <2>6, <4>1, <5>1
        <5> QED BY <2>1, <2>2, <5>2
      <4>2. CASE ~(k <= Len(b))
        <5>1. body'[cur][k] = pos + (k - Len(b))
          BY <2>6, <4>2
        <5> QED BY <2>1, <2>2, <2>4, <5>1
      <4> QED BY <4>1, <4>2
    <3>2. ~nonblock[cur] => Len(b) + Taken = pos'
      BY <1>1, <2>1, <2>2, <2>4 DEF ServeInv, FileSent, b
    <3> QED BY <1>1, <1>2, <2>1, <2>5, <3>1, <3>2 DEF FileSent
  <2>8. BodyInOrder'
    <3>1. ASSUME NEW k \in 1..(Len(b) + Taken) - 1
          PROVE  body'[cur][k] < body'[cur][k + 1]
      <4>1. /\ k \in 1..Len(b) + Taken /\ k + 1 \in 1..Len(b) + Taken
            /\ k \in Nat
        BY <2>2, <2>4
      <4>2. CASE k + 1 <= Len(b)
        <5>1. k \in 1..Len(b) - 1 /\ k <= Len(b)
          BY <2>4, <4>1, <4>2
        <5>2. b[k] < b[k + 1]
          BY <1>2, <5>1 DEF ServeInv, BodyInOrder, b
        <5> QED BY <2>6, <4>1, <4>2, <5>1, <5>2
      <4>3. CASE k = Len(b)
        <5>1. body'[cur][k] = b[k] /\ b[k] <= pos /\ b[k] \in Int
          BY <2>4, <2>6, <4>1, <4>3
        <5>2. ~(k + 1 <= Len(b)) /\ pos + ((k + 1) - Len(b)) = pos + 1
          BY <2>2, <2>4, <4>1, <4>3
        <5>3. body'[cur][k + 1] = pos + 1
          BY <2>6, <4>1, <5>2
        <5> QED BY <2>2, <5>1, <5>3
      <4>4. CASE k > Len(b)
        <5>1. /\ ~(k <= Len(b)) /\ ~(k + 1 <= Len(b))
              /\ pos + (k - Len(b)) < pos + ((k + 1) - Len(b))
          BY <2>2, <2>4, <4>1, <4>4
        <5>2. body'[cur][k] = pos + (k - Len(b))
          BY <2>6, <4>1, <5>1
        <5>3. body'[cur][k + 1] = pos + ((k + 1) - Len(b))
          BY <2>6, <4>1, <5>1
        <5> QED BY <5>1, <5>2, <5>3
      <4> QED BY <2>4, <4>1, <4>2, <4>3, <4>4
    <3>2. \A k \in 1..Len(body'[cur]) - 1 : body'[cur][k] < body'[cur][k + 1]
      BY <2>1, <2>5, <3>1
    <3> QED BY <1>1, <1>2, <2>1, <3>2 DEF ServeInv, BodyInOrder
  <2>9. BatchOpen' /\ CurOpen'
    BY <1>1, <1>2, <2>1 DEF ServeInv, BatchOpen, CurOpen, Serving
  <2>10. Answered'
    BY <1>1, <1>2, <2>1 DEF ServeInv, Answered, Down
  <2> QED BY <2>7, <2>8, <2>9, <2>10 DEF ServeInv
<1>4. CASE SendError
  <2>1. pc' = "exited" /\ UNCHANGED <<conn, body>>
    BY <1>4 DEF SendError
  <2>2. BatchOpen' /\ CurOpen' /\ FileSent' /\ BodyInOrder'
    BY <1>1, <2>1 DEF ServeInv, BatchOpen, CurOpen, Serving, FileSent,
                      BodyInOrder
  <2>3. Answered'
    BY <1>1, <1>2, <2>1 DEF ServeInv, Answered, Down
  <2> QED BY <2>2, <2>3 DEF ServeInv
<1>5. CASE SendDone
  <2>1. /\ pc' \in {"wait", "batch"} /\ UNCHANGED body /\ conn'[cur] = "closed"
        /\ \A c \in Clients : c # cur => conn'[c] = conn[c]
        /\ pos = FileLen
    <3>1. pos = FileLen
      BY <1>5, HttpAssumption DEF SendDone, TypeOK
    <3> QED BY <1>2, <1>5, <3>1 DEF SendDone, Disconnect, Loop, TypeOK
  <2>2. BatchOpen' /\ CurOpen' /\ FileSent'
    BY <1>1, <1>2, <2>1 DEF ServeInv, BatchOpen, CurOpen, Serving, FileSent,
                            TypeOK
  <2>3. Answered'
    BY <1>1, <1>2, <2>1 DEF ServeInv, Answered, Down
  <2>4. BodyInOrder'
    BY <1>1, <1>2, <2>1 DEF ServeInv, FileSent, BodyInOrder
  <2> QED BY <2>2, <2>3, <2>4 DEF ServeInv
<1> QED BY <1>3, <1>4, <1>5

LEMMA LoopServe ==
  ASSUME TypeOK, ServeInv, EpollWait \/ DoAccept \/ DoRead \/ AcceptFails
  PROVE  ServeInv'
<1>1. UNCHANGED <<heads, body>> /\ pc \in {"wait", "batch"} /\ pc' # "send"
  BY DEF EpollWait, DoAccept, DoRead, AcceptFails, Loop
<1>2. \A c \in Clients : \/ heads[c] = 0 /\ body[c] = <<>>
                         \/ heads[c] = 1 /\ conn[c] = "closed"
  BY <1>1 DEF ServeInv, Answered, Down
<1>3. FileSent'
  BY <1>1 DEF FileSent
<1>4. CASE EpollWait
  <2>1. UNCHANGED <<conn, nonblock>> /\ pc' \in {"wait", "batch"}
        /\ \A c \in batch' \ {NoClient} : conn[c] = "open"
    BY <1>4 DEF EpollWait, Reported, Loop
  <2>2. BatchOpen' /\ CurOpen' /\ Answered' /\ BodyInOrder'
    BY <1>1, <1>2, <2>1 DEF BatchOpen, CurOpen, Serving, Answered, ServeInv,
                            BodyInOrder
  <2> QED BY <1>3, <2>2 DEF ServeInv
<1>5. CASE DoAccept
  <2>1. PICK c \in Clients, nb \in BOOLEAN :
          /\ conn[c] = "queued" /\ conn' = [conn EXCEPT ![c] = "open"]
          /\ nonblock' = [nonblock EXCEPT ![c] = nb]
    BY <1>5 DEF DoAccept, NonblockAfterAccept
  <2>2. /\ batch' = batch \ {NoClient} /\ pc' \in {"wait", "batch"}
    BY <1>5 DEF DoAccept, Loop
  <2>3. /\ conn'[c] = "open" /\ body[c] = <<>> /\ heads[c] = 0
        /\ \A d \in Clients : d # c => /\ conn'[d] = conn[d]
                                       /\ nonblock'[d] = nonblock[d]
    BY <1>2, <2>1 DEF TypeOK
  <2>4. BatchOpen' /\ CurOpen'
    BY <2>2, <2>3 DEF BatchOpen, CurOpen, Serving, ServeInv, TypeOK
  <2>5. Answered'
    BY <1>1, <1>2, <2>3 DEF Answered
  <2>6. BodyInOrder'
    BY <1>1, <2>3 DEF ServeInv, BodyInOrder
  <2> QED BY <1>3, <2>4, <2>5, <2>6 DEF ServeInv
<1>6. CASE DoRead
  <2>1. PICK c \in batch \ {NoClient} : cur' = c /\ batch' = batch \ {c}
    BY <1>6 DEF DoRead
  <2>2. UNCHANGED <<conn, nonblock>> /\ pc' = "line"
    BY <1>6 DEF DoRead
  <2>3. BatchOpen' /\ CurOpen'
    BY <2>1, <2>2 DEF BatchOpen, CurOpen, ServeInv, TypeOK
  <2>4. Answered' /\ BodyInOrder'
    BY <1>1, <1>2, <2>2 DEF Answered, ServeInv, BodyInOrder
  <2> QED BY <1>3, <2>3, <2>4 DEF ServeInv
<1>7. CASE AcceptFails
  <2>1. UNCHANGED <<conn, nonblock, batch>> /\ pc' = "exited"
    BY <1>7 DEF AcceptFails
  <2>2. BatchOpen' /\ CurOpen' /\ Answered' /\ BodyInOrder'
    BY <1>1, <1>2, <2>1 DEF BatchOpen, CurOpen, Serving, Answered, ServeInv,
                            BodyInOrder
  <2> QED BY <1>3, <2>2 DEF ServeInv
<1> QED BY <1>4, <1>5, <1>6, <1>7

LEMMA ClientServe ==
  ASSUME TypeOK, ServeInv, NEW c \in Clients, Client(c) \/ Leave(c)
  PROVE  ServeInv'
<1>1. UNCHANGED <<pc, cur, pos, batch, nonblock, heads, body>> /\ ~Down
  BY DEF Client, Connect, SendSegment, ReadBody, Leave, ClientMove, serverVars
<1>2. conn' = conn \/ (conn[c] = "new" /\ conn' = [conn EXCEPT ![c] = "queued"])
  BY DEF Client, Connect, SendSegment, ReadBody, Leave
<1>3. \A d \in Clients : \/ conn'[d] = conn[d]
                         \/ conn[d] = "new" /\ conn'[d] = "queued"
  BY <1>2 DEF TypeOK
<1>4. BatchOpen' /\ CurOpen'
  BY <1>1, <1>3 DEF ServeInv, BatchOpen, CurOpen, Serving, TypeOK
<1>5. Answered'
  BY <1>1, <1>3 DEF ServeInv, Answered, Down
<1>6. FileSent'
  BY <1>1 DEF ServeInv, FileSent
<1>7. BodyInOrder'
  <2>1. \A d \in Clients : conn'[d] = "closed" => conn[d] = "closed"
    BY <1>3
  <2> QED BY <1>1, <2>1 DEF ServeInv, BodyInOrder
<1> QED BY <1>4, <1>5, <1>6, <1>7 DEF ServeInv

LEMMA ServeInvariant == Spec => []ServeInv
<1>1. TypeOK /\ ServeInv /\ [Next]_vars => ServeInv'
  <2> SUFFICES ASSUME TypeOK, ServeInv, [Next]_vars PROVE ServeInv'
    OBVIOUS
  <2>1. CASE UNCHANGED vars
    BY <2>1 DEF vars, clientVars, serverVars, ServeInv, BatchOpen, CurOpen,
                Serving, Answered, FileSent, BodyInOrder, Down
  <2>2. CASE Next
    BY <2>1, <2>2, ReadServe, AnswerServe, SendServe, LoopServe, ClientServe
       DEF Next, Server, Stopped
  <2> QED BY <2>1, <2>2
<1> QED BY <1>1, InitServe, TypeCorrect, PTL DEF Spec

\* Whatever the clients send and however their events are batched, each
\* connection is answered at most once, and closed before the loop goes on.
THEOREM AnsweredOnce == Spec => []OneAnswer
<1>1. ServeInv => OneAnswer
  <2> SUFFICES ASSUME ServeInv, NEW c \in Clients
               PROVE  /\ heads[c] <= 1
                      /\ heads[c] = 1 /\ conn[c] = "open" =>
                           Down \/ (pc = "send" /\ cur = c)
    BY DEF OneAnswer
  <2>1. CASE heads[c] = 0
    BY <2>1
  <2>2. CASE heads[c] = 1 /\ (conn[c] = "closed" \/ Down
                               \/ (pc = "send" /\ cur = c))
    BY <2>2
  <2> QED BY <2>1, <2>2 DEF ServeInv, Answered
<1> QED BY <1>1, ServeInvariant, PTL

\* For every length of the file, of a chunk and of the socket buffer, what a
\* client gets of the file is in order, and all of it where the descriptor was
\* left blocking.
THEOREM BodyOrdered == Spec => []BodyInOrder
<1>1. ServeInv => BodyInOrder
  BY DEF ServeInv
<1> QED BY <1>1, ServeInvariant, PTL

=============================================================================
