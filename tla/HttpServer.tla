----------------------------- MODULE HttpServer -----------------------------
(***************************************************************************)
(* The two HTTP servers of http_server_BS, myhttpd.c and server.c: one     *)
(* thread, an edge-triggered epoll set, and do_read, which reads a request *)
(* line by line from a descriptor that may have no more to give, answers   *)
(* it with a file and disconnects. The two differ in what they do with a   *)
(* failed call; prog says which of them runs.                              *)
(*                                                                         *)
(* Input is a sequence of lines, each a token; only the line "half", the   *)
(* beginning of a request line, is not ended. A step is one get_line, one  *)
(* send of send_file, or one call of the loop.                             *)
(***************************************************************************)
EXTENDS Integers, Sequences

CONSTANTS
  Clients,       \* the clients, one connection each
  Programs,      \* which servers to look at: "myhttpd", "server"
  Scripts,       \* what each may send: sequences of segments of tokens
  WholeScripts,  \* those that are a GET request, its first line in one segment
  Departures,    \* how each may leave: "shut", "reset"
  NoClient,
  FileLen,       \* units in the file the clients ask for
  ChunkLen,      \* 4096 bytes of it, in units
  SendBuf        \* units the socket buffer of a connection holds

Tokens == {"get", "half", "rest", "missing", "dir", "post", "hdr", "blank"}

ASSUME HttpAssumption ==
  /\ NoClient \notin Clients
  /\ Programs \subseteq {"myhttpd", "server"}
  /\ Scripts \in [Clients -> SUBSET Seq(Seq(Tokens))]
  /\ Departures \in [Clients -> SUBSET {"shut", "reset"}]
  /\ {FileLen, ChunkLen, SendBuf} \subseteq Nat \ {0}
  /\ ChunkLen <= SendBuf

VARIABLES
  prog,          \* the server that runs
  pc,            \* wait, batch, line, headers, answer, send, exited
  batch,         \* all_events not yet looked at; NoClient is the listener
  cur,           \* the connection do_read is about
  req,           \* what the request line asks for
  pos,           \* send_file: units read from the file
  conn,          \* new, queued, open, closed, per client
  nonblock,      \* O_NONBLOCK of the connection's descriptor
  edge,          \* kernel: something happened since epoll_wait last said so
  input,         \* kernel: tokens received and not read
  sendq,         \* kernel: units sent and not read by the client
  peer,          \* the client's side: up, shut, reset; gone once that was seen
  script, sent,  \* the client's segments, and how many it has sent
  heads, body    \* history: status lines and units of the file sent

serverVars == <<cur, req, pos>>
clientVars == <<prog, script, sent>>
vars == <<clientVars, serverVars, pc, batch, conn, nonblock, edge, input,
          sendq, peer, heads, body>>

Init ==
  /\ prog \in Programs
  /\ pc = "wait" /\ batch = {} /\ cur = NoClient /\ req = "none" /\ pos = 0
  /\ conn = [c \in Clients |-> "new"]
  /\ nonblock = [c \in Clients |-> FALSE]
  /\ edge = [c \in Clients |-> FALSE]
  /\ input = [c \in Clients |-> <<>>]
  /\ sendq = [c \in Clients |-> 0]
  /\ peer = [c \in Clients |-> "up"]
  /\ script \in {f \in [Clients -> UNION {Scripts[c] : c \in Clients}] :
                  \A c \in Clients : f[c] \in Scripts[c]}
  /\ sent = [c \in Clients |-> 0]
  /\ heads = [c \in Clients |-> 0]
  /\ body = [c \in Clients |-> <<>>]

\* Where the loop goes on when an event has been handled.
Loop == IF batch' = {} THEN "wait" ELSE "batch"

-----------------------------------------------------------------------------
(* get_line                                                                 *)

Ended(q) == \E i \in DOMAIN q : q[i] # "half"
LineLen(q) == IF Ended(q)
              THEN CHOOSE i \in DOMAIN q :
                     q[i] # "half" /\ \A j \in 1..i - 1 : q[j] = "half"
              ELSE Len(q)

Line(c) == SubSeq(input[c], 1, LineLen(input[c]))

\* The end of the data is an error while there may be more (EAGAIN) and after
\* a reset, and else the end of the file: then what there is of a line counts.
LineResult(c) == IF Ended(input[c]) THEN 1
                 ELSE IF peer[c] \in {"up", "reset"} THEN -1
                 ELSE Len(input[c])

\* A blocking descriptor makes recv wait for the end of the line.
MustWait(c) == ~nonblock[c] /\ ~Ended(input[c]) /\ peer[c] = "up"

\* The error of a reset is reported once; after it recv returns 0.
GetLine(c) ==
  /\ ~MustWait(c)
  /\ input' = [input EXCEPT ![c] =
                 SubSeq(@, LineLen(@) + 1, Len(@))]
  /\ peer' = [peer EXCEPT ![c] =
                IF ~Ended(input[c]) /\ @ = "reset" THEN "gone" ELSE @]

-----------------------------------------------------------------------------
(* do_accept, disconnect                                                    *)

\* server.c calls fcntl without the flags (152): any may be set.
NonblockAfterAccept == IF prog = "myhttpd" THEN {TRUE} ELSE BOOLEAN

Readable(c) == input[c] # <<>> \/ peer[c] # "up"

\* A descriptor added to the epoll set is reported if it is readable already.
DoAccept ==
  /\ pc = "batch" /\ NoClient \in batch
  /\ batch' = batch \ {NoClient}
  /\ \E c \in Clients :
       /\ conn[c] = "queued"
       /\ conn' = [conn EXCEPT ![c] = "open"]
       /\ \E nb \in NonblockAfterAccept :
            nonblock' = [nonblock EXCEPT ![c] = nb]
       /\ edge' = [edge EXCEPT ![c] = Readable(c)]
  /\ pc' = Loop
  /\ UNCHANGED <<clientVars, serverVars, input, sendq, peer, heads, body>>

\* accept fails, for want of descriptors or memory.
AcceptFails ==
  /\ pc = "batch" /\ NoClient \in batch /\ pc' = "exited"
  /\ UNCHANGED <<clientVars, serverVars, batch, conn, nonblock, edge, input,
                 sendq, peer, heads, body>>

\* Mutant: the answered connection is left open.
DisconnectForgotten(c) == UNCHANGED <<conn, edge>>
Disconnect(c) == /\ conn' = [conn EXCEPT ![c] = "closed"]
                 /\ edge' = [edge EXCEPT ![c] = FALSE]

-----------------------------------------------------------------------------
(* do_read                                                                  *)

\* What a request line asks for. An unfinished one may end in its method, in
\* its path, which then names no file, or after it. Where method or path was not
\* scanned it has what the stack had: with nothing read, anything.
Asks(line) == IF line \in {<<>>, <<"half">>}
              THEN {"get", "missing", "dir", "other"}
              ELSE IF line = <<"half", "rest">> THEN {"get"}
              ELSE IF line \in {<<"get">>, <<"missing">>, <<"dir">>}
              THEN {line[1]}
              ELSE {"other"}

LineRead ==
  /\ pc = "line" /\ GetLine(cur)
  /\ UNCHANGED <<clientVars, batch, nonblock, sendq, heads, body, pos, cur>>

\* After an error with nothing read myhttpd.c goes on to the headers too, where
\* it finds the end of the file.
RequestLine ==
  /\ LineRead /\ LineResult(cur) # 0
  /\ prog = "server" => LineResult(cur) # -1
  /\ req' \in Asks(Line(cur))
  /\ pc' = "headers"
  /\ UNCHANGED <<conn, edge>>

\* server.c: an error of get_line ends the program, EAGAIN like any other.
RequestError ==
  /\ LineRead /\ prog = "server" /\ LineResult(cur) = -1
  /\ pc' = "exited"
  /\ UNCHANGED <<conn, edge, req>>

\* The client has closed. myhttpd.c goes on to compare method, which nothing
\* has set: if it reads as GET, the answer and the second disconnect go to a
\* closed descriptor, and whichever fails first ends the program (235-241).
ClientClosed ==
  /\ LineRead /\ LineResult(cur) = 0
  /\ Disconnect(cur)
  /\ pc' \in (IF prog = "myhttpd" THEN {Loop, "exited"} ELSE {Loop})
  /\ UNCHANGED req

\* Mutant: the empty line is taken for one more header.
EndOfHeadersOnError(c) == LineResult(c) = -1
EndOfHeaders(c) == Line(c) = <<"blank">> \/ LineResult(c) = -1

\* At the end of the file the length is 0 and the loop reads on.
HeaderLine ==
  /\ pc = "headers" /\ GetLine(cur) /\ UNCHANGED batch
  /\ pc' = IF ~EndOfHeaders(cur) THEN "headers"
           ELSE IF req = "other" THEN Loop ELSE "answer"
  /\ UNCHANGED <<clientVars, serverVars, conn, edge, nonblock, sendq, heads,
                 body>>

-----------------------------------------------------------------------------
(* http_request, send_respond, send_file                                    *)

Lost(c) == peer[c] \in {"reset", "gone"}

Answering == /\ pc = "answer"
             /\ UNCHANGED <<clientVars, cur, req, batch, nonblock, input,
                            sendq, peer, body>>

\* stat fails.
AnswerMissing ==
  /\ Answering /\ req = "missing"
  /\ pc' = "exited"
  /\ UNCHANGED <<pos, conn, edge, heads>>

\* Of a directory myhttpd.c sends nothing and server.c the head only.
AnswerDir ==
  /\ Answering /\ req = "dir" /\ (prog = "server" => ~Lost(cur))
  /\ heads' = [heads EXCEPT ![cur] = IF prog = "server" THEN @ + 1 ELSE @]
  /\ Disconnect(cur)
  /\ pc' = Loop
  /\ UNCHANGED pos

\* The sends of a head to a peer that has gone: SIGPIPE ends the program.
AnswerLost ==
  /\ Answering /\ Lost(cur)
  /\ req = "get" \/ (req = "dir" /\ prog = "server")
  /\ pc' = "exited"
  /\ UNCHANGED <<pos, conn, edge, heads>>

AnswerFile ==
  /\ Answering /\ req = "get" /\ ~Lost(cur)
  /\ heads' = [heads EXCEPT ![cur] = @ + 1]
  /\ pos' = 0
  /\ pc' = "send"
  /\ UNCHANGED <<conn, edge>>

\* Mutant: read returns a whole buffer at the end of the file.
ReadLenWhole == ChunkLen
\* Units read returns, and units of them that send takes.
ReadLen == IF FileLen - pos < ChunkLen THEN FileLen - pos ELSE ChunkLen
Room(c) == SendBuf - sendq[c]
Taken == IF ReadLen < Room(cur) THEN ReadLen ELSE Room(cur)

\* Mutant: the chunks overlap.
NextPosOverlap == IF ReadLen > 1 THEN pos + ReadLen - 1 ELSE pos + ReadLen
NextPos == pos + ReadLen

Sending == /\ pc = "send"
           /\ UNCHANGED <<clientVars, cur, req, batch, nonblock, input, peer,
                          heads>>

\* What send does not take is not sent again. A blocking one takes it all.
\* With no room, server.c goes on to the next chunk.
SendChunk ==
  /\ Sending /\ pos < FileLen /\ ~Lost(cur)
  /\ nonblock[cur] \/ ReadLen <= Room(cur)
  /\ prog = "server" \/ Room(cur) > 0
  /\ sendq' = [sendq EXCEPT ![cur] = @ + Taken]
  /\ body' = [body EXCEPT ![cur] = @ \o [k \in 1..Taken |-> pos + k]]
  /\ pos' = NextPos
  /\ UNCHANGED <<pc, conn, edge>>

\* With no room (myhttpd.c) or no peer, send's error ends the program, unless
\* SIGPIPE does.
SendError ==
  /\ Sending /\ pos < FileLen
  /\ Lost(cur) \/ (prog = "myhttpd" /\ Room(cur) = 0)
  /\ pc' = "exited"
  /\ UNCHANGED <<sendq, body, pos, conn, edge>>

SendDone ==
  /\ Sending /\ pos >= FileLen
  /\ Disconnect(cur)
  /\ pc' = Loop
  /\ UNCHANGED <<sendq, body, pos>>

-----------------------------------------------------------------------------
(* epoll_run                                                                *)

Reported == {c \in Clients : conn[c] = "open" /\ edge[c] /\ Readable(c)}

\* The timeout is 0: with nothing to report the loop calls again.
EpollWait ==
  /\ pc = "wait"
  /\ batch' = Reported \union
       (IF \E c \in Clients : conn[c] = "queued" THEN {NoClient} ELSE {})
  /\ edge' = [c \in Clients |-> edge[c] /\ c \notin Reported]
  /\ pc' = Loop
  /\ UNCHANGED <<clientVars, serverVars, conn, nonblock, input, sendq, peer,
                 heads, body>>

DoRead ==
  /\ pc = "batch"
  /\ \E c \in batch \ {NoClient} : cur' = c /\ batch' = batch \ {c}
  /\ pc' = "line"
  /\ UNCHANGED <<clientVars, req, pos, conn, nonblock, edge, input, sendq,
                 peer, heads, body>>

Server == \/ EpollWait \/ DoAccept \/ DoRead
          \/ RequestLine \/ RequestError \/ ClientClosed \/ HeaderLine
          \/ AnswerMissing \/ AnswerDir \/ AnswerLost \/ AnswerFile
          \/ SendChunk \/ SendError \/ SendDone

-----------------------------------------------------------------------------
(* The clients                                                              *)

Down == pc = "exited"

ClientMove ==
  /\ ~Down
  /\ UNCHANGED <<prog, script, serverVars, pc, batch, nonblock, heads, body>>

Connect(c) ==
  /\ conn[c] = "new" /\ ClientMove
  /\ conn' = [conn EXCEPT ![c] = "queued"]
  /\ UNCHANGED <<edge, input, sendq, peer, sent>>

Present(c) == conn[c] \in {"queued", "open"} /\ peer[c] = "up"

SendSegment(c) ==
  /\ Present(c) /\ sent[c] < Len(script[c]) /\ ClientMove
  /\ sent' = [sent EXCEPT ![c] = @ + 1]
  /\ input' = [input EXCEPT ![c] = @ \o script[c][sent'[c]]]
  /\ edge' = [edge EXCEPT ![c] = conn[c] = "open"]
  /\ UNCHANGED <<conn, sendq, peer>>

ReadBody(c) ==
  /\ conn[c] = "open" /\ peer[c] \in {"up", "shut"} /\ sendq[c] > 0
  /\ ClientMove
  /\ sendq' = [sendq EXCEPT ![c] = @ - 1]
  /\ UNCHANGED <<conn, edge, input, peer, sent>>

\* The client ends its side or resets the connection.
Leave(c) ==
  /\ Present(c) /\ ClientMove
  /\ \E how \in Departures[c] : peer' = [peer EXCEPT ![c] = how]
  /\ edge' = [edge EXCEPT ![c] = conn[c] = "open"]
  /\ UNCHANGED <<conn, input, sendq, sent>>

Client(c) == Connect(c) \/ SendSegment(c) \/ ReadBody(c)

Stopped == Down /\ UNCHANGED vars

Next == \/ Server
        \/ AcceptFails
        \/ \E c \in Clients : Client(c) \/ Leave(c)
        \/ Stopped

Spec == Init /\ [][Next]_vars

\* The server runs, and clients go on sending and reading what they have.
FairSpec == Spec /\ WF_vars(Server)
                 /\ \A c \in Clients : WF_vars(Client(c))

-----------------------------------------------------------------------------
(* Properties *)

TypeOK ==
  /\ prog \in Programs
  /\ pc \in {"wait", "batch", "line", "headers", "answer", "send", "exited"}
  /\ batch \subseteq Clients \union {NoClient}
  /\ cur \in Clients \union {NoClient}
  /\ req \in {"none", "get", "missing", "dir", "other"}
  /\ pos \in 0..FileLen
  /\ conn \in [Clients -> {"new", "queued", "open", "closed"}]
  /\ nonblock \in [Clients -> BOOLEAN] /\ edge \in [Clients -> BOOLEAN]
  /\ input \in [Clients -> Seq(Tokens)]
  /\ sendq \in [Clients -> 0..SendBuf]
  /\ peer \in [Clients -> {"up", "shut", "reset", "gone"}]
  /\ sent \in [Clients -> Nat]
  /\ \A c \in Clients : /\ script[c] \in Scripts[c]
                         /\ sent[c] \in 0..Len(script[c])
  /\ heads \in [Clients -> Nat] /\ body \in [Clients -> Seq(1..FileLen)]

\* A connection is answered at most once, and once answered is closed before
\* the loop looks at anything else, so no second request of it and no event
\* of the batch is served on it (235-242; 272-277 of server.c).
OneAnswer ==
  \A c \in Clients :
    /\ heads[c] <= 1
    /\ heads[c] = 1 /\ conn[c] = "open" =>
         Down \/ (pc = "send" /\ cur = c)

\* What a client gets of the file is in order, nothing twice; a descriptor
\* left blocking has got all of it when it is closed (send_file).
BodyInOrder ==
  \A c \in Clients :
    /\ \A k \in 1..Len(body[c]) - 1 : body[c][k] < body[c][k + 1]
    /\ conn[c] = "closed" /\ body[c] # <<>> /\ ~nonblock[c] =>
         Len(body[c]) = FileLen

\* An event that came before its connection was accepted, or while its batch
\* was handled, is not lost: as long as every client sends a whole request
\* and none leaves early, each accepted connection is closed in the end, or a
\* full socket or a failed accept ends the program.
Orderly == \A c \in Clients : peer[c] = "up" /\ script[c] \in WholeScripts
OrderlyServed ==
  \A c \in Clients : conn[c] = "open" ~> conn[c] = "closed" \/ Down \/ ~Orderly

\* The server notices that a client closed and disconnects it (217-218).
CloseNoticed ==
  \A c \in Clients :
    conn[c] = "open" /\ peer[c] = "shut" ~> conn[c] = "closed" \/ Down

=============================================================================
