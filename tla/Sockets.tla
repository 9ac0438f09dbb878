------------------------------ MODULE Sockets ------------------------------
(***************************************************************************)
(* What the echo servers of tcp_socket have in common: their clients, the  *)
(* kernel's side of a connection, and the calls of wrap.c they make on it. *)
(* A client of Lockstep is client.c: it sends a line and waits for the     *)
(* answer, and closes after the last. Others send and leave as they like.  *)
(***************************************************************************)
EXTENDS Integers, Sequences

CONSTANTS
  Clients,     \* the clients, one connection each
  NoClient,
  Lockstep,    \* those that run client.c
  Units,       \* how many units of data each has to send
  Departures,  \* how the others may leave: "shut", "closed", "reset"
  BufLen       \* units the server's buffer holds

SocketAssumption ==
  /\ NoClient \notin Clients /\ Lockstep \subseteq Clients
  /\ Units \in [Clients -> Nat] /\ BufLen \in Nat \ {0}
  /\ Departures \in [Clients -> SUBSET {"shut", "closed", "reset"}]

VARIABLES
  conn,        \* new, queued, open, closed, per client
  peer,        \* up; shut: its side ended; closed: no more listening;
               \* broken: closed and answered by a reset; reset; gone: reset
               \* and reported
  input,       \* units received and not read
  sent,        \* units a client has sent
  echo         \* units a client has received

socketVars == <<conn, peer, input, sent, echo>>

SocketInit ==
  /\ conn = [c \in Clients |-> "new"] /\ peer = [c \in Clients |-> "up"]
  /\ input = [c \in Clients |-> <<>>] /\ echo = [c \in Clients |-> <<>>]
  /\ sent = [c \in Clients |-> 0]

SocketTypeOK ==
  /\ conn \in [Clients -> {"new", "queued", "open", "closed"}]
  /\ peer \in [Clients -> {"up", "shut", "closed", "broken", "reset", "gone"}]
  /\ sent \in [Clients -> Nat] /\ \A c \in Clients : sent[c] <= Units[c]
  /\ input \in [Clients -> Seq(Clients \X Nat)]
  /\ echo \in [Clients -> Seq(Clients \X Nat)]

-----------------------------------------------------------------------------
(* The clients *)

Connect(c) == /\ conn[c] = "new"
              /\ conn' = [conn EXCEPT ![c] = "queued"]
              /\ UNCHANGED <<peer, input, sent, echo>>

Present(c) == conn[c] \in {"queued", "open"} /\ peer[c] = "up"
Answered(c) == Len(echo[c]) = sent[c]

Send(c) == /\ Present(c) /\ sent[c] < Units[c]
           /\ c \in Lockstep => Answered(c)
           /\ sent' = [sent EXCEPT ![c] = @ + 1]
           /\ input' = [input EXCEPT ![c] = Append(@, <<c, sent'[c]>>)]
           /\ UNCHANGED <<conn, peer, echo>>

Finish(c) == /\ c \in Lockstep /\ Present(c)
             /\ sent[c] = Units[c] /\ Answered(c)
             /\ peer' = [peer EXCEPT ![c] = "closed"]
             /\ UNCHANGED <<conn, input, sent, echo>>

Leave(c) == /\ c \notin Lockstep /\ Present(c)
            /\ \E how \in Departures[c] : peer' = [peer EXCEPT ![c] = how]
            /\ UNCHANGED <<conn, input, sent, echo>>

-----------------------------------------------------------------------------
(* The kernel and the calls of wrap.c *)

Readable(c) == input[c] # <<>> \/ peer[c] # "up"

\* Both directions are down: reported beside the data, asked for or not.
HungUp(c) == peer[c] \in {"broken", "reset", "gone"}

Taken(c) == IF Len(input[c]) < BufLen THEN Len(input[c]) ELSE BufLen

\* Read blocks until there is something to say: data, then, once, the error of
\* a reset, then the end of the file.
ReadReturns(c) == Readable(c)
ReadResult(c) == IF input[c] # <<>> THEN Taken(c)
                 ELSE IF peer[c] = "reset" THEN -1 ELSE 0
ReadEffect(c) ==
  /\ input' = [input EXCEPT ![c] = SubSeq(@, Taken(c) + 1, Len(@))]
  /\ peer' = [peer EXCEPT ![c] = IF ReadResult(c) = -1 THEN "gone" ELSE @]

\* Write to a peer that is gone ends the process by SIGPIPE; the error of a
\* reset comes first if it has not been reported. A peer that has closed may
\* answer by a reset.
WriteKills(c) == peer[c] \in {"broken", "gone"}
WriteEffect(c, data) ==
  /\ peer' \in {[peer EXCEPT ![c] = p] :
                  p \in CASE peer[c] = "reset" -> {"gone"}
                          [] peer[c] = "closed" /\ data # <<>> ->
                               {"closed", "broken"}
                          [] OTHER -> {peer[c]}}
  /\ echo' = [echo EXCEPT ![c] =
                IF peer[c] \in {"up", "shut"} THEN @ \o data ELSE @]

\* A client gets back what it sent and nothing else, in order and nothing
\* twice, whatever other clients do and however descriptors are used again;
\* one that has only ended its side has got all of it when it is closed.
EchoWhole ==
  \A c \in Clients :
    /\ \A k \in DOMAIN echo[c] : echo[c][k] = <<c, k>>
    /\ conn[c] = "closed" /\ peer[c] = "shut" => Len(echo[c]) = sent[c]

=============================================================================
