------------------------------ MODULE Datagrams -----------------------------
(***************************************************************************)
(* udp_socket: a server that answers datagrams and clients that send a     *)
(* line and wait. A client does not bind: its first sendto gives it a free *)
(* port, and recvfrom takes what comes to it from anybody. A datagram for  *)
(* a full buffer or a port of nobody is dropped, and no call says so.      *)
(***************************************************************************)
EXTENDS Integers, Sequences, FiniteSets

CONSTANTS
  UdpClients,  \* client processes
  Ports,       \* free ports of the host
  NoPort,
  Lines,       \* bound: what a user types
  Room         \* datagrams that fit in the server's receive buffer

DatagramsAssumption ==
  /\ NoPort \notin Ports /\ Lines \in Nat /\ Room \in Nat \ {0}
  /\ Cardinality(UdpClients) <= Cardinality(Ports)

VARIABLES
  at,          \* type (in fgets), wait (in recvfrom), ended
  port, typed,
  inbox,       \* the receive buffers of the clients' ports
  bound,       \* the server has its port
  queue,       \* its receive buffer
  work,        \* the datagram it handles, in a sequence of at most one
  answers,     \* history: what a user has seen
  lost,        \* history: users whose line was dropped
  heirs        \* history: users that got a port with a datagram under way

userVars == <<at, port, typed, answers, lost, heirs>>
serverVars == <<bound, queue, work>>
vars == <<userVars, inbox, serverVars>>

Init ==
  /\ at = [u \in UdpClients |-> "type"] /\ port = [u \in UdpClients |-> NoPort]
  /\ typed = [u \in UdpClients |-> 0] /\ inbox = [p \in Ports |-> <<>>]
  /\ bound = FALSE /\ queue = <<>> /\ work = <<>>
  /\ answers = [u \in UdpClients |-> <<>>] /\ lost = {} /\ heirs = {}

InUse == {port[u] : u \in UdpClients} \ {NoPort}
UnderWay == {(queue \o work)[k].to : k \in DOMAIN (queue \o work)}

-----------------------------------------------------------------------------
(* client.c *)

Sendto(u) ==
  /\ at[u] = "type" /\ typed[u] < Lines
  /\ port' \in {[port EXCEPT ![u] = p] :
                  p \in IF port[u] = NoPort THEN Ports \ InUse ELSE {port[u]}}
  /\ heirs' = IF port[u] = NoPort /\ port'[u] \in UnderWay
              THEN heirs \union {u} ELSE heirs
  /\ typed' = [typed EXCEPT ![u] = @ + 1] /\ at' = [at EXCEPT ![u] = "wait"]
  /\ IF bound /\ Len(queue) < Room
     THEN /\ queue' = Append(queue,
                             [to |-> port'[u], line |-> <<u, typed'[u]>>])
          /\ UNCHANGED lost
     ELSE lost' = lost \union {u} /\ UNCHANGED queue
  /\ UNCHANGED <<inbox, bound, work, answers>>

Recvfrom(u) ==
  /\ at[u] = "wait" /\ inbox[port[u]] # <<>>
  /\ answers' = [answers EXCEPT ![u] = Append(@, Head(inbox[port[u]]))]
  /\ inbox' = [inbox EXCEPT ![port[u]] = Tail(@)]
  /\ at' = [at EXCEPT ![u] = "type"]
  /\ UNCHANGED <<port, typed, lost, heirs, serverVars>>

\* The end of the input, or an interrupt; the socket goes with what it holds.
Close(u) ==
  /\ at[u] # "ended" /\ at' = [at EXCEPT ![u] = "ended"]
  /\ port' = [port EXCEPT ![u] = NoPort]
  /\ inbox' = [p \in Ports |-> IF p = port[u] THEN <<>> ELSE inbox[p]]
  /\ UNCHANGED <<typed, answers, lost, heirs, serverVars>>

-----------------------------------------------------------------------------
(* server.c *)

Bind == /\ ~bound /\ bound' = TRUE
        /\ UNCHANGED <<userVars, inbox, queue, work>>

Receive == /\ bound /\ work = <<>> /\ queue # <<>>
           /\ work' = <<Head(queue)>> /\ queue' = Tail(queue)
           /\ UNCHANGED <<userVars, inbox, bound>>

\* An answer that cannot be delivered is dropped or reported: the loop goes on.
Answer ==
  /\ work # <<>> /\ work' = <<>>
  /\ LET d == Head(work) IN
     inbox' = IF d.to \in InUse THEN [inbox EXCEPT ![d.to] = Append(@, d.line)]
              ELSE inbox
  /\ UNCHANGED <<userVars, bound, queue>>

-----------------------------------------------------------------------------
Server == Bind \/ Receive \/ Answer
Next == Server \/ \E u \in UdpClients : Sendto(u) \/ Recvfrom(u) \/ Close(u)

Fairness == WF_vars(Server) /\ \A u \in UdpClients : WF_vars(Recvfrom(u))
Spec == Init /\ [][Next]_vars /\ Fairness

-----------------------------------------------------------------------------
(* Properties *)

Answers == UdpClients \X (1..Lines)

TypeOK ==
  /\ at \in [UdpClients -> {"type", "wait", "ended"}]
  /\ port \in [UdpClients -> Ports \union {NoPort}]
  /\ typed \in [UdpClients -> 0..Lines]
  /\ inbox \in [Ports -> Seq(Answers)] /\ bound \in BOOLEAN
  /\ queue \in Seq([to : Ports, line : Answers]) /\ Len(queue) <= Room
  /\ Len(work) <= 1 /\ lost \subseteq UdpClients /\ heirs \subseteq UdpClients
  /\ answers \in [UdpClients -> Seq(Answers)]

\* What a user sees are the answers to its lines, in order and one for each,
\* though nothing in client.c (32) compares them: the port is its own as long as
\* it runs. Who inherits a port with a datagram under way is told another's.
AnswersOwn ==
  \A u \in UdpClients \ heirs :
    answers[u] = [k \in 1..Len(answers[u]) |-> <<u, k>>]

\* A user that waits is answered, or its line was dropped: neither program has a
\* timeout (client.c 29-34), and then it waits until it is interrupted.
Owed(u) == at[u] = "wait"
Settled(u) == at[u] # "wait" \/ u \in lost
Answered == \A u \in UdpClients : Owed(u) ~> Settled(u)

=============================================================================
