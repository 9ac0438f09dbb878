---------------------------- MODULE Bufferevents ----------------------------
(***************************************************************************)
(* ev_server.c and ev_client.c of libevent/bufferevent: a server that has  *)
(* the same answer to whatever it reads, and clients that send the lines   *)
(* of a terminal. An answer stands for the lines that were read with it,   *)
(* and is counted as so many.                                              *)
(***************************************************************************)
EXTENDS Naturals

CONSTANTS
  BevClients,  \* client processes
  Keys         \* bound: lines typed at each

BuffereventsAssumption == Keys \in Nat

VARIABLES
  user,        \* a client: start, up, freed (its bufferevent), gone, undefined
  served,      \* the server's bufferevent of it: none, queued, open, freed
  keys,        \* lines typed
  toServer,    \* lines sent and not read
  pending,     \* lines whose answer is in the bufferevent's output
  toClient,    \* lines whose answer is sent and not read
  shown,       \* lines whose answer is printed
  reset,       \* clients that left with an answer unread
  broken,      \* clients that left and have been written to since
  alive        \* the server

lines == <<keys, toServer, pending, toClient, shown>>
vars == <<user, served, lines, reset, broken, alive>>

Init ==
  /\ user = [c \in BevClients |-> "start"]
  /\ served = [c \in BevClients |-> "none"]
  /\ keys = [c \in BevClients |-> 0] /\ toServer = [c \in BevClients |-> 0]
  /\ pending = [c \in BevClients |-> 0] /\ toClient = [c \in BevClients |-> 0]
  /\ shown = [c \in BevClients |-> 0]
  /\ reset = {} /\ broken = {} /\ alive = TRUE

Becomes(c, state) == user' = [user EXCEPT ![c] = state]

-----------------------------------------------------------------------------
(* ev_client.c *)

\* On one host a connection is made, or refused, at once. Refused is an error:
\* event_cb frees the bufferevent.
Connect(c) ==
  /\ user[c] = "start"
  /\ IF alive
     THEN Becomes(c, "up") /\ served' = [served EXCEPT ![c] = "queued"]
     ELSE Becomes(c, "freed") /\ UNCHANGED served
  /\ UNCHANGED <<lines, reset, broken, alive>>

\* The event of the terminal is for good: freed or not, the bufferevent it was
\* made with is written to. The end of the terminal is a line as well, over
\* and over.
read_terminal(c) ==
  /\ keys[c] < Keys /\ keys' = [keys EXCEPT ![c] = @ + 1]
  /\ \/ /\ user[c] = "up"
        /\ toServer' = [toServer EXCEPT ![c] = IF alive THEN @ + 1 ELSE @]
        /\ UNCHANGED user
     \/ user[c] = "freed" /\ Becomes(c, "undefined") /\ UNCHANGED toServer
  /\ UNCHANGED <<served, pending, toClient, shown, reset, broken, alive>>

read_cb(c) ==
  /\ user[c] = "up" /\ toClient[c] > 0
  /\ shown' = [shown EXCEPT ![c] = @ + toClient[c]]
  /\ toClient' = [toClient EXCEPT ![c] = 0]
  /\ UNCHANGED <<user, served, keys, toServer, pending, reset, broken, alive>>

\* After what the server has sent, the end of it.
ClientEvent(c) ==
  /\ user[c] = "up" /\ toClient[c] = 0
  /\ ~alive \/ served[c] = "freed"
  /\ Becomes(c, "freed")
  /\ UNCHANGED <<served, lines, reset, broken, alive>>

\* The user ends the program: a reset, if an answer has not been read.
Interrupt(c) ==
  /\ user[c] \in {"up", "freed"} /\ Becomes(c, "gone")
  /\ reset' = IF user[c] = "up" /\ toClient[c] > 0 THEN reset \union {c}
              ELSE reset
  /\ toClient' = [toClient EXCEPT ![c] = 0]
  /\ UNCHANGED <<served, keys, toServer, pending, shown, broken, alive>>

-----------------------------------------------------------------------------
(* ev_server.c *)

listener_cb(c) ==
  /\ alive /\ served[c] = "queued"
  /\ served' = [served EXCEPT ![c] = "open"]
  /\ UNCHANGED <<user, lines, reset, broken, alive>>

\* libevent looks at a descriptor's output first, so there is none when input
\* is read. The bufferevent has an answer to what has come by then.
ServerRead(c) ==
  /\ alive /\ served[c] = "open" /\ pending[c] = 0 /\ toServer[c] > 0
  /\ pending' = [pending EXCEPT ![c] = toServer[c]]
  /\ toServer' = [toServer EXCEPT ![c] = 0]
  /\ UNCHANGED <<user, served, keys, toClient, shown, reset, broken, alive>>

\* A write to a client that has left is answered by a reset, and the one after
\* that is SIGPIPE, which nobody catches. After a reset of the client's it is an
\* error, and event_cb frees the bufferevent.
Output(c) ==
  /\ alive /\ served[c] = "open" /\ pending[c] > 0
  /\ pending' = [pending EXCEPT ![c] = 0]
  /\ IF user[c] = "up"
     THEN /\ toClient' = [toClient EXCEPT ![c] = @ + pending[c]]
          /\ UNCHANGED <<served, broken, alive>>
     ELSE /\ CASE c \in reset -> served' = [served EXCEPT ![c] = "freed"]
                                 /\ UNCHANGED <<broken, alive>>
               [] c \in broken -> alive' = FALSE
                                  /\ UNCHANGED <<served, broken>>
               [] OTHER -> broken' = broken \union {c}
                           /\ UNCHANGED <<served, alive>>
          /\ UNCHANGED toClient
  /\ UNCHANGED <<user, keys, toServer, shown, reset>>

ServerEvent(c) ==
  /\ alive /\ served[c] = "open" /\ pending[c] = 0 /\ toServer[c] = 0
  /\ user[c] = "gone"
  /\ served' = [served EXCEPT ![c] = "freed"]
  /\ UNCHANGED <<user, lines, reset, broken, alive>>

-----------------------------------------------------------------------------
Server == \E c \in BevClients :
            listener_cb(c) \/ ServerRead(c) \/ Output(c) \/ ServerEvent(c)
Dispatch == \E c \in BevClients : read_cb(c) \/ ClientEvent(c)

Next == \/ Server \/ Dispatch
        \/ \E c \in BevClients : Connect(c) \/ read_terminal(c) \/ Interrupt(c)

Fairness == WF_vars(Server) /\ WF_vars(Dispatch)
Spec == Init /\ [][Next]_vars /\ Fairness

-----------------------------------------------------------------------------
(* Properties *)

TypeOK ==
  /\ user \in [BevClients -> {"start", "up", "freed", "gone", "undefined"}]
  /\ served \in [BevClients -> {"none", "queued", "open", "freed"}]
  /\ {keys, toServer, pending, toClient, shown} \subseteq
       [BevClients -> 0..Keys]
  /\ reset \subseteq BevClients /\ broken \subseteq BevClients
  /\ alive \in BOOLEAN

\* The bufferevent of a client is freed, and its next line written to freed
\* memory (ev_client.c 42, 51), only once the server has ended; and the server
\* ends only of a client that left with two lines under way. No answer is for a
\* line that was not typed.
FreedWithServer ==
  /\ \A c \in BevClients : user[c] \in {"freed", "undefined"} => ~alive
  /\ ~alive => \E c \in broken : keys[c] > 1 /\ user[c] = "gone"
  /\ \A c \in BevClients :
       toServer[c] + pending[c] + toClient[c] + shown[c] <= keys[c]

\* Every line of a client that stays is answered while the server is there.
Owed(c) == user[c] = "up" /\ shown[c] < keys[c]
Settled(c) == user[c] # "up" \/ shown[c] = keys[c]
Answered == \A c \in BevClients : Owed(c) ~> Settled(c)

=============================================================================
