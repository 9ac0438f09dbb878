---------------------------- MODULE MCHttpServer ----------------------------
(* HttpServer with values for TLC: what clients send, in segments, and how   *)
(* they may leave.                                                           *)
EXTENDS HttpServer

CONSTANTS Polite,    \* the clients that send whole requests and stay
          Leavings   \* how the others may leave

\* A request with its first line whole; its headers may come later.
Whole == { << <<"get", "hdr", "blank">> >>,
           << <<"get">>, <<"blank">> >> }

\* Requests cut in the first line, for a directory, of another method, and
\* another method with a request after it. (Where a line is cut, in its method,
\* its path or later, is left to Asks.)
Other == { << <<"half">>, <<"rest", "blank">> >>,
           << <<"dir", "blank">> >>,
           << <<"post", "blank">>, <<"get", "blank">> >> }

MCScripts == [c \in Clients |-> IF c \in Polite THEN Whole
                                                ELSE Whole \union Other]
MCDepartures == [c \in Clients |-> IF c \in Polite THEN {} ELSE Leavings]

=============================================================================
