------------------------------ MODULE Streams -------------------------------
(***************************************************************************)
(* Programs where one process writes and another reads:                    *)
(*   "level"  1-epoll/server.c, a pipe under epoll, half of it at a time;  *)
(*   "edge"   3-nonblock_epoll, a socket under edge-triggered epoll;       *)
(*   "pipe"   pipe.c, one write and one read;                              *)
(*   "exec"   pipe_exec.c, ls into wc;                                     *)
(*   "fifo"   fifo_w.c and fifo_r.c;                                       *)
(*   "event"  libevent's write_fifo.c and read_fifo.c;                     *)
(*   "once"   mywrite.c and myread.c, which do not block.                  *)
(* A unit is what the smaller read takes: MAXLINE/2, a line, a message.    *)
(***************************************************************************)
EXTENDS Integers

CONSTANT Units  \* bound: what the writer writes
StreamsAssumption == Units \in Nat \ {0} /\ Units % 2 = 0

Pipes == {"level", "pipe", "exec"}
Fifos == {"fifo", "event", "once"}

VARIABLES
  prog,
  fifo,        \* the file: none, old (of an earlier run), new
  writer,      \* start, opening, run, ended
  reader,      \* start, opening, wait, drain, ended
  opened,      \* the file the writer has open: none, old, new
  writeEnds,   \* who has the write end
  written,
  consumed,    \* what has been read; of messages read together, read_fifo.c and
               \* myread.c print the first
  edge         \* epoll has something new to report

vars == <<prog, fifo, writer, reader, opened, writeEnds, written, consumed,
          edge>>

\* After fork both have both ends of a pipe; a socket is connected and accepted.
Init ==
  /\ prog \in Pipes \union Fifos \union {"edge"}
  /\ fifo \in IF prog \in Fifos THEN {"none", "old"} ELSE {"none"}
  /\ writer = IF prog \in Fifos THEN "start" ELSE "run"
  /\ reader = "start"
  /\ opened = "none"
  /\ writeEnds = CASE prog \in Pipes -> {"writer", "reader"}
                   [] prog = "edge" -> {"writer"}
                   [] OTHER -> {}
  /\ written = 0 /\ consumed = 0 /\ edge = FALSE

-----------------------------------------------------------------------------
(* FIFOs: mkfifo and open *)

Opening == UNCHANGED <<prog, written, consumed, edge>>

\* fifo_w.c makes the file and gives up if there is one.
MakeFifo == /\ prog = "fifo" /\ writer = "start" /\ Opening
            /\ writer' = IF fifo = "none" THEN "opening" ELSE "ended"
            /\ fifo' = IF fifo = "none" THEN "new" ELSE fifo
            /\ opened' = IF fifo = "none" THEN "new" ELSE opened
            /\ UNCHANGED <<reader, writeEnds>>

\* read_fifo.c and myread.c remove the file and make another; myread.c does
\* not wait for a writer.
RemakeFifo == /\ prog \in {"event", "once"} /\ reader = "start" /\ Opening
              /\ fifo' = "new"
              /\ reader' = IF prog = "once" THEN "wait" ELSE "opening"
              /\ UNCHANGED <<writer, opened, writeEnds>>

\* The other side gives up without the file; mywrite.c without a reader too.
OpenWrite ==
  /\ prog \in {"event", "once"} /\ writer = "start" /\ Opening
  /\ LET Fails == fifo = "none" \/ (prog = "once" /\ fifo = "old") IN
     /\ writer' = IF Fails THEN "ended"
                  ELSE IF prog = "once" THEN "run" ELSE "opening"
     /\ opened' = IF Fails THEN "none" ELSE fifo
     /\ writeEnds' = IF writer' = "run" THEN {"writer"} ELSE writeEnds
  /\ UNCHANGED <<fifo, reader>>

OpenRead == /\ prog = "fifo" /\ reader = "start" /\ Opening
            /\ reader' = IF fifo = "none" THEN "ended" ELSE "opening"
            /\ UNCHANGED <<fifo, writer, opened, writeEnds>>

\* Each open waits for the other one, of the same file.
Meet == /\ writer = "opening" /\ reader = "opening" /\ opened = fifo /\ Opening
        /\ writer' = "run" /\ reader' = "wait" /\ writeEnds' = {"writer"}
        /\ UNCHANGED <<fifo, opened>>

-----------------------------------------------------------------------------
(* The writer *)

\* Two lines at once in the epoll programs.
Batch == IF prog \in {"level", "edge"} THEN 2 ELSE 1

\* What pipe.c and mywrite.c write in all, and ls; the others go on for ever.
Finite == prog \in {"pipe", "exec", "once"}
Goal == IF prog \in {"pipe", "once"} THEN 1 ELSE Units

Write == /\ writer = "run" /\ written < Goal
         /\ written' = written + Batch /\ edge' = TRUE
         /\ UNCHANGED <<prog, fifo, writer, reader, opened, writeEnds,
                        consumed>>

\* The end of the program; the others are interrupted.
WriterEnds == /\ writer = "run" /\ (Finite => written = Goal)
              /\ writer' = "ended" /\ writeEnds' = writeEnds \ {"writer"}
              /\ edge' = TRUE
              /\ UNCHANGED <<prog, fifo, reader, opened, written, consumed>>

-----------------------------------------------------------------------------
(* The reader *)

\* The reader of a pipe closes the end it does not use.
ReaderStarts == /\ prog \notin Fifos /\ reader = "start"
                /\ reader' = "wait" /\ writeEnds' = writeEnds \ {"reader"}
                /\ UNCHANGED <<prog, fifo, writer, opened, written, consumed,
                               edge>>

InPipe == written - consumed
AtEnd == writeEnds = {} /\ (prog \in Fifos => opened # "none")

\* What one read takes.
Takes == IF prog \in {"level", "edge"} THEN 1 ELSE InPipe

\* A read blocks, or epoll and libevent wait, until there is something; a read
\* of the end of the file shows nothing. wc ends with it, pipe.c after any.
Read ==
  /\ reader = "wait" /\ prog # "edge"
  /\ InPipe > 0 \/ AtEnd
  /\ consumed' = consumed + IF InPipe > 0 THEN Takes ELSE 0
  /\ reader' = IF prog = "pipe" \/ (prog = "exec" /\ InPipe = 0)
               THEN "ended" ELSE "wait"
  /\ UNCHANGED <<prog, fifo, writer, opened, writeEnds, written, edge>>

\* Edge-triggered: reported once for what has come since.
EdgeWait == /\ reader = "wait" /\ prog = "edge" /\ edge
            /\ edge' = FALSE /\ reader' = "drain"
            /\ UNCHANGED <<prog, fifo, writer, opened, writeEnds, written,
                           consumed>>

\* Mutant: one read for each report.
ReadsOnce == "wait"
ReadsOn == "drain"

Drain == /\ reader = "drain"
         /\ IF InPipe > 0 THEN consumed' = consumed + Takes /\ reader' = ReadsOn
            ELSE reader' = "wait" /\ UNCHANGED consumed
         /\ UNCHANGED <<prog, fifo, writer, opened, writeEnds, written, edge>>

-----------------------------------------------------------------------------
Opens == MakeFifo \/ RemakeFifo \/ OpenWrite \/ OpenRead \/ Meet
Reader == ReaderStarts \/ Read \/ EdgeWait \/ Drain

Next == Opens \/ Write \/ WriterEnds \/ Reader

Fairness == /\ WF_vars(Opens) /\ WF_vars(Reader) /\ WF_vars(Write)
            /\ WF_vars(WriterEnds /\ Finite)
Spec == Init /\ [][Next]_vars /\ Fairness

-----------------------------------------------------------------------------
(* Properties *)

TypeOK ==
  /\ prog \in Pipes \union Fifos \union {"edge"}
  /\ fifo \in {"none", "old", "new"} /\ opened \in {"none", "old", "new"}
  /\ writer \in {"start", "opening", "run", "ended"}
  /\ reader \in {"start", "opening", "wait", "drain", "ended"}
  /\ writeEnds \subseteq {"writer", "reader"}
  /\ written \in 0..Units /\ consumed \in 0..written /\ edge \in BOOLEAN

\* Everything written is read, in halves or at once, however often epoll
\* reports it (1-epoll 51-58, 3-nonblock_epoll 57-66); the readers of pipe.c and
\* of ls see the end of it; and who waits to open a FIFO meets the other side,
\* unless the writer has one that the reader replaced.
Begun(k) == CASE k \in 1..Units -> written >= k
              [] k = Units + 1 -> prog \in {"pipe", "exec"}
              [] k = Units + 2 -> writer = "opening" /\ reader = "opening"
Done(k) == CASE k \in 1..Units -> consumed >= k
             [] k = Units + 1 -> reader = "ended"
             [] k = Units + 2 -> writer \in {"run", "ended"} \/ opened # fifo
AllConsumed == \A k \in 1..Units + 2 : Begun(k) ~> Done(k)

=============================================================================
