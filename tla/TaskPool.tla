------------------------------ MODULE TaskPool ------------------------------
(***************************************************************************)
(* What threadpool.h promises a caller, with no thread, lock or condition  *)
(* variable in it: accepted tasks wait in the order in which they were     *)
(* accepted, in a queue of bounded length; at most MaxRunning of them run  *)
(* at a time; each runs once; closing the pool gives up the tasks that     *)
(* have not been started and accepts no other.                             *)
(***************************************************************************)
EXTENDS Sequences, FiniteSets, Naturals

CONSTANTS Task,        \* the tasks callers may submit, each at most once
          MaxPending,  \* length of the queue
          MaxRunning   \* how many tasks may be in progress

VARIABLES pending,     \* accepted and not started, oldest first
          running,     \* started and not finished
          finished,    \* finished
          open         \* threadpool_destroy has not been called

pvars == <<pending, running, finished, open>>

Known == {pending[i] : i \in DOMAIN pending} \union running \union finished

PInit == pending = <<>> /\ running = {} /\ finished = {} /\ open = TRUE

Submit(t) ==
  /\ open /\ t \notin Known /\ Len(pending) < MaxPending
  /\ pending' = Append(pending, t)
  /\ UNCHANGED <<running, finished, open>>

Start ==
  /\ open /\ pending # <<>> /\ Cardinality(running) < MaxRunning
  /\ running' = running \union {Head(pending)}
  /\ pending' = Tail(pending)
  /\ UNCHANGED <<finished, open>>

Finish(t) ==
  /\ t \in running
  /\ running' = running \ {t}
  /\ finished' = finished \union {t}
  /\ UNCHANGED <<pending, open>>

Close == open /\ open' = FALSE /\ UNCHANGED <<pending, running, finished>>

PNext == Start \/ Close \/ \E t \in Task : Submit(t) \/ Finish(t)

PSpec == PInit /\ [][PNext]_pvars

=============================================================================
