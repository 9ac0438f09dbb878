------------------------------ MODULE Children ------------------------------
(***************************************************************************)
(* Parents that fork several children and how they wait for them:          *)
(* catch_child.c in a handler of SIGCHLD, waitpid_while.c by polling with  *)
(* WNOHANG, numfork.c for one of them, kill_loopfork.c not at all: there   *)
(* one child goes round for ever and is killed at the end. Children are    *)
(* numbered from 1; what they do between fork and their end is left out.   *)
(***************************************************************************)
EXTENDS Integers, FiniteSets

CONSTANTS
  Count,       \* how many children: 5
  Chosen       \* the child numfork.c waits for (3), kill_loopfork.c kills (4)

ChildrenAssumption == Count \in Nat \ {0} /\ Chosen \in 1..Count

Programs == {"catch_child", "waitpid_while", "numfork", "kill_loopfork"}

VARIABLES
  prog,
  main,        \* fork, install, unblock, work, wait, kill, ended
  i,           \* the next child to fork, less one
  child,       \* none, run, zombie, reaped
  failed,      \* history: some fork failed
  handler, blocked, pending,  \* SIGCHLD
  handling     \* catch_child runs

signalVars == <<handler, blocked, pending, handling>>
vars == <<prog, main, i, child, failed, signalVars>>

\* Mutant: SIGCHLD is not blocked before the children are forked.
NotBlockedFirst == FALSE
BlockedFirst == prog = "catch_child"

Init ==
  /\ prog \in Programs
  /\ main = "fork" /\ i = 0 /\ failed = FALSE
  /\ child = [n \in 1..Count |-> "none"]
  /\ handler = FALSE /\ blocked = BlockedFirst
  /\ pending = FALSE /\ handling = FALSE

-----------------------------------------------------------------------------
(* The loop that forks *)

AfterFork == IF i + 1 < Count THEN "fork"
             ELSE CASE prog = "catch_child" -> "install"
                    [] prog = "kill_loopfork" -> "work"
                    [] OTHER -> "wait"

Fork == /\ main = "fork"
        /\ child' = [child EXCEPT ![i + 1] = "run"]
        /\ i' = i + 1 /\ main' = AfterFork
        /\ UNCHANGED <<prog, failed, signalVars>>

\* init waits for the children of a parent that has ended.
Orphaned(children) ==
  [n \in 1..Count |-> IF children[n] = "zombie" THEN "reaped" ELSE children[n]]

\* Only kill_loopfork.c looks at it: it exits, the others have a child less.
ForkFails == /\ main = "fork"
             /\ failed' = TRUE /\ i' = i + 1
             /\ IF prog = "kill_loopfork"
                THEN main' = "ended" /\ child' = Orphaned(child)
                ELSE main' = AfterFork /\ UNCHANGED child
             /\ UNCHANGED <<prog, signalVars>>

-----------------------------------------------------------------------------
(* The children *)

Loops(n) == prog = "kill_loopfork" /\ n = Chosen

\* The kernel: SIGCHLD stays pending if it is blocked or caught, and is
\* forgotten otherwise.
Dies(n) ==
  /\ child' = [child EXCEPT ![n] = IF main = "ended" THEN "reaped"
                                   ELSE "zombie"]
  /\ pending' = (pending \/ (main # "ended" /\ (handler \/ blocked)))

ChildEnds(n) == /\ child[n] = "run" /\ ~Loops(n)
                /\ Dies(n)
                /\ UNCHANGED <<prog, main, i, failed, handler, blocked,
                               handling>>

-----------------------------------------------------------------------------
(* catch_child.c *)

Install == /\ main = "install"
           /\ handler' = TRUE /\ main' = "unblock"
           /\ UNCHANGED <<prog, i, child, failed, blocked, pending, handling>>

Unblock == /\ main = "unblock"
           /\ blocked' = FALSE /\ main' = "work"
           /\ UNCHANGED <<prog, i, child, failed, handler, pending, handling>>

\* The signal interrupts main; it is blocked while its handler runs.
Catch == /\ handler /\ ~blocked /\ pending
         /\ handling' = TRUE /\ blocked' = TRUE /\ pending' = FALSE
         /\ UNCHANGED <<prog, main, i, child, failed, handler>>

Zombies == {n \in 1..Count : child[n] = "zombie"}
Unwaited == {n \in 1..Count : child[n] \in {"run", "zombie"}}

\* waitpid(-1, .., 0) sleeps until a child has ended, as long as there is one.
HandlerWaits(n) ==
  /\ handling /\ n \in Zombies
  /\ child' = [child EXCEPT ![n] = "reaped"]
  /\ UNCHANGED <<prog, main, i, failed, signalVars>>

HandlerReturns ==
  /\ handling /\ Unwaited = {}
  /\ handling' = FALSE /\ blocked' = FALSE
  /\ UNCHANGED <<prog, main, i, child, failed, handler, pending>>

-----------------------------------------------------------------------------
(* The others *)

\* waitpid(-1, NULL, WNOHANG) until it fails; the sleep after 0 is left out.
Poll(n) ==
  /\ prog = "waitpid_while" /\ main = "wait" /\ n \in Zombies
  /\ child' = [child EXCEPT ![n] = "reaped"]
  /\ UNCHANGED <<prog, main, i, failed, signalVars>>

\* waitpid.c does the same for children that exec.
PollEnds ==
  /\ prog = "waitpid_while" /\ main = "wait" /\ Unwaited = {}
  /\ main' = "ended"
  /\ UNCHANGED <<prog, i, child, failed, signalVars>>

\* waitpid(tmpid, NULL, 0) and the end. After a failed fork tmpid is -1, which
\* stands for any child; without a child it fails.
WaitOne ==
  /\ prog = "numfork" /\ main = "wait"
  /\ IF child[Chosen] # "none" THEN Chosen \in Zombies
     ELSE Zombies # {} \/ Unwaited = {}
  /\ main' = "ended" /\ child' = Orphaned(child)
  /\ UNCHANGED <<prog, i, failed, signalVars>>

\* sleep(10): the other children may or may not have ended.
Slept == /\ main = "work" /\ prog = "kill_loopfork"
         /\ main' = "kill"
         /\ UNCHANGED <<prog, i, child, failed, signalVars>>

\* SIGKILL, and the end of the parent, whose children go to init.
Kill == /\ main = "kill"
        /\ child' = Orphaned([child EXCEPT ![Chosen] = "zombie"])
        /\ main' = "ended"
        /\ UNCHANGED <<prog, i, failed, signalVars>>

-----------------------------------------------------------------------------
\* main goes on when its handler does not run.
Main == ~handling /\ (Fork \/ Install \/ Unblock \/ PollEnds \/ WaitOne
                      \/ Slept \/ Kill)
Handler == Catch \/ HandlerReturns \/ \E n \in 1..Count : HandlerWaits(n)

Next == \/ Main \/ Handler
        \/ ForkFails
        \/ \E n \in 1..Count : ChildEnds(n) \/ Poll(n)

Fairness == /\ WF_vars(Main) /\ WF_vars(Handler)
            /\ \A n \in 1..Count : WF_vars(ChildEnds(n)) /\ WF_vars(Poll(n))
Spec == Init /\ [][Next]_vars /\ Fairness

-----------------------------------------------------------------------------
(* Properties *)

TypeOK ==
  /\ prog \in Programs
  /\ main \in {"fork", "install", "unblock", "work", "wait", "kill", "ended"}
  /\ i \in 0..Count
  /\ child \in [1..Count -> {"none", "run", "zombie", "reaped"}]
  /\ {failed, handler, blocked, pending, handling} \subseteq BOOLEAN

\* Nobody is left behind. catch_child.c: while its parent works, a child that
\* has ended has a signal on its way, although one signal may stand for many
\* and children may end before the handler is installed. waitpid_while.c ends
\* with all its children waited for. kill_loopfork.c does not leave the child
\* that never ends, unless a fork has failed (it exits at once).
NoneLeft ==
  /\ prog = "catch_child" /\ main = "work" /\ ~handling =>
       Zombies = {} \/ pending
  /\ prog = "waitpid_while" /\ main = "ended" => Unwaited = {}
  /\ prog = "kill_loopfork" /\ main = "ended" =>
       child[Chosen] # "run" \/ failed

\* A child of catch_child.c or waitpid_while.c that has ended is waited for.
Dead(n) == prog \in {"catch_child", "waitpid_while"} /\ child[n] = "zombie"
Buried(n) == child[n] = "reaped"
Reaped == \A n \in 1..Count : Dead(n) ~> Buried(n)

=============================================================================
