------------------------------- MODULE Locks --------------------------------
(***************************************************************************)
(* Three programs of pthread_sync about locks. pthread_LOCK.c: main and a  *)
(* child take two mutexes in opposite orders. pthread_shareMutex.c: main   *)
(* and a child each print a line in two halves under a mutex. rwlock.c:    *)
(* writers and readers of a counter. A thread at a lock is waiting for it. *)
(***************************************************************************)
EXTENDS Integers, FiniteSets, FiniteSetsExt

CONSTANTS
  Writers, Readers,  \* of rwlock.c, 3 and 5 there
  Writes             \* bound: writes to the counter

LocksAssumption ==
  /\ Writes \in Nat /\ Writers \intersect Readers = {}
  /\ {"main", "child", "nobody"} \intersect (Writers \union Readers) = {}

VARIABLES
  prog,        \* "LOCK", "share", "rwlock"
  pc,
  owner,       \* who has mutex and mutex1, "nobody" or a thread
  destroyed,   \* of the two
  sharing,     \* who has rwlock for reading
  counter,
  t,           \* what a writer printed as the value before its write
  loaded,      \* the old value in ++counter
  written      \* history: writes finished

mutexVars == <<owner, destroyed>>
counterVars == <<sharing, counter, t, loaded, written>>
vars == <<prog, pc, mutexVars, counterVars>>

Pair == {"main", "child"}
Threads == Pair \union Writers \union Readers
Mutexes == {"mutex", "mutex1", "rwlock"}

Init ==
  /\ prog \in {"LOCK", "share", "rwlock"}
  /\ pc = [s \in Threads |-> "lock"]
  /\ owner = [m \in Mutexes |-> "nobody"] /\ destroyed = {}
  /\ sharing = {} /\ counter = 0 /\ written = 0
  /\ t = [s \in Writers |-> 0] /\ loaded = [s \in Writers |-> 0]

At(s, p, label) == prog = p /\ pc[s] = label
Goto(s, label) == pc' = [pc EXCEPT ![s] = label]

Take(s, m) == owner[m] = "nobody" /\ owner' = [owner EXCEPT ![m] = s]
Release(m) == owner' = [owner EXCEPT ![m] = "nobody"]

-----------------------------------------------------------------------------
(* pthread_LOCK.c *)

FirstOf(s) == IF s = "main" THEN "mutex" ELSE "mutex1"
SecondOf(s) == IF s = "main" THEN "mutex1" ELSE "mutex"
InLOCK == UNCHANGED <<prog, counterVars>>

LockFirst(s) ==
  /\ s \in Pair /\ At(s, "LOCK", "lock") /\ InLOCK
  /\ Take(s, FirstOf(s)) /\ Goto(s, "second")
  /\ UNCHANGED destroyed

LockSecond(s) ==
  /\ s \in Pair /\ At(s, "LOCK", "second") /\ InLOCK
  /\ Take(s, SecondOf(s)) /\ Goto(s, "unlock")
  /\ UNCHANGED destroyed

\* Who comes to a mutex main has destroyed gets EINVAL, unless it was in the
\* call already; it returns, with mutex1 if it had it.
LockFails(s) ==
  /\ s \in Pair /\ InLOCK
  /\ \/ At(s, "LOCK", "lock") /\ FirstOf(s) \in destroyed
     \/ At(s, "LOCK", "second") /\ SecondOf(s) \in destroyed
  /\ Goto(s, "done")
  /\ UNCHANGED mutexVars

\* Both threads unlock mutex first.
Unlock(s) ==
  /\ s \in Pair /\ At(s, "LOCK", "unlock") /\ InLOCK
  /\ Release("mutex") /\ Goto(s, "unlock1")
  /\ UNCHANGED destroyed

Unlock1(s) ==
  /\ s \in Pair /\ At(s, "LOCK", "unlock1") /\ InLOCK
  /\ Release("mutex1")
  /\ Goto(s, IF s = "main" THEN "destroy" ELSE "done")
  /\ UNCHANGED destroyed

\* main destroys them before it joins; a mutex somebody holds is left (EBUSY).
Destroy(m, from, to) ==
  /\ At("main", "LOCK", from) /\ InLOCK
  /\ destroyed' = IF owner[m] = "nobody" THEN destroyed \union {m}
                  ELSE destroyed
  /\ Goto("main", to)
  /\ UNCHANGED owner

Join ==
  /\ At("main", "LOCK", "join") /\ InLOCK
  /\ pc["child"] = "done" /\ Goto("main", "done")
  /\ UNCHANGED mutexVars

-----------------------------------------------------------------------------
(* pthread_shareMutex.c *)

InShare == UNCHANGED <<prog, counterVars, destroyed>>

\* The lock and the first half of a line, with no end of line.
Hello(s) == /\ s \in Pair /\ At(s, "share", "lock") /\ InShare
            /\ Take(s, "mutex") /\ Goto(s, "second")

World(s) == /\ s \in Pair /\ At(s, "share", "second") /\ InShare
            /\ Goto(s, "unlock") /\ UNCHANGED owner

UnlockLine(s) == /\ s \in Pair /\ At(s, "share", "unlock") /\ InShare
                 /\ Release("mutex") /\ Goto(s, "lock")

-----------------------------------------------------------------------------
(* rwlock.c *)

InRwlock == UNCHANGED <<prog, destroyed>>

\* t = counter, before the lock.
Sample(s) ==
  /\ s \in Writers /\ At(s, "rwlock", "lock") /\ counter < Writes
  /\ t' = [t EXCEPT ![s] = counter] /\ Goto(s, "second") /\ InRwlock
  /\ UNCHANGED <<owner, sharing, counter, loaded, written>>

\* Mutant: a lock that lets writers in together, as readers.
WriteLockShared(s) == UNCHANGED owner
WriteLock(s) == Take(s, "rwlock") /\ sharing = {}

LoadCounter(s) ==
  /\ s \in Writers /\ At(s, "rwlock", "second") /\ counter < Writes
  /\ WriteLock(s)
  /\ loaded' = [loaded EXCEPT ![s] = counter] /\ Goto(s, "store") /\ InRwlock
  /\ UNCHANGED <<sharing, counter, t, written>>

StoreCounter(s) ==
  /\ s \in Writers /\ At(s, "rwlock", "store")
  /\ counter' = loaded[s] + 1 /\ written' = written + 1
  /\ Goto(s, "unlock") /\ InRwlock
  /\ UNCHANGED <<owner, sharing, t, loaded>>

UnlockWrite(s) ==
  /\ s \in Writers /\ At(s, "rwlock", "unlock")
  /\ Release("rwlock") /\ Goto(s, "lock") /\ InRwlock
  /\ UNCHANGED counterVars

ReadLock(s) ==
  /\ s \in Readers /\ At(s, "rwlock", "lock") /\ owner["rwlock"] = "nobody"
  /\ sharing' = sharing \union {s} /\ Goto(s, "unlock") /\ InRwlock
  /\ UNCHANGED <<owner, counter, t, loaded, written>>

UnlockRead(s) ==
  /\ s \in Readers /\ At(s, "rwlock", "unlock")
  /\ sharing' = sharing \ {s} /\ Goto(s, "lock") /\ InRwlock
  /\ UNCHANGED <<owner, counter, t, loaded, written>>

-----------------------------------------------------------------------------
Step(s) ==
  \/ LockFirst(s) \/ LockSecond(s) \/ LockFails(s) \/ Unlock(s) \/ Unlock1(s)
  \/ s = "main" /\ (Join \/ Destroy("mutex", "destroy", "destroy1")
                         \/ Destroy("mutex1", "destroy1", "join"))
  \/ Hello(s) \/ World(s) \/ UnlockLine(s)
  \/ Sample(s) \/ LoadCounter(s) \/ StoreCounter(s) \/ UnlockWrite(s)
  \/ ReadLock(s) \/ UnlockRead(s)

Next == \E s \in Threads : Step(s)

Fairness == \A s \in Threads : WF_vars(Step(s))
Spec == Init /\ [][Next]_vars /\ Fairness

-----------------------------------------------------------------------------
(* Properties *)

TypeOK ==
  /\ prog \in {"LOCK", "share", "rwlock"}
  /\ pc \in [Threads -> {"lock", "second", "store", "unlock", "unlock1",
                         "destroy", "destroy1", "join", "done"}]
  /\ owner \in [Mutexes -> Threads \union {"nobody"}]
  /\ destroyed \subseteq Mutexes /\ sharing \subseteq Readers
  /\ counter \in 0..Writes /\ written \in 0..Writes
  /\ t \in [Writers -> 0..Writes] /\ loaded \in [Writers -> 0..Writes]

\* What is done under a lock is not divided by another thread: a line is ended
\* by who began it (shareMutex 16-20, 38-42), no reader sees a counter in the
\* middle of a write, and no write of three writers is lost (rwlock 19-21),
\* although the value each of them prints as the old one is of any age.
Undivided ==
  /\ prog = "share" => Cardinality({s \in Pair : pc[s] = "second"}) <= 1
  /\ \A s \in Writers : t[s] <= counter
  /\ counter = written
  /\ (\E s \in Writers : pc[s] = "store") => sharing = {}

\* pthread_LOCK.c: each has one mutex and waits for the other's.
Crossed == \A s \in Pair : pc[s] = "second" /\ owner[FirstOf(s)] = s

\* pthread_LOCK.c ends, in every order of its steps and although the mutexes
\* are destroyed before the join, unless the threads wait for each other.
Running == prog = "LOCK"
Finished == Crossed \/ \A s \in Pair : pc[s] = "done"
EndsOrCrossed == Running ~> Finished

=============================================================================
