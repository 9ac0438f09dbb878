----------------------------- MODULE Producers ------------------------------
(***************************************************************************)
(* The two producer-consumer programs of pthread_sync. sem_produce_        *)
(* consumer.c has a ring of NUM places and two semaphores; cond_produce_   *)
(* consumer.c has a list, a mutex and a condition variable. Products are   *)
(* the numbers 1, 2, ... in the order they are made; 0 is a blank place.   *)
(***************************************************************************)
EXTENDS Integers, Sequences, Functions

CONSTANTS
  ProducerOf,  \* the producers of each program, "sem" and "cond"
  ConsumerOf,  \* its consumers
  NUM,         \* places of the ring
  Products     \* bound: how many products are made

ProducersAssumption ==
  /\ NUM \in Nat \ {0} /\ Products \in Nat
  /\ DOMAIN ProducerOf = {"sem", "cond"} /\ DOMAIN ConsumerOf = {"sem", "cond"}
  /\ \A p \in {"sem", "cond"} : ProducerOf[p] \intersect ConsumerOf[p] = {}
  \* The ring is for one of each: i is a local variable of the threads.
  /\ \A s, t \in ProducerOf["sem"] : s = t
  /\ \A s, t \in ConsumerOf["sem"] : s = t

Threads == UNION {ProducerOf[p] \union ConsumerOf[p] : p \in {"sem", "cond"}}

VARIABLES
  prog,
  pc,          \* idle, fill, post (sem); lock, wait, use, signal (cond)
  item,        \* what a thread has in hand, 0 for nothing
  made,        \* products made so far
  used,        \* history: products consumed, in order
  blank_number, product_number,  \* the semaphores
  queue, index,                  \* the ring, and each thread's i
  head,                          \* the list
  asleep                         \* in pthread_cond_wait

semVars == <<blank_number, product_number, queue, index>>
condVars == <<head, asleep>>
vars == <<prog, pc, item, made, used, semVars, condVars>>

Ring == 0..NUM - 1
Makers == ProducerOf[prog]
Users == ConsumerOf[prog]

Init ==
  /\ prog \in {"sem", "cond"}
  /\ pc = [t \in Threads |-> "idle"] /\ item = [t \in Threads |-> 0]
  /\ made = 0 /\ used = <<>>
  /\ blank_number = NUM /\ product_number = 0
  /\ queue = [k \in Ring |-> 0] /\ index = [t \in Threads |-> 0]
  /\ head = <<>> /\ asleep = {}

Goto(t, label) == pc' = [pc EXCEPT ![t] = label]

-----------------------------------------------------------------------------
(* sem_produce_consumer.c: sem_wait, the place, sem_post *)

SemWaitBlank(t) ==
  /\ prog = "sem" /\ t \in Makers /\ pc[t] = "idle" /\ made < Products
  /\ blank_number > 0 /\ blank_number' = blank_number - 1
  /\ Goto(t, "fill")
  /\ UNCHANGED <<prog, item, made, used, product_number, queue, index,
                  condVars>>

Fill(t) ==
  /\ prog = "sem" /\ t \in Makers /\ pc[t] = "fill"
  /\ made' = made + 1
  /\ queue' = [queue EXCEPT ![index[t]] = made']
  /\ Goto(t, "post")
  /\ UNCHANGED <<prog, item, used, blank_number, product_number, index,
                 condVars>>

\* Mutant: the ring has one place less than blank_number says.
NextPlaceShort(k) == (k + 1) % (NUM - 1)
NextPlace(k) == (k + 1) % NUM

SemPostProduct(t) ==
  /\ prog = "sem" /\ t \in Makers /\ pc[t] = "post"
  /\ product_number' = product_number + 1
  /\ index' = [index EXCEPT ![t] = NextPlace(@)]
  /\ Goto(t, "idle")
  /\ UNCHANGED <<prog, item, made, used, blank_number, queue, condVars>>

\* Mutant: the consumer does not wait for a product.
HasProductAlways == TRUE
HasProduct == product_number > 0

SemWaitProduct(t) ==
  /\ prog = "sem" /\ t \in Users /\ pc[t] = "idle"
  /\ HasProduct /\ product_number' = product_number - 1
  /\ Goto(t, "fill")
  /\ UNCHANGED <<prog, item, made, used, blank_number, queue, index, condVars>>

\* The product is printed, then the place emptied.
Empty(t) ==
  /\ prog = "sem" /\ t \in Users /\ pc[t] = "fill"
  /\ used' = Append(used, queue[index[t]])
  /\ queue' = [queue EXCEPT ![index[t]] = 0]
  /\ Goto(t, "post")
  /\ UNCHANGED <<prog, item, made, blank_number, product_number, index,
                 condVars>>

SemPostBlank(t) ==
  /\ prog = "sem" /\ t \in Users /\ pc[t] = "post"
  /\ blank_number' = blank_number + 1
  /\ index' = [index EXCEPT ![t] = NextPlace(@)]
  /\ Goto(t, "idle")
  /\ UNCHANGED <<prog, item, made, used, product_number, queue, condVars>>

-----------------------------------------------------------------------------
(* cond_produce_consumer.c. The mutex is free between steps. *)

Make(t) ==
  /\ prog = "cond" /\ t \in Makers /\ pc[t] = "idle" /\ made < Products
  /\ made' = made + 1 /\ item' = [item EXCEPT ![t] = made']
  /\ Goto(t, "lock")
  /\ UNCHANGED <<prog, used, semVars, condVars>>

\* The new product goes to the head of the list.
Push(t) ==
  /\ prog = "cond" /\ t \in Makers /\ pc[t] = "lock"
  /\ head' = <<item[t]>> \o head
  /\ item' = [item EXCEPT ![t] = 0]
  /\ Goto(t, "signal")
  /\ UNCHANGED <<prog, made, used, semVars, asleep>>

\* After the unlock: who sleeps now is woken, one of them.
Signal(t) ==
  /\ prog = "cond" /\ t \in Makers /\ pc[t] = "signal"
  /\ Goto(t, "idle")
  /\ IF asleep = {} THEN UNCHANGED asleep
     ELSE \E u \in asleep : asleep' = asleep \ {u}
  /\ UNCHANGED <<prog, item, made, used, semVars, head>>

\* Lock, or return from pthread_cond_wait, and the loop's test of head.
MustWait == head = <<>>

CondWait(t) ==
  /\ prog = "cond" /\ t \in Users /\ pc[t] \in {"idle", "wait"}
  /\ t \notin asleep /\ MustWait
  /\ asleep' = asleep \union {t}
  /\ Goto(t, "wait")
  /\ UNCHANGED <<prog, item, made, used, semVars, head>>

\* The head is taken off the list.
Pop(t) ==
  /\ prog = "cond" /\ t \in Users /\ pc[t] \in {"idle", "wait"}
  /\ t \notin asleep /\ ~MustWait
  /\ item' = [item EXCEPT ![t] = Head(head)] /\ head' = Tail(head)
  /\ Goto(t, "use")
  /\ UNCHANGED <<prog, made, used, semVars, asleep>>

\* Printed and freed, without the mutex.
Use(t) ==
  /\ prog = "cond" /\ t \in Users /\ pc[t] = "use"
  /\ used' = Append(used, item[t])
  /\ item' = [item EXCEPT ![t] = 0]
  /\ Goto(t, "idle")
  /\ UNCHANGED <<prog, made, semVars, condVars>>

\* pthread_cond_wait may return by itself.
Spurious(t) == /\ t \in asleep /\ asleep' = asleep \ {t}
               /\ UNCHANGED <<prog, pc, item, made, used, semVars, head>>

-----------------------------------------------------------------------------
Step(t) == \/ SemWaitBlank(t) \/ Fill(t) \/ SemPostProduct(t)
           \/ SemWaitProduct(t) \/ Empty(t) \/ SemPostBlank(t)
           \/ Make(t) \/ Push(t) \/ Signal(t)
           \/ CondWait(t) \/ Pop(t) \/ Use(t)

Next == \E t \in Threads : Step(t) \/ Spurious(t)

Fairness == \A t \in Threads : WF_vars(Step(t))
Spec == Init /\ [][Next]_vars /\ Fairness

-----------------------------------------------------------------------------
(* Properties *)

TypeOK ==
  /\ prog \in {"sem", "cond"}
  /\ pc \in [Threads -> {"idle", "fill", "post", "lock", "wait", "use",
                         "signal"}]
  /\ item \in [Threads -> 0..Products] /\ made \in 0..Products
  /\ used \in Seq(0..Products) /\ Len(used) <= Products
  /\ blank_number \in 0..NUM /\ product_number \in 0..NUM
  /\ queue \in [Ring -> 0..Products] /\ index \in [Threads -> Ring]
  /\ head \in Seq(1..Products) /\ asleep \subseteq Threads

\* The ring and the list are each the buffer that was promised: a place is
\* filled when it is blank and emptied when it is not, and no product is taken
\* twice or overwritten, whatever the order of the threads between the
\* semaphores (sem 19-23, 35-39), and between the unlock and the signal (cond).
Carried == {item[t] : t \in Users} \ {0}
Abstract == INSTANCE Buffer WITH
  Products <- 1..Products,
  Room <- NUM,
  kind <- IF prog = "sem" THEN "ring" ELSE "list",
  held <- (Range(queue) \ {0}) \union Range(head),
  taken <- Range(used) \union Carried
ImplementsBuffer == Abstract!Spec

\* Every product is consumed in the end.
Made(x) == made >= x
Used(x) == x \in Range(used)
AllUsed == \A x \in 1..Products : Made(x) ~> Used(x)

=============================================================================
