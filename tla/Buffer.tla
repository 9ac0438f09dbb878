------------------------------- MODULE Buffer -------------------------------
(***************************************************************************)
(* What a producer and a consumer expect of what is between them: each     *)
(* product made is held until somebody takes it, and nobody takes it       *)
(* twice. A ring holds so many and gives them in the order they were made; *)
(* a list holds any number and gives them in any order.                    *)
(***************************************************************************)
EXTENDS Naturals, FiniteSets

CONSTANTS
  Products,    \* numbers, in the order they are made
  Room         \* what a ring holds

VARIABLES
  kind,        \* "ring" or "list"
  held,        \* made and not taken
  taken

vars == <<kind, held, taken>>

Init == kind \in {"ring", "list"} /\ held = {} /\ taken = {}

Put(x) == /\ x \notin held \union taken
          /\ kind = "ring" => Cardinality(held) < Room
          /\ held' = held \union {x}
          /\ UNCHANGED <<kind, taken>>

Take(x) == /\ x \in held
           /\ kind = "ring" => \A y \in held : x <= y
           /\ held' = held \ {x}
           /\ taken' = taken \union {x}
           /\ UNCHANGED kind

Next == \E x \in Products : Put(x) \/ Take(x)

Spec == Init /\ [][Next]_vars

=============================================================================
