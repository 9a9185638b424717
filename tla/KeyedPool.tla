------------------------------ MODULE KeyedPool ------------------------------
(***************************************************************************)
(* What the task queue promises: work is submitted with an optional key,   *)
(* waits, runs and ends. At most Capacity pieces run at once, work of one  *)
(* key runs one piece at a time in the order of its submission, and        *)
(* waiting work can be withdrawn. Work is numbered, and submitted in the   *)
(* order of its numbers.                                                   *)
(***************************************************************************)
EXTENDS Naturals, FiniteSets

CONSTANTS Work, Keys, NoKey, Capacity

VARIABLES
  waiting,  \* submitted work that has not begun
  running,  \* work under way
  keyOf     \* the key a piece of work was submitted with

vars == <<waiting, running, keyOf>>

Init ==
  /\ waiting = {}
  /\ running = {}
  /\ keyOf = [w \in Work |-> NoKey]

Submit(w) ==
  /\ \A v \in waiting \cup running : v < w
  /\ waiting' = waiting \cup {w}
  /\ \E k \in Keys \cup {NoKey} : keyOf' = [keyOf EXCEPT ![w] = k]
  /\ UNCHANGED running

Start(w) ==
  /\ w \in waiting
  /\ Cardinality(running) < Capacity
  /\ keyOf[w] # NoKey =>
       /\ \A r \in running : keyOf[r] # keyOf[w]
       /\ \A v \in waiting : keyOf[v] = keyOf[w] => w <= v
  /\ waiting' = waiting \ {w}
  /\ running' = running \cup {w}
  /\ UNCHANGED keyOf

\* Pieces of work end, and others are withdrawn.
End ==
  /\ waiting' \subseteq waiting /\ running' \subseteq running
  /\ UNCHANGED keyOf

Next == End \/ \E w \in Work : Submit(w) \/ Start(w)

Spec == Init /\ [][Next]_vars
=============================================================================
