---- MODULE MCTaskQueue ----
(* A small instance of the task queue: two slots, two stored tasks, one key. *)
EXTENDS TaskQueue

CONSTANTS k1, none

MCKeys  == {k1}
MCNoKey == none

\* Three tasks on a page that stays; two with a reload and one mishap; one with a reload and
\* two mishaps, which is what it takes for another window to load a task and to move it.
MCWorlds == {[nextId |-> 1, reloads |-> 1, mishaps |-> 2],
             [nextId |-> 2, reloads |-> 0, mishaps |-> 1],
             [nextId |-> 3, reloads |-> 0, mishaps |-> 0]}
MCFresh  == {[nextId |-> 1, reloads |-> 0, mishaps |-> 0]}
====
