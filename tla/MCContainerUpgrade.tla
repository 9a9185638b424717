------------------------- MODULE MCContainerUpgrade -------------------------
(* ContainerUpgrade for TLC: tasks are interchangeable.                       *)
EXTENDS ContainerUpgrade, TLC

Symmetry == Permutations(Tasks)
=============================================================================
