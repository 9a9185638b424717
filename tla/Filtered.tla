------------------------------ MODULE Filtered ------------------------------
(***************************************************************************)
(* Array.prototype.filter, where the elements to leave out are those of a  *)
(* set.  Written as a recursive function, and not with SelectSeq, because  *)
(* the provers take SelectSeq for an operator without a definition.        *)
(***************************************************************************)
EXTENDS Naturals, Sequences

\* s without the members of X, the others in their order.
Without(s, X) ==
  LET kept[n \in 0 .. Len(s)] == IF n = 0 THEN <<>>
                                 ELSE IF s[n] \in X THEN kept[n - 1]
                                 ELSE Append(kept[n - 1], s[n])
  IN kept[Len(s)]
=============================================================================
