---------------------------- MODULE MCBrowsePool ----------------------------
(* BrowsePool for TLC: a listing a, a change w and a release d.              *)
EXTENDS BrowsePool, TLC

CONSTANTS i, j, a, w, d

Calm == [key |-> a :> i @@ w :> i, time |-> 1, vanish |-> 0, volume |-> 0, dropped |-> 0,
         stray |-> 0]

\* A box over two lives, alone and with another key's; boxes that vanish under
\* requests that give up; failed calls that leave a container behind, alone and with a
\* release that runs into both requests; a busybox volume that is lost.
MCAll == {[Calm EXCEPT !.time = 3],
          [Calm EXCEPT !.time = 3, !.key = a :> i @@ w :> j],
          [Calm EXCEPT !.time = 2, !.vanish = 1, !.dropped = 1],
          [Calm EXCEPT !.dropped = 1, !.stray = 1],
          [Calm EXCEPT !.key = a :> i @@ w :> i @@ d :> i, !.stray = 1],
          [Calm EXCEPT !.volume = 1]}
MCVolume == {[Calm EXCEPT !.volume = 1]}
=============================================================================
