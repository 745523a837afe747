----------------------------- MODULE RingStream -----------------------------
(***************************************************************************)
(* What the ring pipeline promises its consumer (spec 4.3), without slots, *)
(* handles or notifications: transfers land in the ring, never more than  *)
(* one ring ahead of the next transfer to be taken; the consumer takes    *)
(* them one by one in sequence order; a transfer that has landed stays in *)
(* the ring until it is taken.                                             *)
(***************************************************************************)
EXTENDS Naturals

CONSTANTS NUM_BUFFERS, NUM_TRANSFERS

VARIABLES
  landed,  \* transfers in the ring, not yet taken
  taken    \* transfers taken so far

vars == << landed, taken >>

Init ==
  /\ landed = {}
  /\ taken = 0

\* transfer i lands: it is not in the ring yet and less than a ring ahead
Land(i) ==
  /\ i \notin landed
  /\ taken <= i
  /\ i < taken + NUM_BUFFERS
  /\ landed' = landed \cup {i}
  /\ UNCHANGED taken

\* the consumer takes the transfer it waits for, once it has landed
Take ==
  /\ taken \in landed
  /\ landed' = landed \ {taken}
  /\ taken' = taken + 1

Next ==
  \/ \E i \in 0 .. NUM_TRANSFERS - 1 : Land(i)
  \/ Take

Spec == Init /\ [][Next]_vars

=============================================================================
