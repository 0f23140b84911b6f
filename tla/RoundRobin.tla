----------------------------- MODULE RoundRobin -----------------------------
(***************************************************************************)
(* choose_dev_round_robin (engine.c) as an operator: the walk over the n   *)
(* device positions, starting from the static variable last_pos.           *)
(*                                                                         *)
(* active_mask is the set of positions whose bit is set.  The tests of     *)
(* both loops are the assignment "active_mask &= 1u << p": the local mask  *)
(* loses every bit but p's before the loop moves on.                       *)
(***************************************************************************)
EXTENDS Integers

\* Mutant: the wrap comes one position early.
NextPosWrapsEarly(n, p) == IF p + 2 >= n THEN 0 ELSE p + 1

\* last_pos++ and the wrap to 0, with n devices
NextPos(n, p) == IF p + 1 = n THEN 0 ELSE p + 1

\* if(active_mask &= 1u << p)
Test(mask, p) == mask \cap {p}

\* One turn of the loop of the first call, with loop index cnt: last_pos is
\* only assigned when the bit is found.
FirstTurn(w, cnt) ==
  LET m == Test(w.mask, cnt)
  IN  IF w.found THEN w
      ELSE [mask |-> m, found |-> m # {}, pos |-> IF m # {} THEN cnt ELSE w.pos]

\* One turn of the loop of a later call: last_pos moves before the test.
LaterTurn(n, w) ==
  LET p == NextPos(n, w.pos)
      m == Test(w.mask, p)
  IN  IF w.found THEN w ELSE [mask |-> m, found |-> m # {}, pos |-> p]

\* choose_dev_round_robin: whether it finds a device, and last_pos on return,
\* after n turns.
RoundRobinWalk(n, active_mask, last_pos) ==
  LET walk[k \in 0 .. n] ==
        IF k = 0 THEN [mask |-> active_mask, found |-> FALSE, pos |-> last_pos]
        ELSE IF last_pos = -1 THEN FirstTurn(walk[k - 1], k - 1)
        ELSE LaterTurn(n, walk[k - 1])
  IN  walk[n]
=============================================================================
