----------------------------- MODULE MCFrontier -----------------------------
(* Instances of Frontier for TLC.                                          *)
EXTENDS Frontier, TLC

CONSTANTS p1, p2, p3, x, y, z

(* p1 and p2 share shard 1; p3 is in shard 2.                              *)
MCShardOf == [p \in Path |-> IF p = p3 THEN 2 ELSE 1]

(* y costs twice as much as the others, so a replacement changes the       *)
(* accounting.                                                             *)
MCCost == [p \in Path |-> [v \in Val |-> IF v = y THEN 10 ELSE 5]]

(* x and y have the same bytes, as the arrays ["ab"] and ["a", "b"] have,  *)
(* or an array and a string; z has others.                                 *)
MCSer == [v \in Const |-> IF v = z THEN z ELSE x]

(* Bound: the value with other bytes is written to p1 only, and without a  *)
(* deadline.                                                               *)
OtherAtHome ==
  \A w \in Proc : pc[w] = "lock" /\ job[w].atom.val = z
                     => job[w].path = p1 /\ job[w].atom.exp = 0

(* The goroutines are interchangeable.                                     *)
MCSymmetry == Permutations(Proc)
=============================================================================
