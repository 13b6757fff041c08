------------------------------ MODULE MCThPool ------------------------------
(* Instances of ThPool: one pool of two workers, and two pools of one.     *)
EXTENDS ThPool, TLC

CONSTANTS p1, p2, w1, w2, c1, c2

OnePool == {p1}
TwoPools == {p1, p2}
TwoWorkers == {w1, w2}
TwoInOne == [w \in TwoWorkers |-> p1]
OneEach == (w1 :> p1) @@ (w2 :> p2)
=============================================================================
