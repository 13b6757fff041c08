------------------------------ MODULE MCMsgQue ------------------------------
(* Instances of MsgQue: two producers and two consumers.                   *)
EXTENDS MsgQue, TLC

CONSTANTS p1, p2, c1, c2, a, b

TwoAndTwo == {p1, p2, c1, c2}
Putters == {p1, p2}
Getters == {c1, c2}
=============================================================================
