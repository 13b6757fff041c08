------------------------------ MODULE MCEvents ------------------------------
(* An instance of Events for TLC: a descriptor that is read and written,   *)
(* and a smaller one that is read.                                         *)
EXTENDS Events

MCPairs == {<<1, "read">>, <<2, "read">>, <<2, "write">>}
=============================================================================
