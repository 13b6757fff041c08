----------------------------- MODULE MCAckAsync -----------------------------
(* An instance of AckAsync for TLC: intervals of one and two scans, none   *)
(* or two resends.                                                         *)
EXTENDS AckAsync

MCIntervals == {1, 2}
MCCounts == {0, 2}
=============================================================================
