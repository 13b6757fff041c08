----------------------------- MODULE MCSkTimer -----------------------------
(* Instances of SkTimer: days of a few seconds.                            *)
EXTENDS SkTimer
=============================================================================
