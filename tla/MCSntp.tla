------------------------------- MODULE MCSntp -------------------------------
(* An instance of Sntp for TLC.                                            *)
EXTENDS Sntp
=============================================================================
