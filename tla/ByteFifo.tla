------------------------------ MODULE ByteFifo ------------------------------
(***************************************************************************)
(* What the log of src/src/mqttc/common/log promises: the bytes that       *)
(* salof_fifo_write takes from the line it is given are handed to the      *)
(* output in the order they were taken, each once, in chunks no larger     *)
(* than the output buffer, and all of them in the end.  The line is one    *)
(* for all threads, and a write takes as much of it as it likes.           *)
(***************************************************************************)
EXTENDS Integers, Sequences

CONSTANTS
  Bytes,
  Capacity,    \* bytes the log can hold
  Chunk        \* bytes a line may have and the output can take at once

VARIABLES
  line,        \* the line to write
  queue,       \* taken from lines and not yet from the log
  chunk        \* taken from the log and not yet output

vars == <<line, queue, chunk>>

Init ==
  /\ line \in [0..(Chunk - 1) -> Bytes]
  /\ queue = <<>> /\ chunk = <<>>

Write ==
  /\ UNCHANGED <<queue, chunk>>
  /\ line' \in [0..(Chunk - 1) -> Bytes]

Put ==
  /\ UNCHANGED <<line, chunk>>
  /\ \E n \in 1..Chunk :
       /\ Len(queue) + n <= Capacity
       /\ queue' = queue \o [k \in 1..n |-> line[k - 1]]

Take ==
  /\ UNCHANGED line
  /\ chunk = <<>>
  /\ \E n \in 1..Chunk :
       /\ n <= Len(queue)
       /\ chunk' = SubSeq(queue, 1, n)
       /\ queue' = SubSeq(queue, n + 1, Len(queue))

Output ==
  /\ UNCHANGED <<line, queue>>
  /\ chunk # <<>>
  /\ chunk' = <<>>

Next == Write \/ Put \/ Take \/ Output

Spec == Init /\ [][Next]_vars /\ WF_vars(Take) /\ WF_vars(Output)
=============================================================================
