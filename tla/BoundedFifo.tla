---------------------------- MODULE BoundedFifo ----------------------------
(***************************************************************************)
(* What src/include/comm/msg_que.h promises: a bounded first-in first-out  *)
(* queue between threads.  A put appends one message when there is room, a *)
(* get hands the oldest message to exactly one caller, a flush empties the *)
(* queue.  Nothing is said here of mutexes, sleeping or waking.            *)
(***************************************************************************)
EXTENDS Naturals, Sequences

CONSTANTS
  Threads,   \* the callers of the queue
  Messages,  \* what may be put: a type and a data pointer
  Capacity,  \* the most messages the queue holds
  None       \* "this thread has received nothing yet"

VARIABLES
  buffer,    \* the messages put and not yet got, oldest first
  received   \* received[t]: the last message handed to thread t

vars == <<buffer, received>>

Init ==
  /\ buffer = <<>>
  /\ received = [t \in Threads |-> None]

Enqueue(m) ==
  /\ Len(buffer) < Capacity
  /\ buffer' = Append(buffer, m)
  /\ UNCHANGED received

Dequeue(t) ==
  /\ buffer # <<>>
  /\ received' = [received EXCEPT ![t] = Head(buffer)]
  /\ buffer' = Tail(buffer)

Clear ==
  /\ buffer' = <<>>
  /\ UNCHANGED received

Next ==
  \/ \E m \in Messages : Enqueue(m)
  \/ \E t \in Threads : Dequeue(t)
  \/ Clear

Spec == Init /\ [][Next]_vars
=============================================================================
