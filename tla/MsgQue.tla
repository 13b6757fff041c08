------------------------------- MODULE MsgQue -------------------------------
(***************************************************************************)
(* The inter-thread message queue of src/src/queue/msg_que.c.              *)
(*                                                                         *)
(* Every operation that touches the list runs between pthread_mutex_lock   *)
(* and pthread_mutex_unlock, and gives the mutex up in the middle only     *)
(* inside pthread_cond_wait.  One such stretch is one action, so the mutex *)
(* needs no variable: a thread whose pc is "put" or "get" is about to      *)
(* enter (or, after a wakeup, to re-enter) the critical section, in        *)
(* competition with all the others.                                        *)
(***************************************************************************)
EXTENDS Naturals, Sequences, FiniteSets

CONSTANTS
  Threads,       \* the threads that share the queue
  Producers,     \* those that call msg_que_put_with_type
  Consumers,     \* those that call msg_que_get_with_type
  Flushers,      \* those that call msg_que_flush
  Messages,      \* the (type, data) pairs put
  LenMax,        \* len_max, the argument of msg_que_create
  MallocMayFail, \* whether the malloc of msg_que_put_with_type may fail
  None           \* not a message

ASSUME ThreadsAssumption ==
  /\ IsFiniteSet(Threads)
  /\ Producers \subseteq Threads
  /\ Consumers \subseteq Threads
  /\ Flushers \subseteq Threads
ASSUME LenMaxAssumption == LenMax \in Nat
ASSUME MallocAssumption == MallocMayFail \in BOOLEAN
ASSUME NoneAssumption == None \notin Messages

VARIABLES
  alive,    \* between msg_que_create and msg_que_destroy
  que,      \* the linked list from que->que to que->que_end
  len,      \* que->len
  pc,       \* where each thread is, see PCs
  arg,      \* arg[t]: the message thread t is putting
  received, \* received[t]: the last message msg_que_get gave thread t
  disturbed \* history: a flush or a failed malloc has hit sleeping producers

vars == <<alive, que, len, pc, arg, received, disturbed>>

(* "out": outside every call.  "put", "get": about to hold the mutex.      *)
(* "put_wait", "get_wait": asleep on cond_put, on cond_get.                *)
PCs == {"out", "put", "put_wait", "get", "get_wait"}

At(loc) == {t \in Threads : pc[t] = loc}

Full == len >= LenMax
Empty == len = 0

(* pthread_cond_signal: the thread states after one of the threads asleep  *)
(* at `from', if there is one, has been sent back to its loop at `to'.     *)
Signal(pcs, from, to) ==
  IF \E t \in Threads : pcs[t] = from
    THEN {[pcs EXCEPT ![t] = to] : t \in {u \in Threads : pcs[u] = from}}
    ELSE {pcs}

Init ==
  /\ alive = TRUE
  /\ que = <<>>
  /\ len = 0
  /\ pc = [t \in Threads |-> "out"]
  /\ arg = [t \in Threads |-> None]
  /\ received = [t \in Threads |-> None]
  /\ disturbed = FALSE
-----------------------------------------------------------------------------
(* msg_que_put_with_type *)

CallPut(t, m) ==
  /\ alive
  /\ t \in Producers
  /\ pc[t] = "out"
  /\ pc' = [pc EXCEPT ![t] = "put"]
  /\ arg' = [arg EXCEPT ![t] = m]
  /\ UNCHANGED <<alive, que, len, received, disturbed>>

(* Mutants of PutInsert: room tested with <=; a signal only when the list  *)
(* was empty.                                                              *)
PutInsertOffByOne(t) ==
  /\ pc[t] = "put"
  /\ len <= LenMax
  /\ que' = Append(que, arg[t])
  /\ len' = len + 1
  /\ pc' \in Signal([pc EXCEPT ![t] = "out"], "get_wait", "get")
  /\ arg' = [arg EXCEPT ![t] = None]
  /\ UNCHANGED <<alive, received, disturbed>>

PutInsertSignalsIfEmpty(t) ==
  /\ pc[t] = "put"
  /\ len < LenMax
  /\ que' = Append(que, arg[t])
  /\ len' = len + 1
  /\ pc' \in IF que = <<>>
                THEN Signal([pc EXCEPT ![t] = "out"], "get_wait", "get")
                ELSE {[pc EXCEPT ![t] = "out"]}
  /\ arg' = [arg EXCEPT ![t] = None]
  /\ UNCHANGED <<alive, received, disturbed>>

(* There is room: append, count, wake one sleeping consumer, return 0.     *)
PutInsert(t) ==
  /\ pc[t] = "put"
  /\ len < LenMax
  /\ que' = Append(que, arg[t])
  /\ len' = len + 1
  /\ pc' \in Signal([pc EXCEPT ![t] = "out"], "get_wait", "get")
  /\ arg' = [arg EXCEPT ![t] = None]
  /\ UNCHANGED <<alive, received, disturbed>>

(* There is room but no memory for the node: return -ENOMEM.               *)
PutNoMemory(t) ==
  /\ MallocMayFail
  /\ pc[t] = "put"
  /\ len < LenMax
  /\ pc' = [pc EXCEPT ![t] = "out"]
  /\ arg' = [arg EXCEPT ![t] = None]
  /\ disturbed' = (disturbed \/ At("put_wait") # {})
  /\ UNCHANGED <<alive, que, len, received>>

PutWait(t) ==
  /\ pc[t] = "put"
  /\ ~(len < LenMax)
  /\ pc' = [pc EXCEPT ![t] = "put_wait"]
  /\ UNCHANGED <<alive, que, len, arg, received, disturbed>>
-----------------------------------------------------------------------------
(* msg_que_get_with_type *)

CallGet(t) ==
  /\ alive
  /\ t \in Consumers
  /\ pc[t] = "out"
  /\ pc' = [pc EXCEPT ![t] = "get"]
  /\ UNCHANGED <<alive, que, len, arg, received, disturbed>>

(* Mutants of GetRemove: a signal only when the list was full; no signal.  *)
GetRemoveSignalsIfFull(t) ==
  /\ pc[t] = "get"
  /\ len > 0
  /\ que' = Tail(que)
  /\ len' = len - 1
  /\ received' = [received EXCEPT ![t] = Head(que)]
  /\ pc' \in IF Full
                THEN Signal([pc EXCEPT ![t] = "out"], "put_wait", "put")
                ELSE {[pc EXCEPT ![t] = "out"]}
  /\ UNCHANGED <<alive, arg, disturbed>>

GetRemoveSilent(t) ==
  /\ pc[t] = "get"
  /\ len > 0
  /\ que' = Tail(que)
  /\ len' = len - 1
  /\ received' = [received EXCEPT ![t] = Head(que)]
  /\ pc' = [pc EXCEPT ![t] = "out"]
  /\ UNCHANGED <<alive, arg, disturbed>>

(* A positive count and a head: unlink it, count, wake one sleeping        *)
(* producer, return.  A positive count with no list resets the count and   *)
(* goes round the loop again with the mutex held.                          *)
GetRemove(t) ==
  /\ pc[t] = "get"
  /\ len > 0
  /\ IF que # <<>>
       THEN /\ que' = Tail(que)
            /\ len' = len - 1
            /\ received' = [received EXCEPT ![t] = Head(que)]
            /\ pc' \in Signal([pc EXCEPT ![t] = "out"], "put_wait", "put")
       ELSE /\ len' = 0
            /\ UNCHANGED <<que, received, pc>>
  /\ UNCHANGED <<alive, arg, disturbed>>

GetWait(t) ==
  /\ pc[t] = "get"
  /\ ~(len > 0)
  /\ pc' = [pc EXCEPT ![t] = "get_wait"]
  /\ UNCHANGED <<alive, que, len, arg, received, disturbed>>
-----------------------------------------------------------------------------
(* POSIX lets pthread_cond_wait return with no signal.                     *)
SpuriousWakeup(t) ==
  /\ \/ pc[t] = "put_wait" /\ pc' = [pc EXCEPT ![t] = "put"]
     \/ pc[t] = "get_wait" /\ pc' = [pc EXCEPT ![t] = "get"]
  /\ UNCHANGED <<alive, que, len, arg, received, disturbed>>

(* msg_que_flush: frees every node; neither condition is signalled.        *)
Flush(t) ==
  /\ alive
  /\ t \in Flushers
  /\ pc[t] = "out"
  /\ que' = <<>>
  /\ len' = 0
  /\ disturbed' = (disturbed \/ At("put_wait") # {})
  /\ UNCHANGED <<alive, pc, arg, received>>

(* msg_que_destroy flushes and frees the queue.  Its caller must know that *)
(* no thread is inside a call, or the mutex is destroyed under it.         *)
Destroy ==
  /\ alive
  /\ \A t \in Threads : pc[t] = "out"
  /\ alive' = FALSE
  /\ que' = <<>>
  /\ len' = 0
  /\ UNCHANGED <<pc, arg, received, disturbed>>

Create ==
  /\ ~alive
  /\ alive' = TRUE
  /\ que' = <<>>
  /\ len' = 0
  /\ disturbed' = FALSE
  /\ UNCHANGED <<pc, arg, received>>

Next ==
  \/ Create
  \/ Destroy
  \/ \E t \in Threads :
       \/ \E m \in Messages : CallPut(t, m)
       \/ PutInsert(t) \/ PutNoMemory(t) \/ PutWait(t)
       \/ CallGet(t) \/ GetRemove(t) \/ GetWait(t)
       \/ SpuriousWakeup(t)
       \/ Flush(t)

(* A thread that competes for the mutex gets it in the end; consumers keep *)
(* asking for messages, the way the loop of a receiving thread does.       *)
(* Nothing makes a producer, a flush or a spurious wakeup happen.          *)
Fairness ==
  \A t \in Threads :
    /\ WF_vars(PutInsert(t) \/ PutNoMemory(t) \/ PutWait(t))
    /\ WF_vars(GetRemove(t) \/ GetWait(t))
    /\ WF_vars(CallGet(t))

Spec == Init /\ [][Next]_vars /\ Fairness
-----------------------------------------------------------------------------
(* The counter is within its bound, and a producer has its message.        *)
TypeOK ==
  /\ alive \in BOOLEAN
  /\ que \in Seq(Messages)
  /\ len \in 0..LenMax
  /\ pc \in [Threads -> PCs]
  /\ arg \in [Threads -> Messages \union {None}]
  /\ \A t \in Threads : pc[t] \in {"put", "put_wait"} => arg[t] \in Messages
  /\ received \in [Threads -> Messages \union {None}]
  /\ disturbed \in BOOLEAN

(* The separate counter never disagrees with the list: the repair in       *)
(* msg_que_get_with_type ("start msg empty.") is never needed, and the     *)
(* tests on len are tests on the list.                                     *)
LenCountsList == len = Len(que)

(* pthread_cond_signal in put wakes one consumer per message, and put only *)
(* signals once: while consumers sleep, every message in the list has a    *)
(* consumer already awake to take it, whoever else barges in, whatever a   *)
(* flush throws away.                                                      *)
NoLostGetWakeup ==
  At("get_wait") # {} => len <= Cardinality(At("get"))

(* The same of producers and free places, as long as no flush and no       *)
(* failed malloc has come while producers slept.                           *)
NoLostPutWakeup ==
  ~disturbed /\ At("put_wait") # {} => LenMax - len <= Cardinality(At("put"))

(* No producer sleeps for ever in msg_que_put_with_type beside free room:  *)
(* the queue fills up again or the sleepers are gone.  The comment on the  *)
(* wait gives a full queue as its only reason.                             *)
NoSleeperBesideRoom ==
  (At("put_wait") # {} /\ ~Full) ~> (At("put_wait") = {} \/ Full)

(* The same on condition that the sleepers are never disturbed by a flush  *)
(* or a failed malloc.                                                     *)
UndisturbedNotStranded ==
  (At("put_wait") # {} /\ ~Full) ~> (At("put_wait") = {} \/ Full \/ disturbed)

(* No consumer sleeps for ever in msg_que_get_with_type beside a message.  *)
NoSleeperBesideMessage ==
  (At("get_wait") # {} /\ ~Empty) ~> (At("get_wait") = {} \/ Empty)

(* No thread that msg_que.c has put to sleep is forgotten.                 *)
SleepersWake == NoSleeperBesideMessage /\ UndisturbedNotStranded

(* The queue with its mutex, conditions and counter is a bounded FIFO.     *)
Abstract == INSTANCE BoundedFifo WITH buffer <- que, Capacity <- LenMax
ImplementsFifo == Abstract!Spec
=============================================================================
