------------------------------- MODULE MsgIpc -------------------------------
(***************************************************************************)
(* The messages two processes exchange through src/src/ipc/msg_ipc.c.      *)
(* Each has a POSIX queue for what the other sends (inbox: asynchronous    *)
(* messages and, with a higher priority, requests) and one for the answers *)
(* to its own requests.  The queues belong to the kernel, do not block and *)
(* survive the processes.  One call of mq_send, mq_receive or mq_getattr   *)
(* is one step.                                                            *)
(*                                                                         *)
(* In each process one thread calls the interface; msg_ipc_thread receives *)
(* and hands requests to threads of the application, which answer them in  *)
(* any order.                                                              *)
(***************************************************************************)
EXTENDS Naturals, SequencesExt

CONSTANTS
  Procs,        \* the two processes, core and web
  Messages,     \* asynchronous messages, each put at most once
  Sender,       \* the process that puts each of them
  Capacity,     \* MQ_MSG_SIZE
  SyncCapacity, \* the size of the queues for answers
  MaxCalls,     \* bound on the calls of msg_ipc_send_sync
  MaxCrashes,   \* bound on the crashes
  None

ASSUME ProcsAssumption == \A p \in Procs : \E q \in Procs : Procs = {p, q} /\ p # q
ASSUME MessagesAssumption == Sender \in [Messages -> Procs]
ASSUME BoundsAssumption == {Capacity, SyncCapacity, MaxCalls, MaxCrashes} \subseteq Nat

VARIABLES
  inbox,    \* inbox[p]: the queue p receives messages and requests from
  answers,  \* answers[p]: the queue p receives answers from
  up,       \* up[p]: the process runs
  pc,       \* pc[p]: where its thread is in msg_ipc_send_sync
  req,      \* req[p]: the request of that call
  left,     \* left[p]: how many messages its flush still takes
  got,      \* got[p]: what its mq_msg_cb has received and not yet handed on
  todo,     \* todo[p]: the requests its handlers have not answered yet
  calls,    \* how many calls have been made; requests are numbered
  crashes,
  fate,     \* history: what has become of each asynchronous message
  fresh     \* history: no older request was open when the call counted answers

queues == <<inbox, answers>>
caller == <<pc, req, left, fresh>>
receiver == <<got, todo>>
bounds == <<calls, crashes>>
vars == <<queues, up, caller, receiver, bounds, fate>>

Peer(p) == CHOOSE q \in Procs : q # p
Requests == 1..MaxCalls
Request(k) == <<"sync", k>>
Async(m) == <<"async", m>>

(* mq_send keeps the order of the priorities: a request goes before the    *)
(* first message.                                                          *)
Insert(queue, message) ==
  IF message[1] = "async" THEN Append(queue, message)
  ELSE LET messages == {i \in DOMAIN queue : queue[i][1] = "async"}
       IN  InsertAt(queue, Min(messages \union {Len(queue) + 1}), message)

(* mq_receive of a queue that does not block.                              *)
Rest(queue) == IF queue = <<>> THEN <<>> ELSE Tail(queue)

Init ==
  /\ inbox = [p \in Procs |-> <<>>]
  /\ answers = [p \in Procs |-> <<>>]
  /\ up = [p \in Procs |-> TRUE]
  /\ pc = [p \in Procs |-> "out"]
  /\ req = [p \in Procs |-> None]
  /\ left = [p \in Procs |-> 0]
  /\ got = [p \in Procs |-> {}]
  /\ todo = [p \in Procs |-> {}]
  /\ calls = 0 /\ crashes = 0
  /\ fate = [m \in Messages |-> "new"]
  /\ fresh = [p \in Procs |-> FALSE]
-----------------------------------------------------------------------------
(* msg_ipc_put; on a full queue it fails.                                  *)
Put(m) ==
  LET p == Sender[m] IN
  /\ up[p] /\ pc[p] = "out"
  /\ fate[m] = "new"
  /\ Len(inbox[Peer(p)]) < Capacity
  /\ inbox' = [inbox EXCEPT ![Peer(p)] = Insert(@, Async(m))]
  /\ fate' = [fate EXCEPT ![m] = "queued"]
  /\ UNCHANGED <<answers, up, caller, receiver, bounds>>

(* Requests of p that its peer may still answer.                           *)
Open(p) ==
  {k \in Requests : Request(k) \in Range(inbox[Peer(p)]) \union got[Peer(p)] \/ k \in todo[Peer(p)]}

(* Mutant of CallSync: the queue of the answers is not flushed.            *)
CallSyncNoFlush(p) ==
  /\ up[p] /\ pc[p] = "out"
  /\ calls < MaxCalls
  /\ calls' = calls + 1
  /\ req' = [req EXCEPT ![p] = calls + 1]
  /\ pc' = [pc EXCEPT ![p] = "flush"]
  /\ left' = [left EXCEPT ![p] = 0]
  /\ fresh' = [fresh EXCEPT ![p] = Open(p) = {}]
  /\ UNCHANGED <<queues, up, receiver, crashes, fate>>

(* msg_ipc_send_sync: msg_ipc_flush counts the answers in the queue ...    *)
CallSync(p) ==
  /\ up[p] /\ pc[p] = "out"
  /\ calls < MaxCalls
  /\ calls' = calls + 1
  /\ req' = [req EXCEPT ![p] = calls + 1]
  /\ pc' = [pc EXCEPT ![p] = "flush"]
  /\ left' = [left EXCEPT ![p] = Len(answers[p])]
  /\ fresh' = [fresh EXCEPT ![p] = Open(p) = {}]
  /\ UNCHANGED <<queues, up, receiver, crashes, fate>>

(* ... and takes as many.                                                  *)
FlushOne(p) ==
  /\ pc[p] = "flush"
  /\ left[p] > 0
  /\ left' = [left EXCEPT ![p] = @ - 1]
  /\ answers' = [answers EXCEPT ![p] = Rest(@)]
  /\ UNCHANGED <<inbox, up, pc, req, fresh, receiver, bounds, fate>>

(* The request goes where the messages go.                                 *)
SendRequest(p) ==
  /\ pc[p] = "flush"
  /\ left[p] = 0
  /\ IF Len(inbox[Peer(p)]) < Capacity
       THEN /\ inbox' = [inbox EXCEPT ![Peer(p)] = Insert(@, Request(req[p]))]
            /\ pc' = [pc EXCEPT ![p] = "wait"]
       ELSE /\ pc' = [pc EXCEPT ![p] = "full"]
            /\ UNCHANGED inbox
  /\ UNCHANGED <<answers, up, req, left, fresh, receiver, bounds, fate>>

(* EAGAIN: the queue of the peer is flushed ...                            *)
CountFull(p) ==
  /\ pc[p] = "full"
  /\ pc' = [pc EXCEPT ![p] = "drain"]
  /\ left' = [left EXCEPT ![p] = Len(inbox[Peer(p)])]
  /\ UNCHANGED <<queues, up, req, fresh, receiver, bounds, fate>>

DrainOne(p) ==
  /\ pc[p] = "drain"
  /\ left[p] > 0
  /\ left' = [left EXCEPT ![p] = @ - 1]
  /\ inbox' = [inbox EXCEPT ![Peer(p)] = Rest(@)]
  /\ fate' = [m \in Messages |->
                IF inbox[Peer(p)] # <<>> /\ Head(inbox[Peer(p)]) = Async(m)
                  THEN "drained" ELSE fate[m]]
  /\ UNCHANGED <<answers, up, pc, req, fresh, receiver, bounds>>

Return(p) ==
  /\ pc' = [pc EXCEPT ![p] = "out"]
  /\ req' = [req EXCEPT ![p] = None]
  /\ fresh' = [fresh EXCEPT ![p] = FALSE]

(* ... and the call fails.                                                 *)
Drained(p) ==
  /\ pc[p] = "drain"
  /\ left[p] = 0
  /\ Return(p)
  /\ UNCHANGED <<queues, up, left, receiver, bounds, fate>>

(* mq_read_sync takes the first answer, whatever it answers.               *)
Answered(p) ==
  /\ pc[p] = "wait"
  /\ answers[p] # <<>>
  /\ answers' = [answers EXCEPT ![p] = Tail(@)]
  /\ Return(p)
  /\ UNCHANGED <<inbox, up, left, receiver, bounds, fate>>

(* Mutant of TimeOut: the event is added with no time.                    *)
TimeOutNever(p) ==
  /\ FALSE
  /\ UNCHANGED <<queues, up, caller, receiver, bounds, fate>>

(* EV_TIMEOUT, which wins when an answer comes at the same moment: then it *)
(* is taken and the call fails all the same.                               *)
TimeOut(p) ==
  /\ pc[p] = "wait"
  /\ \E queue \in {answers[p], Rest(answers[p])} : answers' = [answers EXCEPT ![p] = queue]
  /\ Return(p)
  /\ UNCHANGED <<inbox, up, left, receiver, bounds, fate>>
-----------------------------------------------------------------------------
(* mq_msg_cb takes the first entry from the queue ...                      *)
Receive(p) ==
  /\ up[p]
  /\ got[p] = {}
  /\ inbox[p] # <<>>
  /\ inbox' = [inbox EXCEPT ![p] = Tail(@)]
  /\ got' = [got EXCEPT ![p] = {Head(inbox[p])}]
  /\ fate' = [m \in Messages |-> IF Head(inbox[p]) = Async(m) THEN "received" ELSE fate[m]]
  /\ UNCHANGED <<answers, up, caller, todo, bounds>>

(* ... and hands it on: a message is handled, a request given to a thread  *)
(* of the application.                                                     *)
Handle(p) ==
  /\ up[p]
  /\ got[p] # {}
  /\ got' = [got EXCEPT ![p] = {}]
  /\ todo' = [todo EXCEPT ![p] = @ \union {k \in Requests : Request(k) \in got[p]}]
  /\ fate' = [m \in Messages |-> IF Async(m) \in got[p] THEN "handled" ELSE fate[m]]
  /\ UNCHANGED <<queues, up, caller, bounds>>

(* msg_ipc_resp_sync; on a full queue the answer is lost.                  *)
Respond(p, k) ==
  /\ up[p]
  /\ k \in todo[p]
  /\ todo' = [todo EXCEPT ![p] = @ \ {k}]
  /\ answers' = [answers EXCEPT ![Peer(p)] = IF Len(@) < SyncCapacity THEN Append(@, k) ELSE @]
  /\ UNCHANGED <<inbox, up, caller, got, bounds, fate>>
-----------------------------------------------------------------------------
(* A process ends at any point; the queues stay, and what mq_msg_cb had    *)
(* received and not handed on is lost.                                     *)
Crash(p) ==
  /\ up[p]
  /\ crashes < MaxCrashes
  /\ crashes' = crashes + 1
  /\ up' = [up EXCEPT ![p] = FALSE]
  /\ Return(p)
  /\ left' = [left EXCEPT ![p] = 0]
  /\ got' = [got EXCEPT ![p] = {}]
  /\ todo' = [todo EXCEPT ![p] = {}]
  /\ fate' = [m \in Messages |-> IF Async(m) \in got[p] THEN "lost" ELSE fate[m]]
  /\ UNCHANGED <<queues, calls>>

(* Mutant of Restart: with the mq_unlink that is commented out.            *)
RestartUnlinks(p) ==
  /\ ~up[p]
  /\ up' = [up EXCEPT ![p] = TRUE]
  /\ inbox' = [inbox EXCEPT ![p] = <<>>]
  /\ UNCHANGED <<answers, caller, receiver, bounds, fate>>

(* msg_ipc_init opens the queues as they are ("the messages kept are of    *)
(* use", msg_ipc.c:296).                                                   *)
Restart(p) ==
  /\ ~up[p]
  /\ up' = [up EXCEPT ![p] = TRUE]
  /\ UNCHANGED <<queues, caller, receiver, bounds, fate>>
-----------------------------------------------------------------------------
CallStep(p) ==
  \/ FlushOne(p) \/ SendRequest(p) \/ CountFull(p) \/ DrainOne(p) \/ Drained(p)
  \/ Answered(p) \/ TimeOut(p)

ReceiverStep(p) == Receive(p) \/ Handle(p)

Next ==
  \/ \E m \in Messages : Put(m)
  \/ \E p \in Procs :
       \/ CallSync(p) \/ CallStep(p)
       \/ ReceiverStep(p) \/ \E k \in Requests : Respond(p, k)
       \/ Crash(p) \/ Restart(p)

(* Threads run, the time-out of a call passes, and a process that has      *)
(* crashed is started again.  Nothing makes a handler answer.              *)
Fairness ==
  \A p \in Procs : WF_vars(CallStep(p)) /\ WF_vars(ReceiverStep(p)) /\ WF_vars(Restart(p))

Spec == Init /\ [][Next]_vars /\ Fairness
-----------------------------------------------------------------------------
Entries == {"sync"} \X Requests \union {"async"} \X Messages
Fates == {"new", "queued", "drained", "received", "handled", "lost"}

(* No queue holds more than the kernel takes, and no flush takes more than *)
(* it has counted.                                                         *)
TypeOK ==
  /\ inbox \in [Procs -> Seq(Entries)] /\ answers \in [Procs -> Seq(Requests)]
  /\ \A p \in Procs : Len(inbox[p]) <= Capacity /\ Len(answers[p]) <= SyncCapacity
  /\ up \in [Procs -> BOOLEAN]
  /\ pc \in [Procs -> {"out", "flush", "full", "drain", "wait"}]
  /\ req \in [Procs -> Requests \union {None}]
  /\ left \in [Procs -> 0..(Capacity + SyncCapacity)]
  /\ got \in [Procs -> SUBSET Entries] /\ todo \in [Procs -> SUBSET Requests]
  /\ calls \in 0..MaxCalls /\ crashes \in 0..MaxCrashes
  /\ fate \in [Messages -> Fates]
  /\ fresh \in [Procs -> BOOLEAN]

(* The answer of an older request that timed out, of a former life of the  *)
(* process, or of the other side is never taken for the answer of a call   *)
(* that began with no older request open: what waits in the queue is its   *)
(* own.  (With an older request open its late answer may come first.)      *)
FreshAnswerFits ==
  \A p \in Procs :
    pc[p] = "wait" /\ fresh[p] => Range(answers[p]) \subseteq {req[p]}

(* A message msg_ipc_put has accepted stays in the queue until it is       *)
(* received or flushed, through crashes and restarts of either process.    *)
AcceptedIsQueued ==
  \A m \in Messages : fate[m] = "queued" => Async(m) \in Range(inbox[Peer(Sender[m])])

(* A message msg_ipc_put has accepted does not stay behind: it is handled, *)
(* also by a receiver that was restarted before it came to it.  It has two *)
(* other ends.  A sender that finds the queue full flushes it, its own     *)
(* accepted messages included (msg_ipc.c:172); and a receiver that crashes *)
(* between mq_receive (90) and the handler (97) takes the one message it   *)
(* has in hand with it.                                                    *)
PutIsHandled ==
  \A m \in Messages : fate[m] = "queued" ~> fate[m] \in {"handled", "drained", "lost"}

(* msg_ipc_send_sync returns, even with its peer gone and when both sides  *)
(* wait for each other.                                                    *)
CallReturns == \A p \in Procs : pc[p] # "out" ~> pc[p] = "out"
=============================================================================
