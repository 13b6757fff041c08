---------------------------- MODULE ThPoolProofs ----------------------------
(***************************************************************************)
(* The safety properties of ThPool for any pools, workers and clients.     *)
(***************************************************************************)
EXTENDS ThPool, FiniteSetTheorems, TLAPS

USE SetsAssumption DEF SetsAssumption

(* A client is in a call that fits the pool's life; of a pool that is      *)
(* being made or destroyed nobody else is in a call.                       *)
CallsFitState ==
  /\ \A c \in Clients :
       /\ cpc[c] \in {"add", "wait", "asleep"} => state[target[c]] = "up"
       /\ cpc[c] \in {"wait", "asleep"} => c \in WaitingClients
       /\ cpc[c] = "init" => state[target[c]] = "init"
       /\ cpc[c] = "destroy" => state[target[c]] = "dying"
  /\ \A c, d \in Clients :
       cpc[c] \in {"init", "destroy"} /\ target[d] = target[c] => d = c

(* Every worker of a pool in use has started, every worker of a freed one  *)
(* has counted itself out.                                                 *)
WorkersFitState ==
  \A w \in Workers :
    /\ state[PoolOf[w]] \in {"up", "dying"} => wpc[w] \notin {"none", "new"}
    /\ state[PoolOf[w]] = "none" => wpc[w] = "none"
    /\ state[PoolOf[w]] = "freed" => wpc[w] \in {"unlock", "dead"}

NoJobsUnlessUp ==
  \A p \in Pools : state[p] \in {"none", "init", "freed"} => queued[p] = 0

(* The flag every pool shares is set while a pool is made or in use.       *)
FlagIsSet ==
  FlagIsOurs => \A p \in Pools : state[p] \in {"init", "up"} => keepalive = TRUE

(* Where there is a job, the semaphore is up or a worker is on its way.    *)
JobHasWorker ==
  FlagIsOurs =>
    \A p \in Pools :
      state[p] = "up" /\ queued[p] > 0
        => v[p] = 1 \/ WorkersAt(p, {"check", "count", "pull", "pulling"}) # {}

(* Not all workers sleep beside a semaphore that is up.                    *)
PostIsSeen ==
  \A p \in Pools :
    v[p] = 1 /\ WorkersAt(p, {"asleep"}) # {} => WorkersAt(p, {"wait"}) # {}

(* TypeOK without the Boolean-valued variables.                            *)
TypeCore ==
  /\ state \in [Pools -> States]
  /\ alive \in [Pools -> Nat]
  /\ working \in [Pools -> Nat]
  /\ queued \in [Pools -> Nat]
  /\ v \in [Pools -> {0, 1}]
  /\ wpc \in [Workers -> WorkerPCs]
  /\ cpc \in [Clients -> ClientPCs]
  /\ target \in [Clients -> Pools \union {None}]
  /\ \A c \in Clients : cpc[c] = "idle" <=> target[c] = None

TypeFlags ==
  /\ keepalive \in BOOLEAN /\ onHold \in BOOLEAN
  /\ pending \in [Workers -> BOOLEAN] /\ held \in [Workers -> BOOLEAN]

(* The inductive invariant.  The counters are needed for the types (they   *)
(* never go below 0) and for the waiters; where the workers are, for what  *)
(* a free finds; the semaphore and the flag, for the jobs.                 *)
IInv ==
  /\ TypeCore /\ CountersExact
  /\ CallsFitState /\ WorkersFitState /\ NoJobsUnlessUp
  /\ FlagIsSet /\ JobHasWorker /\ PostIsSeen
  /\ LoneWaiterHasWork
-----------------------------------------------------------------------------
(* Counting the workers at some places.                                    *)

(* They are finitely many.                                                 *)
LEMMA WorkersFinite ==
  ASSUME NEW p, NEW S
  PROVE  IsFiniteSet(WorkersAt(p, S)) /\ Cardinality(WorkersAt(p, S)) \in Nat
<1>1. WorkersAt(p, S) \in SUBSET Workers
  BY DEF WorkersAt, WorkersOf
<1> QED
  BY <1>1, FS_Subset, FS_CardinalityType

(* A worker there makes the count positive.                                *)
LEMMA SomeoneCounts ==
  ASSUME NEW p, NEW S, NEW w \in WorkersAt(p, S)
  PROVE  Cardinality(WorkersAt(p, S)) >= 1
BY WorkersFinite, FS_EmptySet

(* Moves inside or outside the places leave the count alone.               *)
LEMMA SameCount ==
  ASSUME NEW p, NEW S, \A w \in WorkersOf(p) : wpc[w] \in S <=> wpc'[w] \in S
  PROVE  WorkersAt(p, S)' = WorkersAt(p, S)
BY DEF WorkersAt, WorkersOf

(* One worker that moves in or out changes it by one.                      *)
LEMMA PlusOne ==
  ASSUME wpc \in [Workers -> WorkerPCs], NEW w \in Workers, NEW to, NEW S,
         wpc' = [wpc EXCEPT ![w] = to], wpc[w] \notin S, to \in S
  PROVE  Cardinality(WorkersAt(PoolOf[w], S)') = Cardinality(WorkersAt(PoolOf[w], S)) + 1
<1>1. WorkersAt(PoolOf[w], S)' = WorkersAt(PoolOf[w], S) \cup {w} /\ w \notin WorkersAt(PoolOf[w], S)
  BY DEF WorkersAt, WorkersOf
<1> QED
  BY <1>1, WorkersFinite, FS_AddElement

(* ... one that moves out lowers it.                                       *)
LEMMA MinusOne ==
  ASSUME wpc \in [Workers -> WorkerPCs], NEW w \in Workers, NEW to, NEW S,
         wpc' = [wpc EXCEPT ![w] = to], wpc[w] \in S, to \notin S
  PROVE  Cardinality(WorkersAt(PoolOf[w], S)') = Cardinality(WorkersAt(PoolOf[w], S)) - 1
<1>1. WorkersAt(PoolOf[w], S)' = WorkersAt(PoolOf[w], S) \ {w} /\ w \in WorkersAt(PoolOf[w], S)
  BY DEF WorkersAt, WorkersOf
<1>2. Cardinality(WorkersAt(PoolOf[w], S) \ {w}) = Cardinality(WorkersAt(PoolOf[w], S)) - 1
  BY <1>1, WorkersFinite, FS_RemoveElement
<1> QED
  BY <1>1, <1>2

(* A step of thread_do is taken from where the worker is.                  *)
LEMMA GoMoves ==
  ASSUME NEW w, NEW from, NEW to, Go(w, from, to)
  PROVE  wpc[w] = from /\ wpc' = [wpc EXCEPT ![w] = to]
BY Zenon DEF Go

(* bsem_post wakes a sleeper or finds none.                                *)
LEMMA PostEffect ==
  ASSUME NEW pcs \in [Workers -> WorkerPCs], NEW p, wpc' \in PostedFrom(pcs, p)
  PROVE  \/ wpc' = pcs /\ \A w \in WorkersOf(p) : pcs[w] # "asleep"
         \/ \E x \in WorkersOf(p) : pcs[x] = "asleep" /\ wpc' = [pcs EXCEPT ![x] = "wait"]
BY DEF PostedFrom
-----------------------------------------------------------------------------
(* The initial states.                                                     *)
LEMMA InitInv == Init => IInv /\ TypeFlags
<1> SUFFICES ASSUME Init PROVE IInv /\ TypeFlags
    OBVIOUS
<1>1. TypeFlags
  BY Zenon DEF Init, TypeFlags
<1>2. TypeCore
  BY DEF Init, TypeCore, States, WorkerPCs, ClientPCs
<1>3. CountersExact
  <2>1. \A p \in Pools : WorkersAt(p, Counted) = {} /\ WorkersAt(p, Living) = {}
    BY DEF Init, WorkersAt, WorkersOf, Counted, Living
  <2> QED
    BY <2>1, FS_EmptySet DEF Init, CountersExact
<1>4. CallsFitState
  BY DEF Init, CallsFitState
<1>5. WorkersFitState /\ NoJobsUnlessUp
  BY DEF Init, WorkersFitState, NoJobsUnlessUp
<1>6. FlagIsSet /\ JobHasWorker
  BY DEF Init, FlagIsSet, JobHasWorker
<1>7. PostIsSeen
  BY DEF Init, PostIsSeen
<1>8. LoneWaiterHasWork
  BY DEF Init, LoneWaiterHasWork, Waiters
<1> QED
  BY <1>1, <1>2, <1>3, <1>4, <1>5, <1>6, <1>7, <1>8 DEF IInv
-----------------------------------------------------------------------------
(* What the parts of IInv depend on.                                       *)

OnItsWay == {"check", "count", "pull", "pulling"}

(* Nothing but the clients and the life of the pools matters to the calls, *)
(* the jobs, the flag and the waiters.                                     *)
LEMMA CallsFrame ==
  ASSUME CallsFitState, UNCHANGED <<state, cpc, target>>
  PROVE  CallsFitState'
BY DEF CallsFitState

(* The queues and the life of the pools.                                   *)
LEMMA JobsFrame ==
  ASSUME NoJobsUnlessUp, UNCHANGED <<state, queued>>
  PROVE  NoJobsUnlessUp'
BY DEF NoJobsUnlessUp

(* The global flag and the life of the pools.                              *)
LEMMA FlagFrame ==
  ASSUME FlagIsSet, UNCHANGED <<keepalive, state>>
  PROVE  FlagIsSet'
BY DEF FlagIsSet, FlagIsOurs

(* The waiting clients and the work.                                       *)
LEMMA WaitersFrame ==
  ASSUME LoneWaiterHasWork, UNCHANGED <<queued, working, cpc, target>>
  PROVE  LoneWaiterHasWork'
BY DEF LoneWaiterHasWork, Waiters

(* Where no worker moves, their facts stay.                                *)
LEMMA StillWorkers ==
  ASSUME CountersExact, WorkersFitState, PostIsSeen, JobHasWorker,
         UNCHANGED <<state, alive, working, queued, v, wpc>>
  PROVE  CountersExact' /\ WorkersFitState' /\ PostIsSeen' /\ JobHasWorker'
<1>1. \A p, S : WorkersAt(p, S)' = WorkersAt(p, S)
  BY DEF WorkersAt, WorkersOf
<1>2. CountersExact'
  BY <1>1 DEF CountersExact
<1>3. WorkersFitState'
  BY DEF WorkersFitState
<1>4. PostIsSeen'
  BY <1>1 DEF PostIsSeen
<1>5. JobHasWorker'
  BY <1>1 DEF JobHasWorker, FlagIsOurs
<1> QED
  BY <1>2, <1>3, <1>4, <1>5

(* A worker that has started and not ended moves on.                       *)
LEMMA MoveFits ==
  ASSUME WorkersFitState, wpc \in [Workers -> WorkerPCs], UNCHANGED state,
         NEW w \in Workers, NEW to \in WorkerPCs \ {"none", "new"},
         wpc' = [wpc EXCEPT ![w] = to], wpc[w] \notin {"none", "dead"},
         wpc[w] = "unlock" => to = "dead"
  PROVE  WorkersFitState'
BY DEF WorkersFitState

(* A worker that stays inside or outside both counts.                      *)
LEMMA MoveCountsSame ==
  ASSUME CountersExact, wpc \in [Workers -> WorkerPCs], UNCHANGED <<alive, working>>,
         NEW w \in Workers, NEW to, wpc' = [wpc EXCEPT ![w] = to],
         wpc[w] \in Counted <=> to \in Counted, wpc[w] \in Living <=> to \in Living
  PROVE  CountersExact'
<1>1. ASSUME NEW p, NEW u \in WorkersOf(p)
      PROVE  /\ wpc[u] \in Counted <=> wpc'[u] \in Counted
             /\ wpc[u] \in Living <=> wpc'[u] \in Living
  BY DEF WorkersOf
<1>2. \A p : /\ WorkersAt(p, Counted)' = WorkersAt(p, Counted)
             /\ WorkersAt(p, Living)' = WorkersAt(p, Living)
  BY <1>1, SameCount
<1> QED
  BY <1>2 DEF CountersExact

(* A worker that is on its way to a job stays so, or the job is nobody's.  *)
LEMMA MoveJobs ==
  ASSUME JobHasWorker, wpc \in [Workers -> WorkerPCs], UNCHANGED <<state, queued, v>>,
         NEW w \in Workers, NEW to, wpc' = [wpc EXCEPT ![w] = to],
         \/ wpc[w] \notin OnItsWay
         \/ to \in OnItsWay
         \/ FlagIsOurs => state[PoolOf[w]] # "up"
  PROVE  JobHasWorker'
<1>1. ASSUME NEW p \in Pools, NEW u \in WorkersAt(p, OnItsWay),
             FlagIsOurs, state[p] = "up"
      PROVE  u \in WorkersAt(p, OnItsWay)'
  BY <1>1 DEF WorkersAt, WorkersOf
<1> QED
  BY <1>1 DEF JobHasWorker, OnItsWay, FlagIsOurs

(* A worker that neither falls asleep nor leaves the test of the semaphore.*)
LEMMA MovePosts ==
  ASSUME PostIsSeen, wpc \in [Workers -> WorkerPCs], UNCHANGED v,
         NEW w \in Workers, NEW to, wpc' = [wpc EXCEPT ![w] = to],
         to # "asleep", wpc[w] # "wait" \/ to = "wait"
  PROVE  PostIsSeen'
<1>1. ASSUME NEW p
      PROVE  /\ WorkersAt(p, {"asleep"})' \subseteq WorkersAt(p, {"asleep"})
             /\ WorkersAt(p, {"wait"}) \subseteq WorkersAt(p, {"wait"})'
  BY DEF WorkersAt, WorkersOf
<1> QED
  BY <1>1 DEF PostIsSeen
-----------------------------------------------------------------------------
(* The steps of a worker.                                                  *)

(* Between two sections the worker only moves: the counts, the semaphore   *)
(* and the clients stay.                                                   *)
LEMMA PlainMove ==
  ASSUME IInv,
         UNCHANGED <<keepalive, state, alive, working, queued, v, cpc, target>>,
         NEW w \in Workers, NEW to \in WorkerPCs \ {"none", "new", "asleep"},
         wpc' = [wpc EXCEPT ![w] = to], wpc[w] \notin {"none", "dead"},
         wpc[w] # "wait" \/ to = "wait",
         wpc[w] = "unlock" => to = "dead",
         wpc[w] \in Counted <=> to \in Counted, wpc[w] \in Living <=> to \in Living,
         \/ wpc[w] \notin OnItsWay
         \/ to \in OnItsWay
         \/ FlagIsOurs => state[PoolOf[w]] # "up"
  PROVE  IInv'
<1> USE DEF IInv
<1>1. wpc \in [Workers -> WorkerPCs]
  BY DEF TypeCore
<1>2. TypeCore'
  BY DEF TypeCore
<1>3. CountersExact'
  BY <1>1, MoveCountsSame
<1>4. CallsFitState' /\ NoJobsUnlessUp' /\ FlagIsSet' /\ LoneWaiterHasWork'
  BY CallsFrame, JobsFrame, FlagFrame, WaitersFrame
<1>5. WorkersFitState'
  BY <1>1, MoveFits
<1>6. JobHasWorker'
  BY <1>1, MoveJobs
<1>7. PostIsSeen'
  BY <1>1, MovePosts
<1> QED
  BY <1>2, <1>3, <1>4, <1>5, <1>6, <1>7

(* The test of the flag at the head of the loop: a plain move.             *)
LEMMA TestLoopStep ==
  ASSUME IInv, NEW w \in Workers, TestLoop(w)
  PROVE  IInv'
<1>1. \E to \in {"wait", "exit"} : Go(w, "loop", to)
  BY Zenon DEF TestLoop
<1>2. PICK to \in {"wait", "exit"} : wpc[w] = "loop" /\ wpc' = [wpc EXCEPT ![w] = to]
  BY <1>1, GoMoves
<1>3. UNCHANGED <<keepalive, state, alive, working, queued, v, cpc, target>>
  BY DEF TestLoop, flags, counters, clients
<1> QED
  BY <1>2, <1>3, PlainMove DEF WorkerPCs, Counted, Living, OnItsWay

(* With a job in the queue the flag is set, so the worker goes on to it.   *)
LEMMA TestAliveStep ==
  ASSUME IInv, NEW w \in Workers, TestAlive(w)
  PROVE  IInv'
<1>1. UNCHANGED <<keepalive, state, alive, working, queued, v, cpc, target>>
  BY DEF TestAlive, flags, counters, clients
<1>2. CASE keepalive = TRUE
  <2>1. Go(w, "check", "count")
    BY <1>2, Zenon DEF TestAlive
  <2> QED
    BY <2>1, <1>1, GoMoves, PlainMove DEF WorkerPCs, Counted, Living, OnItsWay
<1>3. CASE keepalive # TRUE
  <2>1. FlagIsOurs => state[PoolOf[w]] # "up"
    BY <1>3 DEF IInv, FlagIsSet
  <2>2. \E to \in {"count", "loop"} : Go(w, "check", to)
    BY Zenon DEF TestAlive
  <2>3. PICK to \in {"count", "loop"} : wpc[w] = "check" /\ wpc' = [wpc EXCEPT ![w] = to]
    BY <2>2, GoMoves
  <2> QED
    BY <2>1, <2>3, <1>1, PlainMove DEF WorkerPCs, Counted, Living, OnItsWay
<1> QED
  BY <1>2, <1>3

(* A worker that locks rwmutex is still on its way to the job.             *)
LEMMA LockQueueStep ==
  ASSUME IInv, NEW w \in Workers, LockQueue(w)
  PROVE  IInv'
<1>1. wpc[w] = "pull" /\ wpc' = [wpc EXCEPT ![w] = "pulling"]
  BY GoMoves DEF LockQueue
<1>2. UNCHANGED <<keepalive, state, alive, working, queued, v, cpc, target>>
  BY DEF LockQueue, flags, counters, clients
<1> QED
  BY <1>1, <1>2, PlainMove DEF WorkerPCs, Counted, Living, OnItsWay

(* A job that returns is still counted as running.                         *)
LEMMA FinishJobStep ==
  ASSUME IInv, NEW w \in Workers, FinishJob(w)
  PROVE  IInv'
<1>1. wpc[w] = "run" /\ wpc' = [wpc EXCEPT ![w] = "done"]
  BY GoMoves DEF FinishJob
<1>2. UNCHANGED <<keepalive, state, alive, working, queued, v, cpc, target>>
  BY DEF FinishJob, flags, counters, clients
<1> QED
  BY <1>1, <1>2, PlainMove DEF WorkerPCs, Counted, Living, OnItsWay

(* The thread ends.                                                        *)
LEMMA UnlockAndEndStep ==
  ASSUME IInv, NEW w \in Workers, UnlockAndEnd(w)
  PROVE  IInv'
<1>1. wpc[w] = "unlock" /\ wpc' = [wpc EXCEPT ![w] = "dead"]
  BY GoMoves DEF UnlockAndEnd
<1>2. UNCHANGED <<keepalive, state, alive, working, queued, v, cpc, target>>
  BY DEF UnlockAndEnd, flags, counters, clients
<1> QED
  BY <1>1, <1>2, PlainMove DEF WorkerPCs, Counted, Living, OnItsWay

(* A worker counts itself in before it can be counted.                     *)
LEMMA StartStep ==
  ASSUME IInv, NEW w \in Workers, Start(w)
  PROVE  IInv'
<1> USE DEF IInv
<1> DEFINE p == PoolOf[w]
<1>1. wpc[w] = "new" /\ wpc' = [wpc EXCEPT ![w] = "loop"]
  BY GoMoves DEF Start
<1>2. /\ UNCHANGED <<keepalive, state, working, queued, v, cpc, target>>
      /\ alive' = [alive EXCEPT ![p] = @ + 1]
  BY DEF Start, flags, clients
<1>3. wpc \in [Workers -> WorkerPCs] /\ p \in Pools /\ alive \in [Pools -> Nat]
  BY DEF TypeCore
<1>4. TypeCore'
  BY <1>1, <1>2, <1>3 DEF TypeCore, WorkerPCs
<1>5. CountersExact'
  <2>1. Cardinality(WorkersAt(p, Living)') = alive[p] + 1
    <3>1. wpc[w] \notin Living /\ "loop" \in Living
      BY <1>1 DEF Living, WorkerPCs
    <3>2. Cardinality(WorkersAt(p, Living)') = Cardinality(WorkersAt(p, Living)) + 1
      BY <1>1, <1>3, <3>1, PlusOne
    <3> QED
      BY <3>2, <1>3 DEF CountersExact
  <2>2. ASSUME NEW q \in Pools
        PROVE  /\ WorkersAt(q, Counted)' = WorkersAt(q, Counted)
               /\ q # p => WorkersAt(q, Living)' = WorkersAt(q, Living)
    BY <1>1, <1>3 DEF WorkersAt, WorkersOf, Counted
  <2> QED
    BY <2>1, <2>2, <1>2, <1>3 DEF CountersExact
<1>6. CallsFitState' /\ NoJobsUnlessUp' /\ FlagIsSet' /\ LoneWaiterHasWork'
  BY <1>2, CallsFrame, JobsFrame, FlagFrame, WaitersFrame
<1>7. WorkersFitState'
  BY <1>1, <1>2, <1>3, MoveFits DEF WorkerPCs
<1>8. JobHasWorker' /\ PostIsSeen'
  BY <1>1, <1>2, <1>3, MoveJobs, MovePosts DEF OnItsWay
<1> QED
  BY <1>4, <1>5, <1>6, <1>7, <1>8

(* A worker that leaves counts itself out.                                 *)
LEMMA LeaveStep ==
  ASSUME IInv, NEW w \in Workers, Leave(w)
  PROVE  IInv'
<1> USE DEF IInv
<1> DEFINE p == PoolOf[w]
<1>1. wpc[w] = "exit" /\ wpc' = [wpc EXCEPT ![w] = "unlock"]
  BY GoMoves DEF Leave
<1>2. /\ UNCHANGED <<keepalive, state, working, queued, v, cpc, target>>
      /\ alive' = [alive EXCEPT ![p] = @ - 1]
  BY DEF Leave, flags, clients
<1>3. wpc \in [Workers -> WorkerPCs] /\ p \in Pools /\ alive \in [Pools -> Nat]
  BY DEF TypeCore
<1>4. Cardinality(WorkersAt(p, Living)') = alive[p] - 1
  <2>1. wpc[w] \in Living /\ "unlock" \notin Living
    BY <1>1 DEF Living, WorkerPCs
  <2>2. Cardinality(WorkersAt(p, Living)') = Cardinality(WorkersAt(p, Living)) - 1
    BY <1>1, <1>3, <2>1, MinusOne
  <2> QED
    BY <2>2, <1>3 DEF CountersExact
<1>5. alive[p] >= 1
  <2>1. w \in WorkersAt(p, Living)
    BY <1>1 DEF WorkersAt, WorkersOf, Living, WorkerPCs
  <2> QED
    BY <2>1, <1>3, SomeoneCounts DEF CountersExact
<1>6. TypeCore'
  BY <1>1, <1>2, <1>3, <1>5 DEF TypeCore, WorkerPCs
<1>7. CountersExact'
  <2>1. ASSUME NEW q \in Pools
        PROVE  /\ WorkersAt(q, Counted)' = WorkersAt(q, Counted)
               /\ q # p => WorkersAt(q, Living)' = WorkersAt(q, Living)
    BY <1>1, <1>3 DEF WorkersAt, WorkersOf, Counted
  <2> QED
    BY <2>1, <1>2, <1>3, <1>4 DEF CountersExact
<1>8. CallsFitState' /\ NoJobsUnlessUp' /\ FlagIsSet' /\ LoneWaiterHasWork'
  BY <1>2, CallsFrame, JobsFrame, FlagFrame, WaitersFrame
<1>9. WorkersFitState'
  BY <1>1, <1>2, <1>3, MoveFits DEF WorkerPCs
<1>10. JobHasWorker' /\ PostIsSeen'
  BY <1>1, <1>2, <1>3, MoveJobs, MovePosts DEF OnItsWay
<1> QED
  BY <1>6, <1>7, <1>8, <1>9, <1>10

(* A worker about to pull is counted as running.                           *)
LEMMA BeginWorkStep ==
  ASSUME IInv, NEW w \in Workers, BeginWork(w)
  PROVE  IInv'
<1> USE DEF IInv
<1> DEFINE p == PoolOf[w]
<1>1. wpc[w] = "count" /\ wpc' = [wpc EXCEPT ![w] = "pull"]
  BY GoMoves DEF BeginWork
<1>2. /\ UNCHANGED <<keepalive, state, alive, queued, v, cpc, target>>
      /\ working' = [working EXCEPT ![p] = @ + 1]
  BY DEF BeginWork, flags, clients
<1>3. wpc \in [Workers -> WorkerPCs] /\ p \in Pools /\ working \in [Pools -> Nat]
  BY DEF TypeCore
<1>4. TypeCore'
  BY <1>1, <1>2, <1>3 DEF TypeCore, WorkerPCs
<1>5. CountersExact'
  <2>1. Cardinality(WorkersAt(p, Counted)') = working[p] + 1
    <3>1. wpc[w] \notin Counted /\ "pull" \in Counted
      BY <1>1 DEF Counted
    <3>2. Cardinality(WorkersAt(p, Counted)') = Cardinality(WorkersAt(p, Counted)) + 1
      BY <1>1, <1>3, <3>1, PlusOne
    <3> QED
      BY <3>2, <1>3 DEF CountersExact
  <2>2. ASSUME NEW q \in Pools
        PROVE  /\ WorkersAt(q, Living)' = WorkersAt(q, Living)
               /\ q # p => WorkersAt(q, Counted)' = WorkersAt(q, Counted)
    BY <1>1, <1>3 DEF WorkersAt, WorkersOf, Living, WorkerPCs
  <2> QED
    BY <2>1, <2>2, <1>2, <1>3 DEF CountersExact
<1>6. CallsFitState' /\ NoJobsUnlessUp' /\ FlagIsSet'
  BY <1>2, CallsFrame, JobsFrame, FlagFrame
<1>7. LoneWaiterHasWork'
  BY <1>2, <1>3 DEF LoneWaiterHasWork, Waiters
<1>8. WorkersFitState'
  BY <1>1, <1>2, <1>3, MoveFits DEF WorkerPCs
<1>9. JobHasWorker' /\ PostIsSeen'
  BY <1>1, <1>2, <1>3, MoveJobs, MovePosts DEF OnItsWay
<1> QED
  BY <1>4, <1>5, <1>6, <1>7, <1>8, <1>9

(* EndWork wakes the only waiter when it lowers the count to 0.            *)
LEMMA EndWorkStep ==
  ASSUME IInv, NEW w \in Workers, EndWork(w)
  PROVE  IInv'
<1> USE DEF IInv
<1> DEFINE p == PoolOf[w]
<1>1. wpc[w] = "done" /\ wpc' = [wpc EXCEPT ![w] = "loop"]
  BY GoMoves DEF EndWork
<1>2. /\ UNCHANGED <<keepalive, state, alive, queued, v, target>>
      /\ working' = [working EXCEPT ![p] = @ - 1]
  BY DEF EndWork, flags
<1>3. /\ wpc \in [Workers -> WorkerPCs] /\ p \in Pools /\ working \in [Pools -> Nat]
      /\ cpc \in [Clients -> ClientPCs]
  BY DEF TypeCore
<1>4. IF working[p] = 1 /\ Waiters(p) # {}
        THEN \E c \in Waiters(p) : cpc' = [cpc EXCEPT ![c] = "wait"]
        ELSE cpc' = cpc
  BY DEF EndWork
<1>5. \A c \in Clients : \/ cpc'[c] = cpc[c]
                         \/ cpc[c] = "asleep" /\ cpc'[c] = "wait"
  BY <1>3, <1>4 DEF Waiters
<1>6. working[p] >= 1
  <2>1. w \in WorkersAt(p, Counted)
    BY <1>1 DEF WorkersAt, WorkersOf, Counted
  <2> QED
    BY <2>1, <1>3, SomeoneCounts DEF CountersExact
<1>7. TypeCore'
  <2>1. cpc' \in [Clients -> ClientPCs]
    BY <1>3, <1>4 DEF ClientPCs, Waiters
  <2> QED
    BY <1>1, <1>2, <1>3, <1>5, <1>6, <2>1 DEF TypeCore, WorkerPCs
<1>8. CountersExact'
  <2>1. wpc[w] \in Counted /\ "loop" \notin Counted
    BY <1>1 DEF Counted
  <2>2. Cardinality(WorkersAt(p, Counted)') = Cardinality(WorkersAt(p, Counted)) - 1
    BY <1>1, <1>3, <2>1, MinusOne
  <2>3. ASSUME NEW q \in Pools
        PROVE  /\ WorkersAt(q, Living)' = WorkersAt(q, Living)
               /\ q # p => WorkersAt(q, Counted)' = WorkersAt(q, Counted)
    BY <1>1, <1>3 DEF WorkersAt, WorkersOf, Living, WorkerPCs
  <2> QED
    BY <2>2, <2>3, <1>2, <1>3 DEF CountersExact
<1>9. CallsFitState'
  BY <1>2, <1>5 DEF CallsFitState
<1>10. NoJobsUnlessUp' /\ FlagIsSet'
  BY <1>2, JobsFrame, FlagFrame
<1>11. LoneWaiterHasWork'
  <2> SUFFICES ASSUME \A c, d \in WaitingClients : c = d,
                      NEW q \in Pools, NEW c \in Waiters(q)'
               PROVE  queued'[q] > 0 \/ working'[q] > 0
      BY DEF LoneWaiterHasWork
  <2>1. c \in Waiters(q) /\ cpc'[c] = "asleep"
    BY <1>2, <1>5 DEF Waiters
  <2>2. CASE q # p
    BY <2>1, <2>2, <1>2, <1>3 DEF LoneWaiterHasWork
  <2>3. CASE q = p
    <3>1. working[p] # 1
      <4>1. SUFFICES ASSUME working[p] = 1 PROVE FALSE
            OBVIOUS
      <4>2. PICK d \in Waiters(p) : cpc' = [cpc EXCEPT ![d] = "wait"]
        BY <1>4, <2>1, <2>3, <4>1
      <4>3. d = c
        BY <2>1, <2>3 DEF Waiters, CallsFitState
      <4> QED
        BY <4>2, <4>3, <2>1, <1>3 DEF Waiters
    <3> QED
      BY <3>1, <2>3, <1>2, <1>3, <1>6
  <2> QED
    BY <2>2, <2>3
<1>12. WorkersFitState'
  BY <1>1, <1>2, <1>3, MoveFits DEF WorkerPCs
<1>13. JobHasWorker' /\ PostIsSeen'
  BY <1>1, <1>2, <1>3, MoveJobs, MovePosts DEF OnItsWay
<1> QED
  BY <1>7, <1>8, <1>9, <1>10, <1>11, <1>12, <1>13

(* Workers of other pools stay where they are.                             *)
LEMMA Elsewhere ==
  ASSUME NEW p, \A u \in Workers : PoolOf[u] # p => wpc'[u] = wpc[u],
         NEW q, q # p, NEW S
  PROVE  WorkersAt(q, S)' = WorkersAt(q, S)
BY DEF WorkersAt, WorkersOf

(* A worker takes the post and is on its way, or finds none and sleeps.    *)
LEMMA BsemWaitStep ==
  ASSUME IInv, NEW w \in Workers, BsemWait(w)
  PROVE  IInv'
<1> USE DEF IInv
<1> DEFINE p == PoolOf[w]
<1>1. /\ wpc \in [Workers -> WorkerPCs] /\ p \in Pools
      /\ v \in [Pools -> {0, 1}]
  BY DEF TypeCore
<1>2. UNCHANGED <<keepalive, state, alive, working, queued, cpc, target>>
  BY DEF BsemWait, flags, clients
<1>3. PICK to \in {"check", "asleep"} :
        /\ wpc[w] = "wait" /\ wpc' = [wpc EXCEPT ![w] = to]
        /\ IF to = "check" THEN v' = [v EXCEPT ![p] = 0] ELSE v' = v /\ v[p] # 1
  BY GoMoves DEF BsemWait
<1>4. \A q, S : q # p => WorkersAt(q, S)' = WorkersAt(q, S)
  BY <1>1, <1>3, Elsewhere
<1>5. TypeCore'
  BY <1>1, <1>2, <1>3 DEF TypeCore, WorkerPCs
<1>6. CountersExact'
  BY <1>1, <1>2, <1>3, MoveCountsSame DEF Counted, Living, WorkerPCs
<1>7. CallsFitState' /\ NoJobsUnlessUp' /\ FlagIsSet' /\ LoneWaiterHasWork'
  BY <1>2, CallsFrame, JobsFrame, FlagFrame, WaitersFrame
<1>8. WorkersFitState'
  BY <1>1, <1>2, <1>3, MoveFits DEF WorkerPCs
<1>9. JobHasWorker'
  <2>1. CASE to = "check"
    <3>1. w \in WorkersAt(p, OnItsWay)'
      BY <1>1, <1>3, <2>1 DEF WorkersAt, WorkersOf, OnItsWay
    <3>2. \A q \in Pools : q # p => v'[q] = v[q]
      BY <1>1, <1>3, <2>1
    <3> QED
      BY <3>1, <3>2, <1>2, <1>4 DEF JobHasWorker, OnItsWay, FlagIsOurs
  <2>2. CASE to = "asleep"
    BY <1>1, <1>2, <1>3, <2>2, MoveJobs DEF OnItsWay
  <2> QED
    BY <2>1, <2>2
<1>10. PostIsSeen'
  <2>1. v'[p] = 0 /\ \A q \in Pools : q # p => v'[q] = v[q]
    BY <1>1, <1>3
  <2> QED
    BY <2>1, <1>4 DEF PostIsSeen
<1> QED
  BY <1>5, <1>6, <1>7, <1>8, <1>9, <1>10
-----------------------------------------------------------------------------
(* The steps that post, and wakeups.                                       *)

(* Moves of several workers that change no count.                          *)
LEMMA WokenFit ==
  ASSUME CountersExact, WorkersFitState, UNCHANGED <<state, alive, working>>,
         \A u \in Workers : \/ wpc'[u] = wpc[u]
                            \/ wpc[u] = "asleep" /\ wpc'[u] = "wait"
                            \/ wpc[u] = "pulling" /\ wpc'[u] \in {"run", "done"}
  PROVE  CountersExact' /\ WorkersFitState'
<1>1. \A u \in Workers : /\ wpc[u] \in Counted <=> wpc'[u] \in Counted
                         /\ wpc[u] \in Living <=> wpc'[u] \in Living
  BY DEF Counted, Living, WorkerPCs
<1>2. \A p : /\ WorkersAt(p, Counted)' = WorkersAt(p, Counted)
             /\ WorkersAt(p, Living)' = WorkersAt(p, Living)
  BY <1>1, SameCount DEF WorkersOf
<1>3. CountersExact'
  BY <1>2 DEF CountersExact
<1>4. WorkersFitState'
  BY DEF WorkersFitState
<1> QED
  BY <1>3, <1>4

(* After a post nobody of the pool sleeps, or somebody goes to look.       *)
LEMMA PostWakes ==
  ASSUME NEW pcs \in [Workers -> WorkerPCs], NEW p, wpc' \in PostedFrom(pcs, p)
  PROVE  WorkersAt(p, {"asleep"})' = {} \/ WorkersAt(p, {"wait"})' # {}
<1>1. CASE wpc' = pcs /\ \A w \in WorkersOf(p) : pcs[w] # "asleep"
  BY <1>1 DEF WorkersAt, WorkersOf
<1>2. CASE \E x \in WorkersOf(p) : wpc' = [pcs EXCEPT ![x] = "wait"]
  <2>1. PICK x \in WorkersOf(p) : wpc' = [pcs EXCEPT ![x] = "wait"]
    BY <1>2
  <2>2. x \in WorkersAt(p, {"wait"})'
    BY <2>1 DEF WorkersAt, WorkersOf
  <2> QED
    BY <2>2
<1> QED
  BY <1>1, <1>2, PostEffect

(* jobqueue_pull takes a job, and posts for the next one.                  *)
LEMMA PullStep ==
  ASSUME IInv, NEW w \in Workers, Pull(w)
  PROVE  IInv'
<1> USE DEF IInv
<1> DEFINE p == PoolOf[w]
<1>1. /\ wpc \in [Workers -> WorkerPCs] /\ p \in Pools
      /\ v \in [Pools -> {0, 1}] /\ queued \in [Pools -> Nat]
  BY DEF TypeCore
<1>2. UNCHANGED <<keepalive, state, alive, working, cpc, target>> /\ wpc[w] = "pulling"
  BY GoMoves DEF Pull, flags, clients
<1>3. \/ /\ queued'[p] = 0
         /\ v' = v
         /\ \E to \in {"run", "done"} : wpc' = [wpc EXCEPT ![w] = to]
         /\ queued' \in [Pools -> Nat]
         /\ \A q \in Pools : q # p => queued'[q] = queued[q]
      \/ /\ queued[p] > 1
         /\ queued' = [queued EXCEPT ![p] = @ - 1]
         /\ v' = [v EXCEPT ![p] = 1]
         /\ wpc' \in PostedFrom([wpc EXCEPT ![w] = "run"], p)
  <2>1. CASE queued[p] = 0
    BY <2>1, <1>1, GoMoves DEF Pull
  <2>2. CASE queued[p] = 1
    BY <2>2, <1>1, GoMoves DEF Pull
  <2>3. CASE queued[p] > 1
    BY <2>3, <1>1 DEF Pull
  <2> QED
    BY <2>1, <2>2, <2>3, <1>1
<1>4. /\ wpc' \in [Workers -> WorkerPCs]
      /\ \A u \in Workers : \/ wpc'[u] = wpc[u]
                            \/ wpc[u] = "asleep" /\ wpc'[u] = "wait" /\ PoolOf[u] = p
                            \/ wpc[u] = "pulling" /\ wpc'[u] \in {"run", "done"} /\ u = w
  <2>1. CASE \E to \in {"run", "done"} : wpc' = [wpc EXCEPT ![w] = to]
    BY <2>1, <1>1, <1>2 DEF WorkerPCs
  <2>2. CASE wpc' \in PostedFrom([wpc EXCEPT ![w] = "run"], p)
    <3>1. [wpc EXCEPT ![w] = "run"] \in [Workers -> WorkerPCs]
      BY <1>1 DEF WorkerPCs
    <3>2. \/ wpc' = [wpc EXCEPT ![w] = "run"]
          \/ \E x \in WorkersOf(p) : /\ [wpc EXCEPT ![w] = "run"][x] = "asleep"
                                     /\ wpc' = [[wpc EXCEPT ![w] = "run"] EXCEPT ![x] = "wait"]
      BY <2>2, <3>1, PostEffect
    <3> QED
      BY <3>2, <1>1, <1>2 DEF WorkersOf, WorkerPCs
  <2> QED
    BY <1>3, <2>1, <2>2
<1>5. \A q, S : q # p => WorkersAt(q, S)' = WorkersAt(q, S)
  BY <1>4, Elsewhere
<1>6. /\ queued' \in [Pools -> Nat] /\ v' \in [Pools -> {0, 1}]
      /\ \A q \in Pools : q # p => queued'[q] = queued[q] /\ v'[q] = v[q]
  BY <1>1, <1>3
<1>7. TypeCore'
  BY <1>2, <1>4, <1>6 DEF TypeCore
<1>8. CountersExact' /\ WorkersFitState'
  BY <1>2, <1>4, WokenFit
<1>9. CallsFitState' /\ FlagIsSet'
  BY <1>2, CallsFrame, FlagFrame
<1>10. NoJobsUnlessUp'
  <2>1. state[p] \notin {"none", "init", "freed"} \/ queued'[p] = 0
    BY <1>1, <1>3 DEF NoJobsUnlessUp
  <2> QED
    BY <2>1, <1>2, <1>6 DEF NoJobsUnlessUp
<1>11. LoneWaiterHasWork'
  <2>1. working[p] >= 1
    <3>1. w \in WorkersAt(p, Counted)
      BY <1>2 DEF WorkersAt, WorkersOf, Counted
    <3> QED
      BY <3>1, <1>1, SomeoneCounts DEF CountersExact
  <2>2. working[p] > 0
    BY <2>1, <1>1 DEF TypeCore
  <2>3. \A q \in Pools : Waiters(q)' = Waiters(q) /\ working'[q] = working[q]
    BY <1>2 DEF Waiters
  <2> QED
    BY <2>2, <2>3, <1>6 DEF LoneWaiterHasWork
<1>12. JobHasWorker'
  <2>1. queued'[p] = 0 \/ v'[p] = 1
    BY <1>1, <1>3
  <2> QED
    BY <2>1, <1>2, <1>5, <1>6 DEF JobHasWorker, FlagIsOurs
<1>13. PostIsSeen'
  <2>1. CASE v' = v /\ \E to \in {"run", "done"} : wpc' = [wpc EXCEPT ![w] = to]
    BY <2>1, <1>1, <1>2, MovePosts
  <2>2. CASE wpc' \in PostedFrom([wpc EXCEPT ![w] = "run"], p)
    <3>1. [wpc EXCEPT ![w] = "run"] \in [Workers -> WorkerPCs]
      BY <1>1 DEF WorkerPCs
    <3>2. WorkersAt(p, {"asleep"})' = {} \/ WorkersAt(p, {"wait"})' # {}
      BY <2>2, <3>1, PostWakes
    <3> QED
      BY <3>2, <1>5, <1>6 DEF PostIsSeen
  <2> QED
    BY <1>3, <2>1, <2>2
<1> QED
  BY <1>7, <1>8, <1>9, <1>10, <1>11, <1>12, <1>13

(* Nobody returns from a call the pool's life depends on.                  *)
LEMMA ReturnFits ==
  ASSUME TypeCore, CallsFitState, UNCHANGED state,
         NEW c \in Clients, Return(c)
  PROVE  /\ CallsFitState'
         /\ cpc' \in [Clients -> ClientPCs]
         /\ target' \in [Clients -> Pools \union {None}]
         /\ \A d \in Clients : cpc'[d] = "idle" <=> target'[d] = None
         /\ \A d \in Clients : d # c => cpc'[d] = cpc[d] /\ target'[d] = target[d]
         /\ cpc'[c] = "idle"
<1>1. /\ cpc' \in [Clients -> ClientPCs]
      /\ target' \in [Clients -> Pools \union {None}]
      /\ cpc'[c] = "idle" /\ target'[c] = None
      /\ \A d \in Clients : d # c => cpc'[d] = cpc[d] /\ target'[d] = target[d]
  BY DEF TypeCore, Return, ClientPCs
<1>2. \A d \in Clients : cpc'[d] = "idle" <=> target'[d] = None
  BY <1>1 DEF TypeCore
<1>3. CallsFitState'
  BY <1>1, <1>2 DEF CallsFitState
<1> QED
  BY <1>1, <1>2, <1>3

(* jobqueue_push counts the job and posts.                                 *)
LEMMA PushStep ==
  ASSUME IInv, NEW c \in Clients, Push(c)
  PROVE  IInv'
<1> USE DEF IInv
<1>1. /\ wpc \in [Workers -> WorkerPCs] /\ v \in [Pools -> {0, 1}]
      /\ queued \in [Pools -> Nat]
  BY DEF TypeCore
<1>2. PICK p \in Pools : p = target[c] /\ state[p] = "up"
  BY DEF TypeCore, CallsFitState, Push
<1>3. /\ UNCHANGED <<keepalive, state, alive, working>>
      /\ queued' = [queued EXCEPT ![p] = @ + 1]
      /\ v' = [v EXCEPT ![p] = 1]
      /\ cpc[c] = "add" /\ Return(c)
  BY <1>2 DEF Push, flags
<1>4. wpc' \in PostedFrom(wpc, p)
  BY <1>2 DEF Push
<1>5. /\ wpc' \in [Workers -> WorkerPCs]
      /\ \A u \in Workers :
           \/ wpc'[u] = wpc[u]
           \/ wpc[u] = "asleep" /\ wpc'[u] = "wait" /\ PoolOf[u] = p
  <2>1. \/ wpc' = wpc
        \/ \E x \in WorkersOf(p) : wpc[x] = "asleep" /\ wpc' = [wpc EXCEPT ![x] = "wait"]
    BY <1>1, <1>4, PostEffect
  <2> QED
    BY <2>1, <1>1 DEF WorkersOf, WorkerPCs
<1>6. \A q, S : q # p => WorkersAt(q, S)' = WorkersAt(q, S)
  BY <1>5, Elsewhere
<1>7. /\ queued' \in [Pools -> Nat] /\ v' \in [Pools -> {0, 1}] /\ v'[p] = 1
      /\ queued'[p] > 0
      /\ \A q \in Pools : q # p => queued'[q] = queued[q] /\ v'[q] = v[q]
  BY <1>1, <1>3, <1>2
<1>8. TypeCore' /\ CallsFitState'
  BY <1>3, <1>5, <1>7, ReturnFits DEF TypeCore
<1>9. CountersExact' /\ WorkersFitState'
  BY <1>3, <1>5, WokenFit
<1>10. NoJobsUnlessUp' /\ FlagIsSet'
  BY <1>3, <1>2, <1>7, FlagFrame DEF NoJobsUnlessUp
<1>11. LoneWaiterHasWork'
  <2>1. \A q \in Pools : Waiters(q)' \subseteq Waiters(q)
    BY <1>3, ReturnFits DEF Waiters
  <2> QED
    BY <2>1, <1>3, <1>7 DEF LoneWaiterHasWork
<1>12. JobHasWorker'
  BY <1>3, <1>6, <1>7 DEF JobHasWorker, FlagIsOurs
<1>13. PostIsSeen'
  <2>1. WorkersAt(p, {"asleep"})' = {} \/ WorkersAt(p, {"wait"})' # {}
    BY <1>1, <1>4, PostWakes
  <2> QED
    BY <2>1, <1>6, <1>7 DEF PostIsSeen
<1> QED
  BY <1>8, <1>9, <1>10, <1>11, <1>12, <1>13

(* A wakeup without a signal, of a worker or of a waiting client.          *)
LEMMA SpuriousWakeupStep ==
  ASSUME IInv, SpuriousWakeup
  PROVE  IInv'
<1> USE DEF IInv
<1>1. UNCHANGED <<keepalive, state, alive, working, queued, v, target>>
  BY DEF SpuriousWakeup, flags, counters
<1>2. /\ wpc \in [Workers -> WorkerPCs] /\ cpc \in [Clients -> ClientPCs]
  BY DEF TypeCore
<1>3. CASE cpc' = cpc /\ \E w \in Workers : Go(w, "asleep", "wait")
  <2>1. PICK w \in Workers : wpc[w] = "asleep" /\ wpc' = [wpc EXCEPT ![w] = "wait"]
    BY <1>3, GoMoves
  <2> QED
    BY <2>1, <1>1, <1>3, PlainMove DEF WorkerPCs, Counted, Living, OnItsWay
<1>4. CASE wpc' = wpc /\ \E p \in Pools : \E c \in Waiters(p) : cpc' = [cpc EXCEPT ![c] = "wait"]
  <2>1. PICK c \in Clients : cpc[c] = "asleep" /\ cpc' = [cpc EXCEPT ![c] = "wait"]
    BY <1>4 DEF Waiters
  <2>2. TypeCore'
    BY <2>1, <1>1, <1>2, <1>4 DEF TypeCore, ClientPCs
  <2>3. CallsFitState'
    BY <2>1, <1>1, <1>2 DEF CallsFitState
  <2>4. NoJobsUnlessUp' /\ FlagIsSet'
    BY <1>1, JobsFrame, FlagFrame
  <2>5. LoneWaiterHasWork'
    <3>1. \A q \in Pools : Waiters(q)' \subseteq Waiters(q)
      BY <2>1, <1>1, <1>2 DEF Waiters
    <3> QED
      BY <3>1, <1>1 DEF LoneWaiterHasWork
  <2>6. CountersExact' /\ WorkersFitState' /\ PostIsSeen' /\ JobHasWorker'
    BY <1>1, <1>4, StillWorkers
  <2> QED
    BY <2>2, <2>3, <2>4, <2>5, <2>6
<1> QED
  BY <1>3, <1>4, Zenon DEF SpuriousWakeup
-----------------------------------------------------------------------------
(* The steps of the clients.                                               *)

(* A call changes the place of its client only.                            *)
LEMMA CallMoves ==
  ASSUME TypeCore, NEW c \in Clients, NEW p \in Pools,
         NEW op \in ClientPCs \ {"idle"}, Call(c, p, op)
  PROVE  /\ cpc[c] = "idle" /\ target[c] = None
         /\ cpc' \in [Clients -> ClientPCs]
         /\ target' \in [Clients -> Pools \union {None}]
         /\ \A d \in Clients : cpc'[d] = "idle" <=> target'[d] = None
         /\ cpc'[c] = op /\ target'[c] = p
         /\ \A d \in Clients : d # c => cpc'[d] = cpc[d] /\ target'[d] = target[d]
BY DEF TypeCore, Call

(* A call on a pool that is up.                                            *)
LEMMA UpCallStep ==
  ASSUME IInv, NEW c \in Clients, NEW p \in Pools, NEW op \in {"add", "wait"},
         state[p] = "up", op = "wait" => c \in WaitingClients, Call(c, p, op),
         UNCHANGED <<keepalive, state, alive, working, queued, v, wpc>>
  PROVE  IInv'
<1> USE DEF IInv
<1>1. /\ cpc[c] = "idle" /\ target[c] = None
      /\ cpc' \in [Clients -> ClientPCs]
      /\ target' \in [Clients -> Pools \union {None}]
      /\ \A d \in Clients : cpc'[d] = "idle" <=> target'[d] = None
      /\ cpc'[c] = op /\ target'[c] = p
      /\ \A d \in Clients : d # c => cpc'[d] = cpc[d] /\ target'[d] = target[d]
  BY CallMoves DEF ClientPCs
<1>2. TypeCore'
  BY <1>1 DEF TypeCore
<1>3. CallsFitState'
  BY <1>1 DEF CallsFitState
<1>4. NoJobsUnlessUp' /\ FlagIsSet'
  BY JobsFrame, FlagFrame
<1>5. LoneWaiterHasWork'
  <2>1. \A q \in Pools : Waiters(q)' = Waiters(q)
    BY <1>1 DEF Waiters
  <2> QED
    BY <2>1 DEF LoneWaiterHasWork
<1>6. CountersExact' /\ WorkersFitState' /\ PostIsSeen' /\ JobHasWorker'
  BY StillWorkers
<1> QED
  BY <1>2, <1>3, <1>4, <1>5, <1>6

(* The call of thpool_add_work.                                            *)
LEMMA CallAddStep ==
  ASSUME IInv, NEW c \in Clients, NEW p \in Pools, CallAdd(c, p)
  PROVE  IInv'
BY UpCallStep DEF CallAdd, flags, counters

(* The call of thpool_wait.                                                *)
LEMMA CallWaitStep ==
  ASSUME IInv, NEW c \in Clients, NEW p \in Pools, CallWait(c, p)
  PROVE  IInv'
BY UpCallStep DEF CallWait, flags, counters

(* thpool_wait sleeps beside work only.                                    *)
LEMMA WaitCheckStep ==
  ASSUME IInv, NEW c \in Clients, WaitCheck(c)
  PROVE  IInv'
<1> USE DEF IInv
<1>1. /\ UNCHANGED <<keepalive, state, alive, working, queued, v, wpc>>
      /\ cpc[c] = "wait"
  BY DEF WaitCheck, flags, counters
<1>2. CountersExact' /\ WorkersFitState' /\ PostIsSeen' /\ JobHasWorker'
  BY <1>1, StillWorkers
<1>3. NoJobsUnlessUp' /\ FlagIsSet'
  BY <1>1, JobsFrame, FlagFrame
<1>4. CASE Return(c)
  <2>1. TypeCore' /\ CallsFitState'
    BY <1>1, <1>4, ReturnFits DEF TypeCore
  <2>2. LoneWaiterHasWork'
    <3>1. \A q \in Pools : Waiters(q)' \subseteq Waiters(q)
      BY <1>1, <1>4, ReturnFits DEF Waiters
    <3> QED
      BY <3>1, <1>1 DEF LoneWaiterHasWork
  <2> QED
    BY <1>2, <1>3, <2>1, <2>2
<1>5. CASE /\ queued[target[c]] > 0 \/ working[target[c]] > 0
           /\ cpc' = [cpc EXCEPT ![c] = "asleep"] /\ target' = target
  <2>1. TypeCore'
    BY <1>1, <1>5 DEF TypeCore, ClientPCs
  <2>2. CallsFitState'
    BY <1>1, <1>5 DEF TypeCore, CallsFitState
  <2>3. LoneWaiterHasWork'
    <3>1. \A q \in Pools : q # target[c] => Waiters(q)' = Waiters(q)
      BY <1>1, <1>5 DEF Waiters, TypeCore
    <3> QED
      BY <3>1, <1>1, <1>5 DEF LoneWaiterHasWork
  <2> QED
    BY <1>2, <1>3, <2>1, <2>2, <2>3
<1> QED
  BY <1>4, <1>5 DEF WaitCheck

(* Nobody is in a call on a pool that is not there.                        *)
LEMMA NobodyCalls ==
  ASSUME TypeCore, CallsFitState, NEW p \in Pools, state[p] \in {"none", "freed"},
         NEW d \in Clients
  PROVE  target[d] # p
BY DEF TypeCore, CallsFitState, ClientPCs

(* thpool_init starts from an empty pool and nobody's workers.             *)
LEMMA CallInitStep ==
  ASSUME IInv, NEW c \in Clients, NEW p \in Pools, CallInit(c, p)
  PROVE  IInv'
<1> USE DEF IInv
<1>1. /\ state[p] \in {"none", "freed"}
      /\ WorkersAt(p, {"none", "dead"}) = WorkersOf(p)
      /\ Call(c, p, "init")
      /\ state' = [state EXCEPT ![p] = "init"]
      /\ alive' = [alive EXCEPT ![p] = 0]
      /\ working' = [working EXCEPT ![p] = 0]
      /\ queued' = [queued EXCEPT ![p] = 0]
      /\ v' = [v EXCEPT ![p] = 0]
  BY DEF CallInit
<1>2. keepalive' = TRUE
  BY DEF CallInit
<1>3. PICK created \in SUBSET WorkersOf(p) :
        wpc' = [w \in Workers |-> IF w \in created THEN "new" ELSE wpc[w]]
  BY Zenon DEF CallInit
<1>4. /\ wpc' \in [Workers -> WorkerPCs]
      /\ \A u \in Workers : PoolOf[u] # p => wpc'[u] = wpc[u]
      /\ \A u \in Workers : PoolOf[u] = p => wpc'[u] \in {"none", "dead", "new"}
  BY <1>1, <1>3 DEF TypeCore, WorkersOf, WorkersAt, WorkerPCs
<1>5. \A q, S : q # p => WorkersAt(q, S)' = WorkersAt(q, S)
  BY <1>4, Elsewhere
<1>6. /\ cpc[c] = "idle" /\ target[c] = None
      /\ cpc' \in [Clients -> ClientPCs]
      /\ target' \in [Clients -> Pools \union {None}]
      /\ \A d \in Clients : cpc'[d] = "idle" <=> target'[d] = None
      /\ cpc'[c] = "init" /\ target'[c] = p
      /\ \A d \in Clients : d # c => cpc'[d] = cpc[d] /\ target'[d] = target[d]
  BY <1>1, CallMoves DEF ClientPCs
<1>7. \A d \in Clients : target[d] # p
  BY <1>1, NobodyCalls
<1>8. /\ state' \in [Pools -> States] /\ state'[p] = "init"
      /\ alive' \in [Pools -> Nat] /\ alive'[p] = 0
      /\ working' \in [Pools -> Nat] /\ working'[p] = 0
      /\ queued' \in [Pools -> Nat] /\ queued'[p] = 0
      /\ v' \in [Pools -> {0, 1}] /\ v'[p] = 0
      /\ \A q \in Pools : q # p => /\ state'[q] = state[q] /\ alive'[q] = alive[q]
                                   /\ working'[q] = working[q] /\ queued'[q] = queued[q]
                                   /\ v'[q] = v[q]
  BY <1>1 DEF TypeCore, States
<1>9. TypeCore'
  BY <1>4, <1>6, <1>8 DEF TypeCore
<1>10. CountersExact'
  <2>1. WorkersAt(p, Counted)' = {} /\ WorkersAt(p, Living)' = {}
    BY <1>4 DEF WorkersAt, WorkersOf, Counted, Living
  <2>2. \A q \in Pools : q # p => /\ working'[q] = Cardinality(WorkersAt(q, Counted)')
                                  /\ alive'[q] = Cardinality(WorkersAt(q, Living)')
    BY <1>5, <1>8 DEF CountersExact
  <2> QED
    BY <2>1, <2>2, <1>8, FS_EmptySet DEF CountersExact
<1>11. CallsFitState'
  BY <1>6, <1>7, <1>8, <1>9 DEF CallsFitState, TypeCore
<1>12. WorkersFitState'
  BY <1>4, <1>8 DEF WorkersFitState
<1>13. NoJobsUnlessUp'
  BY <1>8 DEF NoJobsUnlessUp
<1>14. FlagIsSet'
  BY <1>2 DEF FlagIsSet
<1>15. JobHasWorker' /\ PostIsSeen'
  BY <1>5, <1>8 DEF JobHasWorker, PostIsSeen, FlagIsOurs
<1>16. LoneWaiterHasWork'
  <2>1. Waiters(p)' = {}
    BY <1>6, <1>7 DEF Waiters
  <2>2. \A q \in Pools : q # p => Waiters(q)' = Waiters(q)
    BY <1>6 DEF Waiters
  <2> QED
    BY <2>1, <2>2, <1>8 DEF LoneWaiterHasWork
<1> QED
  BY <1>9, <1>10, <1>11, <1>12, <1>13, <1>14, <1>15, <1>16

(* What stays when the life of one pool moves on and nothing else does.    *)
LEMMA LifeStep ==
  ASSUME TypeCore, CountersExact, PostIsSeen,
         NEW p \in Pools, NEW new \in States, state' = [state EXCEPT ![p] = new],
         UNCHANGED <<alive, working, queued, v, wpc>>
  PROVE  /\ CountersExact' /\ PostIsSeen'
         /\ \A S : WorkersAt(p, S)' = WorkersAt(p, S)
         /\ state' \in [Pools -> States] /\ state'[p] = new
         /\ \A q \in Pools : q # p => state'[q] = state[q]
<1>1. \A q, S : WorkersAt(q, S)' = WorkersAt(q, S)
  BY DEF WorkersAt, WorkersOf
<1> QED
  BY <1>1 DEF TypeCore, CountersExact, PostIsSeen

(* The spin of thpool_init ends when every worker has counted itself in.   *)
LEMMA InitDoneStep ==
  ASSUME IInv, NEW c \in Clients, InitDone(c)
  PROVE  IInv'
<1> USE DEF IInv
<1>1. PICK p \in Pools : p = target[c] /\ state[p] = "init"
  BY DEF TypeCore, CallsFitState, InitDone
<1>2. /\ UNCHANGED <<keepalive, alive, working, queued, v, wpc>>
      /\ state' = [state EXCEPT ![p] = "up"]
      /\ cpc[c] = "init" /\ alive[p] = Cardinality(WorkersOf(p))
      /\ Return(c)
  BY <1>1 DEF InitDone, flags, counters
<1>3. /\ CountersExact' /\ PostIsSeen'
      /\ state' \in [Pools -> States] /\ state'[p] = "up"
      /\ \A q \in Pools : q # p => state'[q] = state[q]
  BY <1>2, LifeStep DEF States
<1>4. /\ cpc' \in [Clients -> ClientPCs]
      /\ target' \in [Clients -> Pools \union {None}]
      /\ cpc'[c] = "idle" /\ target'[c] = None
      /\ \A d \in Clients : d # c => cpc'[d] = cpc[d] /\ target'[d] = target[d]
  BY <1>2 DEF Return, TypeCore, ClientPCs
<1>5. TypeCore'
  BY <1>2, <1>3, <1>4 DEF TypeCore
<1>6. CallsFitState'
  <2>1. \A d \in Clients : d # c => target[d] # p
    BY <1>1, <1>2 DEF CallsFitState
  <2> QED
    BY <2>1, <1>3, <1>4, <1>5 DEF CallsFitState, TypeCore
<1>7. \A w \in WorkersOf(p) : wpc[w] \in Living
  <2>1. WorkersAt(p, Living) \subseteq WorkersOf(p) /\ IsFiniteSet(WorkersOf(p))
    BY FS_Subset DEF WorkersAt, WorkersOf
  <2>2. WorkersAt(p, Living) = WorkersOf(p)
    BY <2>1, <1>2, FS_Subset DEF CountersExact
  <2> QED
    BY <2>2 DEF WorkersAt
<1>8. WorkersFitState'
  BY <1>2, <1>3, <1>7 DEF WorkersFitState, WorkersOf, Living
<1>9. NoJobsUnlessUp'
  BY <1>2, <1>3 DEF NoJobsUnlessUp
<1>10. FlagIsSet'
  BY <1>1, <1>2, <1>3 DEF FlagIsSet, FlagIsOurs
<1>11. JobHasWorker'
  <2>1. \A q, S : WorkersAt(q, S)' = WorkersAt(q, S)
    BY <1>2 DEF WorkersAt, WorkersOf
  <2>2. queued[p] = 0
    BY <1>1 DEF NoJobsUnlessUp
  <2> QED
    BY <2>1, <2>2, <1>2, <1>3 DEF JobHasWorker, FlagIsOurs
<1>12. LoneWaiterHasWork'
  <2>1. \A q \in Pools : Waiters(q)' \subseteq Waiters(q)
    BY <1>4 DEF Waiters
  <2> QED
    BY <2>1, <1>2 DEF LoneWaiterHasWork
<1> QED
  BY <1>3, <1>5, <1>6, <1>8, <1>9, <1>10, <1>11, <1>12

(* thpool_destroy clears the flag of every pool: of no other one that is   *)
(* in use, if the flag is ours.                                            *)
LEMMA CallDestroyStep ==
  ASSUME IInv, NEW c \in Clients, NEW p \in Pools, CallDestroy(c, p)
  PROVE  IInv'
<1> USE DEF IInv
<1>1. /\ UNCHANGED <<alive, working, queued, v, wpc>>
      /\ state' = [state EXCEPT ![p] = "dying"]
      /\ state[p] = "up"
      /\ \A d \in Clients : target[d] # p
      /\ Call(c, p, "destroy")
  BY DEF CallDestroy, counters
<1>2. FlagIsOurs => \A q \in Pools : q = p
  <2>1. MayDestroy
    BY Zenon DEF CallDestroy
  <2> QED
    BY <2>1, Zenon DEF FlagIsOurs
<1>3. /\ CountersExact' /\ PostIsSeen'
      /\ \A S : WorkersAt(p, S)' = WorkersAt(p, S)
      /\ state' \in [Pools -> States] /\ state'[p] = "dying"
      /\ \A q \in Pools : q # p => state'[q] = state[q]
  BY <1>1, LifeStep DEF States
<1>4. /\ cpc[c] = "idle" /\ target[c] = None
      /\ cpc' \in [Clients -> ClientPCs]
      /\ target' \in [Clients -> Pools \union {None}]
      /\ \A d \in Clients : cpc'[d] = "idle" <=> target'[d] = None
      /\ cpc'[c] = "destroy" /\ target'[c] = p
      /\ \A d \in Clients : d # c => cpc'[d] = cpc[d] /\ target'[d] = target[d]
  BY <1>1, CallMoves DEF ClientPCs
<1>5. TypeCore'
  BY <1>1, <1>3, <1>4 DEF TypeCore
<1>6. CallsFitState'
  BY <1>1, <1>3, <1>4, <1>5 DEF CallsFitState, TypeCore
<1>7. WorkersFitState' /\ NoJobsUnlessUp'
  BY <1>1, <1>3 DEF WorkersFitState, NoJobsUnlessUp
<1>8. FlagIsSet' /\ JobHasWorker'
  <2>1. FlagIsOurs' <=> FlagIsOurs
    BY Zenon DEF FlagIsOurs
  <2> QED
    BY <2>1, <1>2, <1>3 DEF FlagIsSet, JobHasWorker
<1>9. LoneWaiterHasWork'
  <2>1. \A q \in Pools : Waiters(q)' = Waiters(q)
    BY <1>4 DEF Waiters
  <2> QED
    BY <2>1, <1>1 DEF LoneWaiterHasWork
<1> QED
  BY <1>3, <1>5, <1>6, <1>7, <1>8, <1>9

(* bsem_post_all leaves no worker of the pool asleep.                      *)
LEMMA PostAllStep ==
  ASSUME IInv, NEW c \in Clients, PostAll(c)
  PROVE  IInv'
<1> USE DEF IInv
<1>1. PICK p \in Pools : p = target[c] /\ state[p] = "dying"
  BY DEF TypeCore, CallsFitState, PostAll
<1>2. /\ UNCHANGED <<keepalive, state, alive, working, queued, cpc, target>>
      /\ v' = [v EXCEPT ![p] = 1]
      /\ wpc' = [w \in Workers |-> IF w \in WorkersAt(p, {"asleep"}) THEN "wait" ELSE wpc[w]]
  BY <1>1 DEF PostAll, flags, clients
<1>3. /\ wpc' \in [Workers -> WorkerPCs]
      /\ \A u \in Workers :
           \/ wpc'[u] = wpc[u]
           \/ wpc[u] = "asleep" /\ wpc'[u] = "wait" /\ PoolOf[u] = p
  BY <1>2 DEF WorkersAt, WorkersOf, TypeCore, WorkerPCs
<1>4. \A q, S : q # p => WorkersAt(q, S)' = WorkersAt(q, S)
  BY <1>3, Elsewhere
<1>5. v' \in [Pools -> {0, 1}] /\ \A q \in Pools : q # p => v'[q] = v[q]
  BY <1>2 DEF TypeCore
<1>6. TypeCore'
  BY <1>2, <1>3, <1>5 DEF TypeCore
<1>7. CountersExact' /\ WorkersFitState'
  BY <1>2, <1>3, WokenFit
<1>8. CallsFitState' /\ NoJobsUnlessUp' /\ FlagIsSet' /\ LoneWaiterHasWork'
  BY <1>2, CallsFrame, JobsFrame, FlagFrame, WaitersFrame
<1>9. JobHasWorker'
  BY <1>1, <1>2, <1>4, <1>5 DEF JobHasWorker, FlagIsOurs
<1>10. PostIsSeen'
  <2>1. WorkersAt(p, {"asleep"})' = {}
    BY <1>2 DEF WorkersAt, WorkersOf
  <2> QED
    BY <2>1, <1>4, <1>5 DEF PostIsSeen
<1> QED
  BY <1>6, <1>7, <1>8, <1>9, <1>10

(* The free comes when every worker has counted itself out.                *)
LEMMA DestroyDoneStep ==
  ASSUME IInv, NEW c \in Clients, DestroyDone(c)
  PROVE  IInv'
<1> USE DEF IInv
<1>1. PICK p \in Pools : p = target[c] /\ state[p] = "dying"
  BY DEF TypeCore, CallsFitState, DestroyDone
<1>2. /\ UNCHANGED <<keepalive, alive, working, wpc>>
      /\ state' = [state EXCEPT ![p] = "freed"]
      /\ queued' = [queued EXCEPT ![p] = 0]
      /\ v' = [v EXCEPT ![p] = 0]
      /\ cpc[c] = "destroy" /\ alive[p] = 0
      /\ Return(c)
  BY <1>1 DEF DestroyDone, flags
<1>3. /\ state' \in [Pools -> States] /\ state'[p] = "freed"
      /\ queued' \in [Pools -> Nat] /\ queued'[p] = 0
      /\ v' \in [Pools -> {0, 1}] /\ v'[p] = 0
      /\ \A q \in Pools : q # p => /\ state'[q] = state[q] /\ queued'[q] = queued[q]
                                   /\ v'[q] = v[q]
  BY <1>2 DEF TypeCore, States
<1>4. /\ cpc' \in [Clients -> ClientPCs]
      /\ target' \in [Clients -> Pools \union {None}]
      /\ cpc'[c] = "idle" /\ target'[c] = None
      /\ \A d \in Clients : d # c => cpc'[d] = cpc[d] /\ target'[d] = target[d]
  BY <1>2 DEF Return, TypeCore, ClientPCs
<1>5. \A q, S : WorkersAt(q, S)' = WorkersAt(q, S)
  BY <1>2 DEF WorkersAt, WorkersOf
<1>6. TypeCore'
  BY <1>2, <1>3, <1>4 DEF TypeCore
<1>7. CountersExact'
  BY <1>2, <1>5 DEF CountersExact
<1>8. CallsFitState'
  <2>1. \A d \in Clients : d # c => target[d] # p
    BY <1>1, <1>2 DEF CallsFitState
  <2> QED
    BY <2>1, <1>3, <1>4, <1>6 DEF CallsFitState, TypeCore
<1>9. WorkersFitState'
  <2>1. WorkersAt(p, Living) = {}
    BY <1>2, WorkersFinite, FS_EmptySet DEF CountersExact
  <2>2. \A w \in WorkersOf(p) : wpc[w] \in {"unlock", "dead"}
    BY <2>1, <1>1 DEF WorkersAt, WorkersOf, Living, TypeCore, WorkersFitState
  <2> QED
    BY <2>2, <1>2, <1>3 DEF WorkersFitState, WorkersOf
<1>10. NoJobsUnlessUp'
  BY <1>3 DEF NoJobsUnlessUp
<1>11. FlagIsSet'
  BY <1>2, <1>3 DEF FlagIsSet, FlagIsOurs
<1>12. JobHasWorker' /\ PostIsSeen'
  BY <1>3, <1>5 DEF JobHasWorker, PostIsSeen, FlagIsOurs
<1>13. LoneWaiterHasWork'
  <2>1. Waiters(p) = {}
    BY <1>1 DEF Waiters, CallsFitState
  <2>2. \A q \in Pools : Waiters(q)' \subseteq Waiters(q)
    BY <1>4 DEF Waiters
  <2> QED
    BY <2>1, <2>2, <1>2, <1>3 DEF LoneWaiterHasWork
<1> QED
  BY <1>6, <1>7, <1>8, <1>9, <1>10, <1>11, <1>12, <1>13

(* A signal, a hold, a resume: nothing of this.                            *)
LEMMA QuietStep ==
  ASSUME IInv, UNCHANGED <<keepalive, state, alive, working, queued, v, wpc, cpc, target>>
  PROVE  IInv'
<1> USE DEF IInv
<1>1. TypeCore'
  BY DEF TypeCore
<1>2. CallsFitState' /\ NoJobsUnlessUp' /\ FlagIsSet' /\ LoneWaiterHasWork'
  BY CallsFrame, JobsFrame, FlagFrame, WaitersFrame
<1>3. CountersExact' /\ WorkersFitState' /\ PostIsSeen' /\ JobHasWorker'
  BY StillWorkers
<1> QED
  BY <1>1, <1>2, <1>3
-----------------------------------------------------------------------------
(* Every step keeps the invariant.                                         *)
LEMMA StepInv == IInv /\ [Next]_vars => IInv'
<1> SUFFICES ASSUME IInv, [Next]_vars PROVE IInv'
    OBVIOUS
<1>1. CASE UNCHANGED vars
  BY <1>1, QuietStep DEF vars, flags, counters, clients
<1>2. CASE SpuriousWakeup
  BY <1>2, SpuriousWakeupStep
<1>3. ASSUME NEW w \in Workers, WorkerStep(w) \/ Deliver(w) \/ Release(w)
      PROVE  IInv'
  <2>1. CASE Deliver(w)
    BY <2>1, QuietStep DEF Deliver, counters, clients
  <2>2. CASE Release(w)
    BY <2>2, QuietStep DEF Release, flags, counters, clients
  <2>3. CASE WorkerStep(w)
    BY <2>3, StartStep, TestLoopStep, BsemWaitStep, TestAliveStep, BeginWorkStep,
       LockQueueStep, PullStep, FinishJobStep, EndWorkStep, LeaveStep, UnlockAndEndStep
       DEF WorkerStep
  <2> QED
    BY <1>3, <2>1, <2>2, <2>3
<1>4. ASSUME NEW c \in Clients, Resume(c) \/ ClientStep(c)
      PROVE  IInv'
  <2>1. CASE Resume(c)
    BY <2>1, QuietStep DEF Resume, counters, clients
  <2>2. CASE ClientStep(c)
    BY <2>2, InitDoneStep, PushStep, WaitCheckStep, PostAllStep, DestroyDoneStep
       DEF ClientStep
  <2> QED
    BY <1>4, <2>1, <2>2
<1>5. ASSUME NEW c \in Clients, NEW p \in Pools,
             \/ CallInit(c, p) \/ CallAdd(c, p) \/ CallWait(c, p)
             \/ Pause(c, p) \/ CallDestroy(c, p)
      PROVE  IInv'
  <2>1. CASE Pause(c, p)
    BY <2>1, QuietStep DEF Pause, flags, counters, clients
  <2>2. CASE CallInit(c, p) \/ CallAdd(c, p) \/ CallWait(c, p) \/ CallDestroy(c, p)
    BY <2>2, CallInitStep, CallAddStep, CallWaitStep, CallDestroyStep
  <2> QED
    BY <1>5, <2>1, <2>2
<1> QED
  BY <1>1, <1>2, <1>3, <1>4, <1>5 DEF Next

(* IInv holds in every reachable state, for any pools, workers, clients    *)
(* and options.                                                            *)
THEOREM Invariance == Spec => []IInv
<1>1. Init => IInv
  BY InitInv
<1> QED
  BY <1>1, StepInv, PTL DEF Spec
-----------------------------------------------------------------------------
(* The flags stay Boolean.                                                 *)
LEMMA FlagsSame ==
  ASSUME TypeFlags, UNCHANGED <<keepalive, onHold, pending, held>>
  PROVE  TypeFlags'
BY DEF TypeFlags

(* No step makes them anything else.                                       *)
LEMMA FlagsStep == TypeFlags /\ [Next]_vars => TypeFlags'
<1> SUFFICES ASSUME TypeFlags, [Next]_vars PROVE TypeFlags'
    OBVIOUS
<1>1. CASE UNCHANGED vars
  BY <1>1, FlagsSame DEF vars, flags, signals
<1>2. CASE SpuriousWakeup
  BY <1>2, FlagsSame DEF SpuriousWakeup, flags, signals
<1>3. ASSUME NEW w \in Workers, WorkerStep(w) PROVE TypeFlags'
  <2>1. CASE UnlockAndEnd(w)
    BY <2>1 DEF UnlockAndEnd, TypeFlags, flags
  <2>2. CASE Start(w) \/ TestLoop(w) \/ BsemWait(w) \/ TestAlive(w) \/ BeginWork(w)
             \/ LockQueue(w) \/ Pull(w) \/ FinishJob(w) \/ EndWork(w) \/ Leave(w)
    BY <2>2, FlagsSame DEF Start, TestLoop, BsemWait, TestAlive, BeginWork, LockQueue,
       Pull, FinishJob, EndWork, Leave, flags, signals
  <2> QED
    BY <1>3, <2>1, <2>2 DEF WorkerStep
<1>4. ASSUME NEW w \in Workers, Deliver(w) PROVE TypeFlags'
  BY <1>4 DEF Deliver, TypeFlags
<1>5. ASSUME NEW w \in Workers, Release(w) PROVE TypeFlags'
  BY <1>5 DEF Release, TypeFlags, flags
<1>6. ASSUME NEW c \in Clients, Resume(c) PROVE TypeFlags'
  BY <1>6 DEF Resume, TypeFlags, signals
<1>7. ASSUME NEW c \in Clients, ClientStep(c) PROVE TypeFlags'
  BY <1>7, FlagsSame DEF ClientStep, InitDone, Push, WaitCheck, PostAll, DestroyDone,
     flags, signals
<1>8. ASSUME NEW c \in Clients, NEW p \in Pools, CallAdd(c, p) \/ CallWait(c, p)
      PROVE  TypeFlags'
  BY <1>8, FlagsSame DEF CallAdd, CallWait, flags, signals
<1>9. ASSUME NEW c \in Clients, NEW p \in Pools, CallInit(c, p) PROVE TypeFlags'
  BY <1>9 DEF CallInit, TypeFlags, signals
<1>10. ASSUME NEW c \in Clients, NEW p \in Pools, Pause(c, p) PROVE TypeFlags'
  BY <1>10 DEF Pause, TypeFlags, flags
<1>11. ASSUME NEW c \in Clients, NEW p \in Pools, CallDestroy(c, p) PROVE TypeFlags'
  BY <1>11 DEF CallDestroy, TypeFlags, signals
<1> QED
  BY <1>1, <1>2, <1>3, <1>4, <1>5, <1>6, <1>7, <1>8, <1>9, <1>10, <1>11 DEF Next

(* The variables keep their types; in particular num_threads_alive and     *)
(* num_threads_working never go below 0.                                   *)
THEOREM TypeCorrect == Spec => []TypeOK
<1>1. Init => TypeFlags
  BY InitInv
<1>2. IInv => TypeCore
  BY DEF IInv
<1>3. TypeCore /\ TypeFlags => TypeOK
  BY Zenon DEF TypeCore, TypeFlags, TypeOK
<1> QED
  BY <1>1, <1>2, <1>3, FlagsStep, Invariance, PTL DEF Spec

(* num_threads_working and num_threads_alive count the workers they stand  *)
(* for.                                                                    *)
THEOREM CountersAreExact == Spec => []CountersExact
<1>1. IInv => CountersExact
  BY DEF IInv
<1> QED
  BY <1>1, Invariance, PTL

(* As long as nobody destroys another pool, no worker sleeps beside a job  *)
(* nobody is coming for.                                                   *)
THEOREM NoWorkerSleeps == Spec => []NoWorkerSleepsBesideJob
<1>1. IInv => NoWorkerSleepsBesideJob
  BY DEF IInv, JobHasWorker, PostIsSeen, NoWorkerSleepsBesideJob
<1> QED
  BY <1>1, Invariance, PTL

(* A caller of thpool_wait that is alone sleeps only while there is work.  *)
THEOREM LoneWaiter == Spec => []LoneWaiterHasWork
<1>1. IInv => LoneWaiterHasWork
  BY DEF IInv
<1> QED
  BY <1>1, Invariance, PTL

(* thpool_destroy frees a pool none of whose workers will touch it again,  *)
(* except to unlock its mutex.                                             *)
THEOREM FreedAreFinished == Spec => []FreedMeansFinished
<1>1. IInv => FreedMeansFinished
  BY DEF IInv, WorkersFitState, FreedMeansFinished, WorkersAt, WorkersOf
<1> QED
  BY <1>1, Invariance, PTL

(* Only the loop of thpool_wait takes a waiting client home, and it finds  *)
(* both counts at 0.                                                       *)
LEMMA WaitReturns ==
  ASSUME IInv, [Next]_vars, NEW c \in Clients, cpc[c] = "wait", cpc'[c] = "idle"
  PROVE  queued[target[c]] = 0 /\ working[target[c]] = 0
<1>1. CASE WaitCheck(c)
  BY <1>1 DEF WaitCheck, IInv, TypeCore, ClientPCs
<1>2. ASSUME NEW d \in Clients, ClientStep(d), d # c \/ ~WaitCheck(c)
      PROVE  FALSE
  BY <1>2 DEF ClientStep, InitDone, Push, WaitCheck, PostAll, DestroyDone, Return,
     clients, IInv, TypeCore
<1>3. ASSUME NEW d \in Clients, NEW p \in Pools,
             \/ CallInit(d, p) \/ CallAdd(d, p) \/ CallWait(d, p)
             \/ Pause(d, p) \/ CallDestroy(d, p)
      PROVE  FALSE
  BY <1>3 DEF CallInit, CallAdd, CallWait, Pause, CallDestroy, Call, clients, IInv, TypeCore
<1>4. ASSUME NEW d \in Clients, Resume(d) PROVE FALSE
  BY <1>4 DEF Resume, clients
<1>5. ASSUME NEW w \in Workers, WorkerStep(w) \/ Deliver(w) \/ Release(w) PROVE FALSE
  <2>1. CASE EndWork(w)
    BY <2>1 DEF EndWork, Waiters, IInv, TypeCore
  <2>2. CASE Deliver(w) \/ Release(w)
    BY <2>2 DEF Deliver, Release, clients
  <2>3. CASE Start(w) \/ TestLoop(w) \/ BsemWait(w) \/ TestAlive(w) \/ BeginWork(w)
             \/ LockQueue(w) \/ Pull(w) \/ FinishJob(w) \/ Leave(w) \/ UnlockAndEnd(w)
    BY <2>3 DEF Start, TestLoop, BsemWait, TestAlive, BeginWork, LockQueue, Pull,
       FinishJob, Leave, UnlockAndEnd, clients
  <2> QED
    BY <1>5, <2>1, <2>2, <2>3 DEF WorkerStep
<1>6. CASE SpuriousWakeup
  BY <1>6 DEF SpuriousWakeup, Waiters, IInv, TypeCore
<1>7. CASE UNCHANGED vars
  BY <1>7 DEF vars, clients
<1> QED
  BY <1>1, <1>2, <1>3, <1>4, <1>5, <1>6, <1>7 DEF Next

(* thpool_wait never returns while a job of the pool is queued or running. *)
THEOREM WaitIsNeverEarly == Spec => WaitNeverEarly
<1>1. ASSUME IInv, [Next]_vars,
             NEW c \in Clients, cpc[c] = "wait", cpc'[c] = "idle"
      PROVE  queued[target[c]] = 0 /\ WorkersAt(target[c], {"run"}) = {}
  <2>1. queued[target[c]] = 0 /\ working[target[c]] = 0
    BY <1>1, WaitReturns
  <2>2. target[c] \in Pools
    BY <1>1 DEF IInv, TypeCore
  <2>3. WorkersAt(target[c], Counted) = {}
    BY <1>1, <2>1, <2>2, WorkersFinite, FS_EmptySet DEF IInv, CountersExact
  <2> QED
    BY <2>1, <2>3 DEF WorkersAt, Counted
<1>2. IInv /\ [Next]_vars
        => [\A c \in Clients :
              cpc[c] = "wait" /\ cpc'[c] = "idle"
                => queued[target[c]] = 0 /\ WorkersAt(target[c], {"run"}) = {}]_vars
  BY <1>1
<1> QED
  BY <1>2, Invariance, PTL DEF Spec, WaitNeverEarly
=============================================================================
