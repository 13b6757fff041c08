------------------------------- MODULE ThPool -------------------------------
(***************************************************************************)
(* The thread pools of src/src/thpool/thpool.c: the threads that use them, *)
(* the workers, the job queue with its binary semaphore, and the two       *)
(* global flags threads_keepalive and threads_on_hold every pool shares.   *)
(*                                                                         *)
(* A stretch of code between the lock and the unlock of one mutex is one   *)
(* action, with two exceptions that matter below: a worker inside          *)
(* jobqueue_pull holds rwmutex in a state of its own, where a SIGUSR1 can  *)
(* stop it, and a worker that has counted itself out still has to unlock   *)
(* thcount_lock.                                                           *)
(***************************************************************************)
EXTENDS Integers, FiniteSets

CONSTANTS
  Pools, Workers, Clients,
  PoolOf,         \* the pool of each worker
  WaitingClients, \* the clients that call thpool_wait
  MaxQueued,      \* bound: thpool_add_work is not called on a longer queue
  MayPause,       \* whether clients call thpool_pause and thpool_resume
  MayDestroy,     \* whether clients call thpool_destroy
  CreateMayFail,  \* whether malloc or pthread_create may fail in thread_init
  None

ASSUME SetsAssumption ==
  /\ IsFiniteSet(Workers)
  /\ PoolOf \in [Workers -> Pools]
  /\ WaitingClients \subseteq Clients
  /\ None \notin Pools
ASSUME OptionsAssumption ==
  /\ MaxQueued \in Nat
  /\ MayPause \in BOOLEAN
  /\ MayDestroy \in BOOLEAN
  /\ CreateMayFail \in BOOLEAN

VARIABLES
  keepalive,  \* threads_keepalive # 0, one for all pools
  onHold,     \* threads_on_hold # 0, one for all pools
  state,      \* state[p]: the life of the pool object
  alive,      \* alive[p]: num_threads_alive
  working,    \* working[p]: num_threads_working
  queued,     \* queued[p]: jobqueue.len, the jobs themselves being alike
  v,          \* v[p]: the binary semaphore has_jobs
  wpc,        \* wpc[w]: where worker w is in thread_do
  pending,    \* pending[w]: a SIGUSR1 is on its way to w
  held,       \* held[w]: w is inside the handler thread_hold
  cpc,        \* cpc[c]: the call client c is in
  target      \* target[c]: the pool of that call

flags == <<keepalive, onHold>>
counters == <<alive, working, queued, v>>
signals == <<pending, held>>
clients == <<cpc, target>>
vars == <<flags, state, counters, wpc, signals, clients>>

States == {"none", "init", "up", "dying", "freed"}
WorkerPCs == {"none", "new", "loop", "wait", "asleep", "check", "count", "pull",
              "pulling", "run", "done", "exit", "unlock", "dead"}
(* Between ++ and -- of num_threads_working, of num_threads_alive.         *)
Counted == {"pull", "pulling", "run", "done"}
Living == WorkerPCs \ {"none", "new", "unlock", "dead"}
ClientPCs == {"idle", "init", "add", "wait", "asleep", "destroy"}

WorkersOf(p) == {w \in Workers : PoolOf[w] = p}
WorkersAt(p, locs) == {w \in WorkersOf(p) : wpc[w] \in locs}
Waiters(p) == {c \in Clients : target[c] = p /\ cpc[c] = "asleep"}

ThcountFree(p) == WorkersAt(p, {"unlock"}) = {}
RwmutexFree(p) == WorkersAt(p, {"pulling"}) = {}

(* bsem_post: the semaphore is 1, and one worker asleep on its condition,  *)
(* if any, goes back to test it.  pcs are the workers' places before.      *)
PostedFrom(pcs, p) ==
  LET asleep == {w \in WorkersOf(p) : pcs[w] = "asleep"}
  IN  IF asleep = {} THEN {pcs} ELSE {[pcs EXCEPT ![w] = "wait"] : w \in asleep}

Init ==
  /\ keepalive = FALSE
  /\ onHold = FALSE
  /\ state = [p \in Pools |-> "none"]
  /\ alive = [p \in Pools |-> 0]
  /\ working = [p \in Pools |-> 0]
  /\ queued = [p \in Pools |-> 0]
  /\ v = [p \in Pools |-> 0]
  /\ wpc = [w \in Workers |-> "none"]
  /\ pending = [w \in Workers |-> FALSE]
  /\ held = [w \in Workers |-> FALSE]
  /\ cpc = [c \in Clients |-> "idle"]
  /\ target = [c \in Clients |-> None]
-----------------------------------------------------------------------------
(* The calls of the clients.                                               *)

Call(c, p, op) ==
  /\ cpc[c] = "idle"
  /\ cpc' = [cpc EXCEPT ![c] = op]
  /\ target' = [target EXCEPT ![c] = p]

Return(c) ==
  /\ cpc' = [cpc EXCEPT ![c] = "idle"]
  /\ target' = [target EXCEPT ![c] = None]

(* thpool_init up to the spin: the globals are set whatever the other      *)
(* pools are doing, and thread_init's result is not looked at.             *)
CallInit(c, p) ==
  /\ state[p] \in {"none", "freed"}
  /\ WorkersAt(p, {"none", "dead"}) = WorkersOf(p)
  /\ Call(c, p, "init")
  /\ keepalive' = TRUE
  /\ onHold' = FALSE
  /\ state' = [state EXCEPT ![p] = "init"]
  /\ alive' = [alive EXCEPT ![p] = 0]
  /\ working' = [working EXCEPT ![p] = 0]
  /\ queued' = [queued EXCEPT ![p] = 0]
  /\ v' = [v EXCEPT ![p] = 0]
  /\ \E created \in SUBSET WorkersOf(p) :
       /\ CreateMayFail \/ created = WorkersOf(p)
       /\ wpc' = [w \in Workers |-> IF w \in created THEN "new" ELSE wpc[w]]
  /\ UNCHANGED <<signals>>

(* while (num_threads_alive != num_threads) {}                             *)
InitDone(c) ==
  /\ cpc[c] = "init"
  /\ alive[target[c]] = Cardinality(WorkersOf(target[c]))
  /\ state' = [state EXCEPT ![target[c]] = "up"]
  /\ Return(c)
  /\ UNCHANGED <<flags, counters, wpc, signals>>

CallAdd(c, p) ==
  /\ state[p] = "up"
  /\ queued[p] < MaxQueued
  /\ Call(c, p, "add")
  /\ UNCHANGED <<flags, state, counters, wpc, signals>>

(* Mutant of Push: bsem_post is forgotten.                                 *)
PushNoPost(c) ==
  /\ cpc[c] = "add"
  /\ RwmutexFree(target[c])
  /\ queued' = [queued EXCEPT ![target[c]] = @ + 1]
  /\ Return(c)
  /\ UNCHANGED <<flags, state, alive, working, v, wpc, signals>>

(* jobqueue_push, under rwmutex: append, count, post.                      *)
Push(c) ==
  /\ cpc[c] = "add"
  /\ RwmutexFree(target[c])
  /\ queued' = [queued EXCEPT ![target[c]] = @ + 1]
  /\ v' = [v EXCEPT ![target[c]] = 1]
  /\ wpc' \in PostedFrom(wpc, target[c])
  /\ Return(c)
  /\ UNCHANGED <<flags, state, alive, working, signals>>

CallWait(c, p) ==
  /\ c \in WaitingClients
  /\ state[p] = "up"
  /\ Call(c, p, "wait")
  /\ UNCHANGED <<flags, state, counters, wpc, signals>>

(* Mutant of WaitCheck: the running jobs are not looked at.                *)
WaitCheckQueueOnly(c) ==
  /\ cpc[c] = "wait"
  /\ ThcountFree(target[c])
  /\ IF queued[target[c]] > 0
       THEN cpc' = [cpc EXCEPT ![c] = "asleep"] /\ UNCHANGED target
       ELSE Return(c)
  /\ UNCHANGED <<flags, state, counters, wpc, signals>>

(* The loop of thpool_wait under thcount_lock.                             *)
WaitCheck(c) ==
  /\ cpc[c] = "wait"
  /\ ThcountFree(target[c])
  /\ IF queued[target[c]] > 0 \/ working[target[c]] > 0
       THEN cpc' = [cpc EXCEPT ![c] = "asleep"] /\ UNCHANGED target
       ELSE Return(c)
  /\ UNCHANGED <<flags, state, counters, wpc, signals>>

(* thpool_pause on a pool none of whose threads has exited; otherwise the  *)
(* code signals thread ids that no longer exist.                           *)
Pause(c, p) ==
  /\ MayPause
  /\ cpc[c] = "idle"
  /\ state[p] = "up"
  /\ alive[p] = Cardinality(WorkersOf(p))
  /\ pending' = [w \in Workers |-> pending[w] \/ w \in WorkersOf(p)]
  /\ UNCHANGED <<flags, state, counters, wpc, held, clients>>

Resume(c) ==
  /\ MayPause
  /\ cpc[c] = "idle"
  /\ onHold' = FALSE
  /\ UNCHANGED <<keepalive, state, counters, wpc, signals, clients>>

(* Mutant of CallDestroy: threads_keepalive stays 1.                       *)
CallDestroyKeepsFlag(c, p) ==
  /\ MayDestroy
  /\ state[p] = "up"
  /\ \A d \in Clients : target[d] # p
  /\ Call(c, p, "destroy")
  /\ state' = [state EXCEPT ![p] = "dying"]
  /\ UNCHANGED <<flags, counters, wpc, signals>>

(* thpool_destroy: its caller must know that nobody else is inside a call  *)
(* on this pool.  First the global flag, for every pool; then broadcasts   *)
(* until the last worker has counted itself out; then everything is freed, *)
(* jobs still queued included.                                             *)
CallDestroy(c, p) ==
  /\ MayDestroy
  /\ state[p] = "up"
  /\ \A d \in Clients : target[d] # p
  /\ Call(c, p, "destroy")
  /\ keepalive' = FALSE
  /\ state' = [state EXCEPT ![p] = "dying"]
  /\ UNCHANGED <<onHold, counters, wpc, signals>>

PostAll(c) ==
  /\ cpc[c] = "destroy"
  /\ alive[target[c]] # 0
  /\ v' = [v EXCEPT ![target[c]] = 1]
  /\ wpc' = [w \in Workers |->
               IF w \in WorkersAt(target[c], {"asleep"}) THEN "wait" ELSE wpc[w]]
  /\ UNCHANGED <<flags, state, alive, working, queued, signals, clients>>

(* Mutant of DestroyDone: frees after TIMEOUT, whoever is still alive.     *)
DestroyDoneAfterTimeout(c) ==
  /\ cpc[c] = "destroy"
  /\ state' = [state EXCEPT ![target[c]] = "freed"]
  /\ queued' = [queued EXCEPT ![target[c]] = 0]
  /\ v' = [v EXCEPT ![target[c]] = 0]
  /\ Return(c)
  /\ UNCHANGED <<flags, alive, working, wpc, signals>>

DestroyDone(c) ==
  /\ cpc[c] = "destroy"
  /\ alive[target[c]] = 0
  /\ state' = [state EXCEPT ![target[c]] = "freed"]
  /\ queued' = [queued EXCEPT ![target[c]] = 0]
  /\ v' = [v EXCEPT ![target[c]] = 0]
  /\ Return(c)
  /\ UNCHANGED <<flags, alive, working, wpc, signals>>
-----------------------------------------------------------------------------
(* thread_do, one step of worker w at a time.                              *)

Go(w, from, to) ==
  /\ ~held[w]
  /\ wpc[w] = from
  /\ wpc' = [wpc EXCEPT ![w] = to]

Start(w) ==
  /\ ThcountFree(PoolOf[w])
  /\ Go(w, "new", "loop")
  /\ alive' = [alive EXCEPT ![PoolOf[w]] = @ + 1]
  /\ UNCHANGED <<flags, state, working, queued, v, pending, held, clients>>

(* while (threads_keepalive)                                               *)
TestLoop(w) ==
  /\ Go(w, "loop", IF keepalive THEN "wait" ELSE "exit")
  /\ UNCHANGED <<flags, state, counters, signals, clients>>

(* bsem_wait, with its mutex: one step, so no signal stops a worker that   *)
(* holds bsem->mutex (thpool.c:564-571), as one stops a worker that holds  *)
(* rwmutex.                                                                *)
BsemWait(w) ==
  /\ \/ /\ v[PoolOf[w]] = 1
        /\ Go(w, "wait", "check")
        /\ v' = [v EXCEPT ![PoolOf[w]] = 0]
     \/ /\ v[PoolOf[w]] # 1
        /\ Go(w, "wait", "asleep")
        /\ UNCHANGED v
  /\ UNCHANGED <<flags, state, alive, working, queued, signals, clients>>

(* if (threads_keepalive)                                                  *)
TestAlive(w) ==
  /\ Go(w, "check", IF keepalive THEN "count" ELSE "loop")
  /\ UNCHANGED <<flags, state, counters, signals, clients>>

BeginWork(w) ==
  /\ ThcountFree(PoolOf[w])
  /\ Go(w, "count", "pull")
  /\ working' = [working EXCEPT ![PoolOf[w]] = @ + 1]
  /\ UNCHANGED <<flags, state, alive, queued, v, signals, clients>>

(* jobqueue_pull: lock rwmutex ...                                         *)
LockQueue(w) ==
  /\ RwmutexFree(PoolOf[w])
  /\ Go(w, "pull", "pulling")
  /\ UNCHANGED <<flags, state, counters, signals, clients>>

(* Mutant of Pull: no second post.                                         *)
PullNoRepost(w) ==
  LET p == PoolOf[w] IN
  /\ Go(w, "pulling", IF queued[p] = 0 THEN "done" ELSE "run")
  /\ queued' = [queued EXCEPT ![p] = IF @ = 0 THEN 0 ELSE @ - 1]
  /\ UNCHANGED <<flags, state, alive, working, v, signals, clients>>

(* ... take the front job if there is one, post again if more are left,    *)
(* unlock.                                                                 *)
Pull(w) ==
  LET p == PoolOf[w] IN
  /\ \/ /\ queued[p] = 0
        /\ Go(w, "pulling", "done")
        /\ UNCHANGED <<queued, v>>
     \/ /\ queued[p] = 1
        /\ Go(w, "pulling", "run")
        /\ queued' = [queued EXCEPT ![p] = 0]
        /\ UNCHANGED v
     \/ /\ queued[p] > 1
        /\ ~held[w]
        /\ wpc[w] = "pulling"
        /\ wpc' \in PostedFrom([wpc EXCEPT ![w] = "run"], p)
        /\ queued' = [queued EXCEPT ![p] = @ - 1]
        /\ v' = [v EXCEPT ![p] = 1]
  /\ UNCHANGED <<flags, state, alive, working, signals, clients>>

(* The function of the job returns.                                        *)
FinishJob(w) ==
  /\ Go(w, "run", "done")
  /\ UNCHANGED <<flags, state, counters, signals, clients>>

(* Mutant of EndWork: the count is tested before it is lowered.            *)
EndWorkTestsFirst(w) ==
  LET p == PoolOf[w] IN
  /\ ThcountFree(p)
  /\ Go(w, "done", "loop")
  /\ working' = [working EXCEPT ![p] = @ - 1]
  /\ IF working[p] = 0 /\ Waiters(p) # {}
       THEN \E c \in Waiters(p) : cpc' = [cpc EXCEPT ![c] = "wait"]
       ELSE UNCHANGED cpc
  /\ UNCHANGED <<flags, state, alive, queued, v, signals, target>>

(* num_threads_working--, and one sleeping thpool_wait is woken at zero.   *)
EndWork(w) ==
  LET p == PoolOf[w] IN
  /\ ThcountFree(p)
  /\ Go(w, "done", "loop")
  /\ working' = [working EXCEPT ![p] = @ - 1]
  /\ IF working[p] = 1 /\ Waiters(p) # {}
       THEN \E c \in Waiters(p) : cpc' = [cpc EXCEPT ![c] = "wait"]
       ELSE UNCHANGED cpc
  /\ UNCHANGED <<flags, state, alive, queued, v, signals, target>>

(* The last section of thread_do: thpool_destroy may read the new count    *)
(* before the mutex of the pool is unlocked.                               *)
Leave(w) ==
  /\ ThcountFree(PoolOf[w])
  /\ Go(w, "exit", "unlock")
  /\ alive' = [alive EXCEPT ![PoolOf[w]] = @ - 1]
  /\ UNCHANGED <<flags, state, working, queued, v, signals, clients>>

UnlockAndEnd(w) ==
  /\ Go(w, "unlock", "dead")
  /\ pending' = [pending EXCEPT ![w] = FALSE]
  /\ UNCHANGED <<flags, state, counters, held, clients>>
-----------------------------------------------------------------------------
(* The handler thread_hold, wherever the worker happens to be.             *)
Deliver(w) ==
  /\ pending[w] /\ ~held[w]
  /\ wpc[w] \notin {"none", "new", "dead"}
  /\ pending' = [pending EXCEPT ![w] = FALSE]
  /\ held' = [held EXCEPT ![w] = TRUE]
  /\ onHold' = TRUE
  /\ UNCHANGED <<keepalive, state, counters, wpc, clients>>

(* The handler polls the flag once a second.                               *)
Release(w) ==
  /\ held[w] /\ ~onHold
  /\ held' = [held EXCEPT ![w] = FALSE]
  /\ UNCHANGED <<flags, state, counters, wpc, pending, clients>>

(* Both condition variables may wake without a signal.                     *)
SpuriousWakeup ==
  /\ \/ /\ \E w \in Workers : Go(w, "asleep", "wait")
        /\ UNCHANGED cpc
     \/ /\ \E p \in Pools : \E c \in Waiters(p) : cpc' = [cpc EXCEPT ![c] = "wait"]
        /\ UNCHANGED wpc
  /\ UNCHANGED <<flags, state, counters, signals, target>>
-----------------------------------------------------------------------------
WorkerStep(w) ==
  \/ Start(w) \/ TestLoop(w) \/ BsemWait(w) \/ TestAlive(w) \/ BeginWork(w)
  \/ LockQueue(w) \/ Pull(w) \/ FinishJob(w) \/ EndWork(w) \/ Leave(w) \/ UnlockAndEnd(w)

ClientStep(c) ==
  InitDone(c) \/ Push(c) \/ WaitCheck(c) \/ PostAll(c) \/ DestroyDone(c)

Next ==
  \/ \E c \in Clients :
       \/ \E p \in Pools : \/ CallInit(c, p) \/ CallAdd(c, p) \/ CallWait(c, p)
                           \/ Pause(c, p) \/ CallDestroy(c, p)
       \/ Resume(c)
       \/ ClientStep(c)
  \/ \E w \in Workers : WorkerStep(w) \/ Deliver(w) \/ Release(w)
  \/ SpuriousWakeup

(* Threads run, signals arrive, jobs terminate, and a thread that asks for *)
(* rwmutex gets it if it is free again and again.  No client is obliged to *)
(* make a call.                                                            *)
Fairness ==
  /\ \A w \in Workers : /\ WF_vars(WorkerStep(w)) /\ SF_vars(LockQueue(w))
                        /\ WF_vars(Deliver(w)) /\ WF_vars(Release(w))
  /\ \A c \in Clients : WF_vars(ClientStep(c)) /\ SF_vars(Push(c))

Spec == Init /\ [][Next]_vars /\ Fairness
-----------------------------------------------------------------------------
(* The counters never go below zero, and a client is in a call only of a   *)
(* pool that exists for it.                                                *)
TypeOK ==
  /\ keepalive \in BOOLEAN /\ onHold \in BOOLEAN
  /\ state \in [Pools -> States]
  /\ alive \in [Pools -> Nat]
  /\ working \in [Pools -> Nat]
  /\ queued \in [Pools -> Nat]
  /\ v \in [Pools -> {0, 1}]
  /\ wpc \in [Workers -> WorkerPCs]
  /\ pending \in [Workers -> BOOLEAN] /\ held \in [Workers -> BOOLEAN]
  /\ cpc \in [Clients -> ClientPCs]
  /\ target \in [Clients -> Pools \union {None}]
  /\ \A c \in Clients : cpc[c] = "idle" <=> target[c] = None

(* The two counters thpool_wait and thpool_destroy trust are the numbers   *)
(* of workers between ++ and --, although each is changed far from the     *)
(* step it announces.                                                      *)
CountersExact ==
  \A p \in Pools :
    /\ working[p] = Cardinality(WorkersAt(p, Counted))
    /\ alive[p] = Cardinality(WorkersAt(p, Living))

(* Nobody destroys another pool and clears the flag threads_keepalive of   *)
(* this one with it.                                                       *)
FlagIsOurs == ~MayDestroy \/ \A p, q \in Pools : p = q

(* The semaphore remembers one post only, but no job is left lying while a *)
(* worker of the pool sleeps: a worker is on its way to pull it, and that  *)
(* one posts again for the next job.                                       *)
NoWorkerSleepsBesideJob ==
  FlagIsOurs =>
    \A p \in Pools :
      state[p] = "up" /\ queued[p] > 0 /\ WorkersAt(p, {"asleep"}) # {}
        => \/ v[p] = 1 /\ WorkersAt(p, {"wait"}) # {}
           \/ WorkersAt(p, {"check", "count", "pull", "pulling"}) # {}

(* The one signal of threads_all_idle is enough for one caller of          *)
(* thpool_wait: while it sleeps there is work.                             *)
LoneWaiterHasWork ==
  (\A c, d \in WaitingClients : c = d) =>
    \A p \in Pools : Waiters(p) # {} => queued[p] > 0 \/ working[p] > 0

(* thpool_wait never returns early: at that moment no job of the pool is   *)
(* queued and none is running.                                             *)
WaitNeverEarly ==
  [][\A c \in Clients :
       cpc[c] = "wait" /\ cpc'[c] = "idle"
         => queued[target[c]] = 0 /\ WorkersAt(target[c], {"run"}) = {}]_vars

(* thpool_destroy frees the pool only when every worker is past its last   *)
(* job and its last look at the queue ("This will wait for the currently   *)
(* active threads to finish", thpool.h:145).                               *)
FreedMeansFinished ==
  \A p \in Pools :
    state[p] = "freed" => WorkersOf(p) = WorkersAt(p, {"none", "unlock", "dead"})

(* A queued job is started sooner or later, unless the pool goes away or a *)
(* worker is paused.                                                       *)
JobsAreRun ==
  \A p \in Pools :
    state[p] = "up" /\ queued[p] > 0
      ~> state[p] # "up" \/ WorkersAt(p, {"run"}) # {} \/ \E w \in Workers : held[w]

(* While its workers are paused, new work can be added to a pool           *)
(* (thpool.h:107): thpool_add_work returns.                                *)
AddReturns == \A c \in Clients : cpc[c] = "add" ~> cpc[c] # "add"

(* thpool_init, and thpool_destroy of a pool that is not paused, return.   *)
InitAndDestroyReturn ==
  \A c \in Clients :
    cpc[c] \in {"init", "destroy"}
      ~> cpc[c] \notin {"init", "destroy"} \/ \E w \in Workers : held[w]
=============================================================================
