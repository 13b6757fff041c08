------------------------------ MODULE SkTimer ------------------------------
(***************************************************************************)
(* The timers of src/src/timer/sk_timer.c: the list of running timers in   *)
(* the order of their due times, the list of day plans, the thread that    *)
(* walks the first, and plan_task, the repeated timer with id 0 that walks *)
(* the second once a second.                                               *)
(*                                                                         *)
(* One unit of time is one second.  The lists are not locked; calls of the *)
(* interface are modelled where they do not race with the thread: from the *)
(* handlers, and from other threads while the timer thread sleeps or is in *)
(* a handler.  The handlers of day plans call nothing.                     *)
(***************************************************************************)
EXTENDS Integers, SequencesExt

CONSTANTS
  MaxId,       \* bound: ids run from 0 to MaxId, without overflow
  MaxTime,     \* bound on the time since the start
  ClockRange,  \* get_run_time wraps here, 2^32 ms in the code
  Delays,      \* the delays of once and repeated timers
  DayLength,   \* seconds of a day
  DayTimes,    \* the times of day asked for, in seconds
  StartOfDay,  \* the time of day at the start
  Overshoot,   \* how late, rounded up, a usleep ends where all is prompt
  None

ASSUME BoundsAssumption ==
  /\ MaxId \in Nat /\ MaxTime \in Nat
  /\ ClockRange \in Nat \ {0, 1}
  /\ DayLength \in Nat \ {0} /\ StartOfDay \in 0..(DayLength - 1)
  /\ Delays \subseteq Nat \ {0} /\ Overshoot \in Nat
  /\ DayTimes \subseteq 0..(DayLength - 1)
  /\ None \notin Nat

VARIABLES
  list,    \* list_head: the ids of the running timers
  plan,    \* list_head_plan: the ids of the day plans
  timer,   \* the timers that are not freed, by id
  nextId,  \* the counter of get_timer_id
  now,     \* the true time since the start
  prompt,  \* whether, in this behaviour, handlers take no time and usleep
           \* ends soon
  pc,      \* where timer_thread is
  wake,    \* when its usleep ends, 0 while it does not sleep
  cur,     \* the timer of the walk of sk_timer_expire
  nxt,     \* the one it has remembered to visit next
  armed,   \* history: when the time of a timer was last set
  fired    \* history: when the handler of a day plan was last called, or -1

lists == <<list, plan, timer, nextId>>
thread == <<pc, wake, cur, nxt>>
history == <<armed, fired>>
vars == <<lists, now, prompt, thread, history>>

Ids == 0..MaxId
Timers == [type : {"once", "keep", "day"}, sec : Nat, msec : Nat, interval : Nat, done : {0, 1}]

(* plan_task is armed for a second later, counted from its own end, not    *)
(* from when it was due: what usleep is late adds up.  Gap is how far two  *)
(* of its runs are apart at most where all is prompt.                      *)
PlanPeriod == 1
Gap == PlanPeriod + Overshoot

Clock == now % ClockRange
TimeOfDay == (StartOfDay + now) % DayLength
DayOf(time) == (StartOfDay + time) \div DayLength

(* A difference of two clock readings taken as a signed number.            *)
Signed(n) == ((n + ClockRange \div 2) % ClockRange) - ClockRange \div 2

(* ctime_to_sec: midnight is moved by a second.                            *)
CtimeToSec(sec) == IF sec = 0 THEN 1 ELSE sec

First(s) == IF s = <<>> THEN None ELSE Head(s)
Successor(s, id) == LET i == CHOOSE j \in 1..Len(s) : s[j] = id
                    IN  IF i = Len(s) THEN None ELSE s[i + 1]

(* add_timer_to_seqlist: before the first timer that is not sooner.        *)
InsertSeqlist(s, tm, id) ==
  LET later == {i \in 1..Len(s) : \/ tm[s[i]].sec > tm[id].sec
                                  \/ /\ tm[s[i]].sec = tm[id].sec
                                     /\ tm[s[i]].msec >= tm[id].msec}
  IN  InsertAt(s, IF later = {} THEN Len(s) + 1 ELSE Min(later), id)

Init ==
  /\ list = <<>> /\ plan = <<>>
  /\ timer = [id \in {} |-> None]
  /\ nextId = 0
  /\ now = 0
  /\ prompt \in BOOLEAN
  /\ pc = "find" /\ wake = 0 /\ cur = None /\ nxt = None
  /\ armed = [id \in Ids |-> 0]
  /\ fired = [id \in Ids |-> -1]
-----------------------------------------------------------------------------
(* The interface.                                                          *)

(* What a timer of some type looks like when its time is set now.          *)
Running(type, delay) ==
  [type |-> type, sec |-> 0, msec |-> (Clock + delay) % ClockRange, interval |-> delay, done |-> 0]
Planned(sec) ==
  [type |-> "day", sec |-> sec, msec |-> 0, interval |-> DayLength,
   done |-> IF sec < TimeOfDay THEN 1 ELSE 0]

(* list_remove if the timer is linked, then add_timer_to_seqlist.          *)
Place(id, tm) ==
  LET others == RemoveFirst(list, id)  plans == RemoveFirst(plan, id) IN
  /\ timer' = tm
  /\ IF tm[id].type = "day"
       THEN plan' = InsertSeqlist(plans, tm, id) /\ UNCHANGED list
       ELSE list' = InsertSeqlist(others, tm, id) /\ UNCHANGED plan
  /\ armed' = [armed EXCEPT ![id] = now]
  /\ fired' = [fired EXCEPT ![id] = -1]

(* sk_timer_add; a malloc that fails changes nothing.                      *)
Add(tm) ==
  /\ nextId <= MaxId
  /\ nextId' = nextId + 1
  /\ Place(nextId, [id \in DOMAIN timer \union {nextId} |-> IF id = nextId THEN tm ELSE timer[id]])

(* Mutant of Uptime: the timer keeps its place in the list.                *)
UptimeInPlace(id, tm) ==
  /\ timer' = [timer EXCEPT ![id] = tm]
  /\ armed' = [armed EXCEPT ![id] = now]
  /\ fired' = [fired EXCEPT ![id] = -1]
  /\ UNCHANGED <<list, plan, nextId>>

(* sk_timer_uptime of a timer that exists.                                 *)
Uptime(id, tm) ==
  /\ Place(id, [timer EXCEPT ![id] = tm])
  /\ UNCHANGED nextId

(* Where a call does not race with the thread.                             *)
MayCall ==
  /\ nextId > 0
  /\ now < MaxTime
  /\ pc \in {"sleep", "handler"}

(* The start of plan_task at the end of sk_timer_init.                     *)
InitPlan ==
  /\ nextId = 0
  /\ Add(Running("keep", PlanPeriod))
  /\ UNCHANGED <<now, prompt, thread>>

AddOnce ==
  /\ MayCall
  /\ \E delay \in Delays : Add(Running("once", delay))
  /\ UNCHANGED <<now, prompt, thread>>

AddKeep ==
  /\ MayCall
  /\ \E delay \in Delays : Add(Running("keep", delay))
  /\ UNCHANGED <<now, prompt, thread>>

(* A once timer with no delay, whatever the time of day asked for.         *)
AddDay ==
  /\ MayCall
  /\ Add(Running("once", 0))
  /\ UNCHANGED <<now, prompt, thread>>

AddDayKeep ==
  /\ MayCall
  /\ \E sec \in DayTimes : Add(Planned(CtimeToSec(sec)))
  /\ UNCHANGED <<now, prompt, thread>>

(* A modification is of a timer the call was made for, or of one that is   *)
(* gone, which is made again under a new id.                               *)
Modify(id, tm) ==
  /\ MayCall
  /\ id \in 1..(nextId - 1)
  /\ IF id \in DOMAIN timer
       THEN tm.type = timer[id].type /\ Uptime(id, tm)
       ELSE Add(tm)
  /\ UNCHANGED <<now, prompt, thread>>

OnceModify(id) == \E delay \in Delays : Modify(id, Running("once", delay))
KeepModify(id) == \E delay \in Delays : Modify(id, Running("keep", delay))
DayModify(id) == Modify(id, Running("once", 0))
DayKeepModify(id) == \E sec \in DayTimes : Modify(id, Planned(CtimeToSec(sec)))

Free(id) ==
  /\ timer' = [other \in DOMAIN timer \ {id} |-> timer[other]]
  /\ list' = RemoveFirst(list, id)
  /\ plan' = RemoveFirst(plan, id)
  /\ armed' = [armed EXCEPT ![id] = 0]
  /\ fired' = [fired EXCEPT ![id] = -1]
  /\ UNCHANGED nextId

(* sk_timer_del; nobody deletes the timer with id 0.                       *)
Del(id) ==
  /\ MayCall
  /\ id \in DOMAIN timer \ {0}
  /\ Free(id)
  /\ UNCHANGED <<now, prompt, thread>>
-----------------------------------------------------------------------------
(* timer_thread                                                            *)

(* Mutant of Find: the difference is not taken as a signed number.         *)
FindUnsigned ==
  /\ pc = "find"
  /\ list # <<>>
  /\ LET off == (timer[Head(list)].msec - Clock) % ClockRange
     IN  /\ wake' = now + off
         /\ pc' = IF off > 0 THEN "sleep" ELSE "walk"
  /\ cur' = First(list)
  /\ UNCHANGED <<lists, now, prompt, nxt, history>>

(* sk_timer_find and the usleep.  With no timer the thread asks again.     *)
Find ==
  /\ pc = "find"
  /\ list # <<>>
  /\ LET off == Signed(timer[Head(list)].msec - Clock)
     IN  IF off > 0 THEN wake' = now + off /\ pc' = "sleep" /\ UNCHANGED cur
                    ELSE wake' = 0 /\ pc' = "walk" /\ cur' = First(list)
  /\ UNCHANGED <<lists, now, prompt, nxt, history>>

Wake ==
  /\ pc = "sleep"
  /\ now >= wake
  /\ pc' = "walk"
  /\ wake' = 0
  /\ cur' = First(list)
  /\ UNCHANGED <<lists, now, prompt, nxt, history>>

(* Mutants of PlanTask: done is never set; it is never reset.              *)
PlanTaskAgain ==
  /\ fired' = [id \in Ids |-> IF /\ id \in Range(plan) /\ timer[id].sec <= TimeOfDay
                                 /\ timer[id].done = 0
                                THEN now ELSE fired[id]]
  /\ UNCHANGED timer

PlanTaskKeepsDone ==
  LET due == {id \in Range(plan) : timer[id].sec <= TimeOfDay /\ timer[id].done = 0}
  IN  /\ timer' = [id \in DOMAIN timer |->
                     IF id \in due THEN [timer[id] EXCEPT !.done = 1] ELSE timer[id]]
      /\ fired' = [id \in Ids |-> IF id \in due THEN now ELSE fired[id]]

(* plan_task: the plans of this time of day that are not done are called   *)
(* and done; the ones still to come today are to do.                       *)
PlanTask ==
  /\ timer' = [id \in DOMAIN timer |->
                 IF id \notin Range(plan) THEN timer[id]
                 ELSE [timer[id] EXCEPT !.done = IF timer[id].sec <= TimeOfDay THEN 1 ELSE 0]]
  /\ fired' = [id \in Ids |-> IF /\ id \in Range(plan) /\ timer[id].sec <= TimeOfDay
                                 /\ timer[id].done = 0
                                THEN now ELSE fired[id]]

(* Mutant of Due: only when the time has passed.                           *)
DueStrictly(id) == timer[id].msec < Clock

(* The walk compares due times and clock as unsigned numbers.              *)
Due(id) == timer[id].msec <= Clock

(* sk_timer_expire visits cur, which the list may have lost meanwhile.     *)
CallHandler ==
  /\ pc = "walk"
  /\ cur \in DOMAIN timer
  /\ Due(cur)
  /\ pc' = "handler"
  /\ nxt' = Successor(list, cur)
  /\ IF cur = 0 THEN PlanTask ELSE UNCHANGED <<timer, fired>>
  /\ UNCHANGED <<list, plan, nextId, now, prompt, wake, cur, armed>>

EndWalk ==
  /\ pc = "walk"
  /\ \/ cur = None
     \/ cur \in DOMAIN timer /\ ~Due(cur)
  /\ pc' = "find"
  /\ cur' = None
  /\ UNCHANGED <<lists, now, prompt, wake, nxt, history>>

(* The walk steps on a timer a handler has deleted, or sk_timer_update is  *)
(* given one that has deleted itself: undefined, and here the end.         *)
Break ==
  /\ pc \in {"walk", "handler"}
  /\ cur \notin DOMAIN timer \union {None}
  /\ pc' = "broken"
  /\ UNCHANGED <<lists, now, prompt, wake, cur, nxt, history>>

(* Mutants of UpdateTimer: the next due time is the interval itself; a     *)
(* repeated timer is not started again.                                    *)
UpdateTimerFromZero ==
  IF timer[cur].type = "once"
    THEN Free(cur)
    ELSE Uptime(cur, [timer[cur] EXCEPT !.msec = timer[cur].interval])

UpdateTimerOnce == Free(cur)

(* sk_timer_update after the handler.                                      *)
UpdateTimer ==
  IF timer[cur].type = "once"
    THEN Free(cur)
    ELSE Uptime(cur, Running("keep", timer[cur].interval))

HandlerReturns ==
  /\ pc = "handler"
  /\ cur \in DOMAIN timer
  /\ UpdateTimer
  /\ cur' = nxt
  /\ nxt' = None
  /\ pc' = "walk"
  /\ UNCHANGED <<now, prompt, wake>>

(* Time passes while the thread sleeps: to the end of its usleep and       *)
(* beyond, at most by Overshoot where all is prompt, for as long as the    *)
(* system likes elsewhere.  There it also passes while a handler runs.     *)
Tick ==
  /\ \/ pc = "sleep" /\ (prompt => now < wake + Overshoot)
     \/ pc = "handler" /\ ~prompt
  /\ now < MaxTime
  /\ now' = now + 1
  /\ UNCHANGED <<lists, prompt, thread, history>>
-----------------------------------------------------------------------------
ThreadStep == Find \/ Wake \/ CallHandler \/ EndWalk \/ Break \/ HandlerReturns

Next ==
  \/ InitPlan \/ AddOnce \/ AddKeep \/ AddDay \/ AddDayKeep
  \/ \E id \in Ids :
       OnceModify(id) \/ KeepModify(id) \/ DayModify(id) \/ DayKeepModify(id) \/ Del(id)
  \/ ThreadStep
  \/ Tick

Spec == Init /\ [][Next]_vars /\ WF_vars(ThreadStep) /\ WF_vars(Tick)
-----------------------------------------------------------------------------
(* Every timer that exists has a number that was given out, and every time *)
(* is one the clock shows.                                                 *)
TypeOK ==
  /\ list \in Seq(Ids) /\ plan \in Seq(Ids)
  /\ nextId \in 0..(MaxId + 1)
  /\ DOMAIN timer \subseteq 0..(nextId - 1)
  /\ \A id \in DOMAIN timer : timer[id] \in Timers
  /\ now \in 0..MaxTime /\ prompt \in BOOLEAN
  /\ pc \in {"find", "sleep", "walk", "handler", "broken"}
  /\ wake \in 0..(MaxTime + PlanPeriod)
  /\ {cur, nxt} \subseteq Ids \union {None}
  /\ armed \in [Ids -> 0..MaxTime]
  /\ fired \in [Ids -> -1..MaxTime]

(* However timers are added, moved, deleted and started again in the       *)
(* middle of a walk, every timer that is not freed is linked exactly once, *)
(* in the list of its type, and both lists are in the order their readers  *)
(* rely on.                                                                *)
Sooner(id, other) ==
  \/ timer[id].sec < timer[other].sec
  \/ timer[id].sec = timer[other].sec /\ timer[id].msec <= timer[other].msec
ListsAreOrdered ==
  /\ Range(list) = {id \in DOMAIN timer : timer[id].type # "day"}
  /\ Range(plan) = {id \in DOMAIN timer : timer[id].type = "day"}
  /\ Len(list) + Len(plan) = Cardinality(DOMAIN timer)
  /\ \A s \in {list, plan} : \A i, j \in 1..Len(s) : i < j => Sooner(s[i], s[j])

(* The handler of a once or repeated timer is never called before its      *)
(* delay has passed since its time was last set: only when the time has    *)
(* come does the walk not stop ("the time has not come", sk_timer.c:230).  *)
NeverEarly ==
  [][pc = "walk" /\ pc' = "handler" => now - armed[cur] >= timer[cur].interval]_vars

(* The thread need not be woken for a new timer, because plan_task keeps   *)
(* its sleeps short (sk_timer.c:317): no sleep goes on longer than a       *)
(* period of plan_task beyond the time of a timer, and, where all is       *)
(* prompt, none is ever later than that and the end of the usleep.         *)
NeverLate ==
  \A id \in Range(list) :
    /\ pc = "sleep" => wake <= timer[id].msec + PlanPeriod
    /\ prompt => now <= timer[id].msec + Gap

(* No timer whose time has come waits for ever: it is called, unless it is *)
(* moved or deleted first, or a handler has deleted what the walk still    *)
(* needs.  That is so in every behaviour in which the walks end.  That     *)
(* they do is not promised: two repeated timers whose handlers outlast     *)
(* each other's interval come to stand behind one another in turn, due     *)
(* again when the walk (sk_timer.c:226) comes by.  It then never ends, and *)
(* a timer inserted between cur and the one remembered next is due and     *)
(* never called.                                                           *)
Waits(id) ==
  /\ id \in Range(list) /\ timer[id].msec <= Clock
  /\ ~(pc = "handler" /\ cur = id)
  /\ pc # "broken"
WalksEnd == []<>(pc \notin {"walk", "handler"})
DueIsCalled == WalksEnd => \A id \in Ids : []<>~Waits(id)

(* When the time of day was last sec.                                      *)
LatestMoment(sec) == now - ((TimeOfDay - sec) % DayLength)

(* Where all is prompt, a day plan for one of these times is called on     *)
(* every day, the day it was made included if that time was still to come: *)
(* at its time, or late by what usleep is.  Asked in the seconds in which  *)
(* plan_task has run, of the latest time the plan was due.                 *)
CalledOnDay(secs) ==
  prompt =>
    \A id \in {other \in Range(plan) : timer[other].sec \in secs} :
      LET moment == LatestMoment(timer[id].sec)
      IN  pc = "sleep" /\ now < wake /\ armed[id] < moment
            => fired[id] \in moment..(moment + Overshoot)

(* It holds of the times that are a Gap away from midnight.  The runs of   *)
(* plan_task drift and skip a second now and then.  Nearer than that, the  *)
(* second skipped can be the one before 00:00:01, in which alone a plan    *)
(* for 00:00:01 is marked as to be done again (sk_timer.c:117), or the     *)
(* last of the day, in which alone a plan for 23:59:59 is due.             *)
CalledEveryDay == CalledOnDay(Gap..(DayLength - Gap))

(* What the interface takes for granted, and the remark on line 17, which  *)
(* has plans for 00:00:00 moved to 00:00:01 so that they are called.       *)
CalledAtAnyTime == CalledOnDay(1..(DayLength - 1))

(* And it is not called twice on one day.                                  *)
CalledOnceADay ==
  [][\A id \in Ids :
       fired[id] # -1 /\ fired'[id] \notin {-1, fired[id]}
         => DayOf(fired'[id]) > DayOf(fired[id])]_vars
=============================================================================
