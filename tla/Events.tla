------------------------------- MODULE Events -------------------------------
(***************************************************************************)
(* The event loop of src/src/event/events.c: descriptors are registered    *)
(* with a callback, a thread selects on them, and events_dispatch calls    *)
(* the callbacks of those select has reported.  Nothing is locked.         *)
(*                                                                         *)
(* Registrations are numbered as they are made and appended to the list,   *)
(* so the list is the set of those not freed, in the order of their        *)
(* numbers.  The walk of events_dispatch is a step for each registration   *)
(* and one more for the return of its callback; calls of the interface     *)
(* come between any two steps, from callbacks and from other threads.      *)
(* What is inside a step, such as the linking of an entry, is not split.   *)
(***************************************************************************)
EXTENDS Integers

CONSTANTS
  Pairs,       \* the pairs of a descriptor and an event_type
  FD_SETSIZE,  \* a set of select holds the descriptors below it
  MaxEntries   \* bound on the number of registrations made

ASSUME BoundsAssumption ==
  /\ MaxEntries \in Nat
  /\ FD_SETSIZE \in Nat
  /\ \A pair \in Pairs : pair[1] \in 0..(FD_SETSIZE - 1)

VARIABLES
  entry,      \* head: the pair of every registration that is not freed
  nextId,     \* the number of the next one
  watched,    \* rfds, wfds and efds: the pairs whose bits are set
  maxfd,
  done,
  pc,         \* where the loop is
  cur,        \* the registration of the walk
  nxt,        \* the one it has remembered to visit next
  polled,     \* the copies of the sets given to select, then its result
  open,       \* the kernel: the open descriptors
  ready,      \* the kernel: the pairs that are ready
  cleaned,    \* events_cleanup was called
  doubled,    \* history: the pairs registered when they were already
  disturbed   \* history: a call has freed what the walk needs

registry == <<entry, nextId, watched, maxfd, doubled>>
walk == <<cur, nxt, polled>>
kernel == <<open, ready>>
vars == <<registry, done, pc, walk, kernel, cleaned, disturbed>>

Fds == {pair[1] : pair \in Pairs}
list == DOMAIN entry
Registered == {entry[id] : id \in list}

(* The head of the list, where a walk begins and ends.                     *)
ListHead == 0
Follows(id, from) ==
  /\ id \in list /\ id > from
  /\ \A other \in list : other > from => id <= other
Successor(from) ==
  IF \E id \in list : id > from THEN CHOOSE id \in list : Follows(id, from) ELSE ListHead

IsMax(n, S) == n \in S /\ \A m \in S : m <= n
Largest(S) == CHOOSE n \in S : IsMax(n, S)

(* events_init; every descriptor is still to be opened.                    *)
Init ==
  /\ entry = [id \in {} |-> 0] /\ nextId = 1
  /\ watched = {} /\ maxfd = 0
  /\ done = FALSE
  /\ pc = "init" /\ cur = ListHead /\ nxt = ListHead /\ polled = {}
  /\ open = {} /\ ready = {}
  /\ cleaned = FALSE /\ doubled = {} /\ disturbed = FALSE
-----------------------------------------------------------------------------
(* The interface.                                                          *)

(* events_add_fd of a descriptor that is open; a malloc that fails changes *)
(* nothing.                                                                *)
AddFd(pair) ==
  /\ ~cleaned
  /\ nextId <= MaxEntries
  /\ pair[1] \in open
  /\ entry' = [id \in list \union {nextId} |-> IF id = nextId THEN pair ELSE entry[id]]
  /\ nextId' = nextId + 1
  /\ watched' = watched \union {pair}
  /\ maxfd' = Largest({maxfd, pair[1]})
  /\ doubled' = IF pair \in Registered THEN doubled \union {pair} ELSE doubled
  /\ UNCHANGED <<done, pc, walk, kernel, cleaned, disturbed>>

(* What the walk still reads: in a callback only the next registration.    *)
Needed == CASE pc = "callback" -> {nxt} [] pc = "dispatch" -> {cur, nxt} [] OTHER -> {}
Free(ids) ==
  /\ entry' = [id \in list \ ids |-> entry[id]]
  /\ disturbed' = (disturbed \/ ids \intersect Needed # {})

(* Mutant of MaxWithout: other events of the descriptor are left out too.  *)
MaxWithoutFd(pair) == Largest({0} \union {p[1] : p \in {q \in Registered : q[1] # pair[1]}})

(* The largest descriptor of the registrations of other pairs.             *)
MaxWithout(pair) == Largest({0} \union {p[1] : p \in Registered \ {pair}})

(* events_del_fd frees the last registration of the pair, and clears the   *)
(* bit although there may be another.                                      *)
DelFd(pair) ==
  /\ ~cleaned
  /\ pair \in Registered
  /\ Free({Largest({id \in list : entry[id] = pair})})
  /\ watched' = watched \ {pair}
  /\ maxfd' = MaxWithout(pair)
  /\ UNCHANGED <<nextId, doubled, done, pc, walk, kernel, cleaned>>

(* events_stop                                                             *)
Stop ==
  /\ done' = TRUE
  /\ UNCHANGED <<registry, pc, walk, kernel, cleaned, disturbed>>

(* events_listen_start, or the call of events_listen_loop.                 *)
Start ==
  /\ pc = "init" /\ ~cleaned
  /\ pc' = "start"
  /\ UNCHANGED <<registry, done, walk, kernel, cleaned, disturbed>>

(* events_cleanup, after the loop was told to stop: nothing says when it   *)
(* has.  The sets and maxfd are left as they are.                          *)
Cleanup ==
  /\ ~cleaned
  /\ done \/ pc \in {"init", "end"}
  /\ Free(list)
  /\ cleaned' = TRUE
  /\ UNCHANGED <<nextId, watched, maxfd, doubled, done, pc, walk, kernel>>
-----------------------------------------------------------------------------
(* events_listen_loop                                                      *)

(* A stop that came before is forgotten here.                              *)
Begin ==
  /\ pc = "start"
  /\ done' = FALSE
  /\ pc' = "test"
  /\ UNCHANGED <<registry, walk, kernel, cleaned, disturbed>>

(* Mutant of Test: done is cleared in every round.                         *)
TestAfresh ==
  /\ pc = "test"
  /\ done' = FALSE
  /\ IF \A pair \in watched : pair[1] <= maxfd => pair[1] \in open
       THEN pc' = "select" /\ polled' = {pair \in watched : pair[1] <= maxfd}
       ELSE pc' = "end" /\ UNCHANGED polled
  /\ UNCHANGED <<registry, cur, nxt, kernel, cleaned, disturbed>>

(* The sets are copied and select entered with maxfd + 1.  A descriptor in *)
(* them that is not open makes it fail, and the loop ends.                 *)
Test ==
  /\ pc = "test"
  /\ IF ~done /\ \A pair \in watched : pair[1] <= maxfd => pair[1] \in open
       THEN pc' = "select" /\ polled' = {pair \in watched : pair[1] <= maxfd}
       ELSE pc' = "end" /\ UNCHANGED polled
  /\ UNCHANGED <<registry, done, cur, nxt, kernel, cleaned, disturbed>>

(* Nothing was ready: two seconds are over, or a signal has come.          *)
SelectTimeout ==
  /\ pc = "select"
  /\ polled \intersect ready = {}
  /\ pc' = "test"
  /\ UNCHANGED <<registry, done, walk, kernel, cleaned, disturbed>>

(* Select reports what is ready, and the walk of events_dispatch begins.   *)
SelectReturns ==
  /\ pc = "select"
  /\ polled \intersect ready # {}
  /\ polled' = polled \intersect ready
  /\ cur' = Successor(ListHead)
  /\ nxt' = IF list = {} THEN ListHead ELSE Successor(cur')
  /\ pc' = IF list = {} THEN "test" ELSE "dispatch"
  /\ UNCHANGED <<registry, done, kernel, cleaned, disturbed>>

(* Mutant of Advance: the successor is read after the callback.            *)
AdvanceUnsafe ==
  /\ cur' = Successor(cur) /\ nxt' = ListHead
  /\ pc' = CASE done \/ (cur \in list /\ cur' = ListHead) -> "test"
             [] ~done /\ cur \in list /\ cur' # ListHead -> "dispatch"
             [] OTHER -> "broken"
  /\ UNCHANGED <<registry, done, polled, kernel, cleaned, disturbed>>

(* The end of an iteration: a walk that is not done goes on to the         *)
(* registration it has remembered and reads its successor.  If it was      *)
(* freed that is undefined, and here the end.                              *)
Advance ==
  /\ cur' = nxt
  /\ nxt' = IF nxt \in list THEN Successor(nxt) ELSE ListHead
  /\ pc' = CASE done \/ nxt = ListHead -> "test"
             [] ~done /\ nxt \in list -> "dispatch"
             [] OTHER -> "broken"
  /\ UNCHANGED <<registry, done, polled, kernel, cleaned, disturbed>>

Call ==
  /\ pc = "dispatch" /\ cur \in list
  /\ entry[cur] \in polled
  /\ pc' = "callback"
  /\ UNCHANGED <<registry, done, walk, kernel, cleaned, disturbed>>

Skip ==
  /\ pc = "dispatch" /\ cur \in list
  /\ entry[cur] \notin polled
  /\ Advance

CallbackReturns ==
  /\ pc = "callback"
  /\ Advance

(* The registration the walk is at was freed.                              *)
Break ==
  /\ pc = "dispatch" /\ cur \notin list
  /\ pc' = "broken"
  /\ UNCHANGED <<registry, done, walk, kernel, cleaned, disturbed>>
-----------------------------------------------------------------------------
(* The kernel: descriptors are opened and closed by the program, become    *)
(* ready, and are read or written until they are not.                      *)
Open(fd) ==
  /\ open' = open \union {fd}
  /\ UNCHANGED <<registry, done, pc, walk, ready, cleaned, disturbed>>

Close(fd) ==
  /\ open' = open \ {fd}
  /\ ready' = {pair \in ready : pair[1] # fd}
  /\ UNCHANGED <<registry, done, pc, walk, cleaned, disturbed>>

Readiness(pair) ==
  /\ pair[1] \in open
  /\ ready' = IF pair \in ready THEN ready \ {pair} ELSE ready \union {pair}
  /\ UNCHANGED <<registry, done, pc, walk, open, cleaned, disturbed>>
-----------------------------------------------------------------------------
LoopStep ==
  Begin \/ Test \/ SelectTimeout \/ SelectReturns \/ Call \/ Skip \/ CallbackReturns \/ Break

Next ==
  \/ \E pair \in Pairs : AddFd(pair) \/ DelFd(pair) \/ Readiness(pair)
  \/ \E fd \in Fds : Open(fd) \/ Close(fd)
  \/ Start \/ Stop \/ Cleanup
  \/ LoopStep

Spec == Init /\ [][Next]_vars /\ WF_vars(LoopStep)
-----------------------------------------------------------------------------
(* The registrations left are some of those made, maxfd is a descriptor or *)
(* 0, and the walk is at no registration that was never made.              *)
TypeOK ==
  /\ nextId \in 1..(MaxEntries + 1)
  /\ list \subseteq 1..(nextId - 1) /\ entry \in [list -> Pairs]
  /\ watched \subseteq Pairs /\ polled \subseteq Pairs
  /\ ready \subseteq Pairs /\ doubled \subseteq Pairs
  /\ maxfd \in Fds \union {0}
  /\ open \subseteq Fds
  /\ pc \in {"init", "start", "test", "select", "dispatch", "callback", "end", "broken"}
  /\ {cur, nxt} \subseteq 0..(nextId - 1)
  /\ done \in BOOLEAN /\ cleaned \in BOOLEAN /\ disturbed \in BOOLEAN

(* Through any sequence of events_add_fd and events_del_fd, the sets given *)
(* to select agree with the list: no bit is set that nobody would answer   *)
(* to, which would make the loop spin, every bit is below maxfd + 1, and   *)
(* every registration has its bit unless its pair was registered twice.    *)
SetsMatchList ==
  ~cleaned =>
    /\ watched \subseteq Registered
    /\ \A pair \in watched : pair[1] <= maxfd
    /\ Registered \ watched \subseteq doubled

(* A freed registration is used only if a call has freed the one the walk  *)
(* was to visit next, or another thread the one it was at: a callback may  *)
(* delete its own registration and any other but the next.                 *)
OwnDeletionIsSafe == pc = "broken" => disturbed

(* A registered descriptor that stays ready gets its callback while the    *)
(* loop runs, whatever the other callbacks delete, and whatever they add   *)
(* if the walks end.  A callback that deletes its registration and makes   *)
(* it again gives the walk it is called in one more to visit, which is in  *)
(* the same result of select (events.c:102); if two do so by turns the     *)
(* walk has no end, and no other descriptor is looked at.                  *)
Served(pair) == pc = "callback" /\ cur \in list /\ entry[cur] = pair
Running == pc \notin {"init", "end", "broken"} /\ ~done /\ ~cleaned
Waits(pair) == pair \in Registered \ doubled /\ pair \in ready /\ Running
WalksEnd == []<>(pc \notin {"dispatch", "callback"})
ReadyIsServed ==
  WalksEnd => \A pair \in Pairs : []<>(Served(pair) \/ ~Waits(pair))

(* A stop ends the loop once it has begun, from a callback ("If the        *)
(* callback stopped events processing, we're done", events.c:120) as from  *)
(* another thread.  Since done is tested in every iteration of a walk,     *)
(* this holds of walks that would not end too.                             *)
StopEndsLoop == done /\ pc \notin {"init", "start"} ~> pc \in {"end", "broken"}

(* What the callbacks of events.c do keeps the loop from its end in no     *)
(* case, and from the descriptors that wait only by a walk without end.    *)
LoopProgresses == ReadyIsServed /\ StopEndsLoop
=============================================================================
