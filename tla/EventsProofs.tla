---------------------------- MODULE EventsProofs ----------------------------
(***************************************************************************)
(* The safety properties of Events for any pairs and number of             *)
(* registrations.                                                          *)
(***************************************************************************)
EXTENDS Events, WellFoundedInduction, TLAPS

USE BoundsAssumption DEF BoundsAssumption, list, ListHead

(* A walk that no call has disturbed is at a live registration, or in a    *)
(* callback, and the one it has remembered is alive.                       *)
WalkIsAlive ==
  /\ pc = "dispatch" /\ ~disturbed => cur \in list
  /\ pc \in {"dispatch", "callback"} /\ ~disturbed => nxt = ListHead \/ nxt \in list

(* Two registrations of one pair have been noted.                          *)
DoublesAreNoted ==
  \A i, j \in list : i # j /\ entry[i] = entry[j] => entry[i] \in doubled

IInv == TypeOK /\ WalkIsAlive /\ OwnDeletionIsSafe /\ DoublesAreNoted /\ SetsMatchList
-----------------------------------------------------------------------------
(* A non-empty set of natural numbers has a least one.                     *)
LEMMA LeastOf ==
  ASSUME NEW S, S \subseteq Nat, S # {}
  PROVE  \E m \in S : \A k \in S : m <= k
<1> DEFINE R == OpToRel(<, Nat)
<1>1. IsWellFoundedOn(R, Nat)
  BY NatLessThanWellFounded
<1>2. ASSUME NEW x \in Nat, NEW y \in Nat, x < y PROVE <<x, y>> \in R
  BY <1>2 DEF OpToRel
<1> HIDE DEF R
<1>3. PICK m \in S : \A k \in S : <<k, m>> \notin R
  BY <1>1, WFMin
<1>4. ASSUME NEW k \in S PROVE m <= k
  <2>1. ~(k < m)
    BY <1>2, <1>3
  <2> QED
    BY <2>1
<1> QED
  BY <1>4

(* A non-empty set of natural numbers that is bounded has a greatest one.  *)
LEMMA GreatestOf ==
  ASSUME NEW b \in Nat, NEW S, S \subseteq 0..b, S # {}
  PROVE  \E m \in S : \A k \in S : k <= m
<1> DEFINE Distances == {b - n : n \in S}
<1>1. Distances \subseteq Nat /\ Distances # {}
  <2>1. PICK n \in S : TRUE
    OBVIOUS
  <2>2. b - n \in Distances
    OBVIOUS
  <2>3. \A k \in S : b - k \in Nat
    OBVIOUS
  <2> QED
    BY <2>2, <2>3
<1>2. PICK d \in Distances : \A k \in Distances : d <= k
  <2> HIDE DEF Distances
  <2> QED
    BY <1>1, LeastOf
<1>3. PICK m \in S : d = b - m
  OBVIOUS
<1>4. \A k \in S : d <= b - k
  BY <1>2
<1>5. \A k \in S : k <= m
  BY <1>3, <1>4
<1> QED
  BY <1>5

LEMMA SuccessorIsLater ==
  ASSUME list \subseteq Nat, NEW from \in Nat
  PROVE  \/ Successor(from) = ListHead /\ \A id \in list : id <= from
         \/ Successor(from) \in list /\ Successor(from) > from
<1>1. CASE \E id \in list : id > from
  <2> DEFINE Later == {id \in list : id > from}
  <2>1. PICK id \in Later : \A other \in Later : id <= other
    <3>1. Later \subseteq Nat /\ Later # {}
      BY <1>1
    <3> QED
      BY <3>1, LeastOf
  <2>2. Follows(id, from)
    BY <2>1 DEF Follows
  <2>3. Follows(Successor(from), from)
    BY <1>1, <2>2 DEF Successor
  <2> QED
    BY <2>3 DEF Follows
<1>2. CASE ~ \E id \in list : id > from
  BY <1>2 DEF Successor
<1> QED
  BY <1>1, <1>2

LEMMA LargestIsMax ==
  ASSUME NEW b \in Nat, NEW S, S \subseteq 0..b, S # {}
  PROVE  Largest(S) \in S /\ \A n \in S : n <= Largest(S)
<1>1. \E n \in S : IsMax(n, S)
  BY GreatestOf DEF IsMax
<1>2. IsMax(Largest(S), S)
  BY <1>1 DEF Largest, IsMax
<1> QED
  BY <1>2 DEF IsMax

LEMMA InitIInv == Init => IInv
<1> SUFFICES ASSUME Init PROVE IInv
  OBVIOUS
<1>1. done \in BOOLEAN /\ cleaned \in BOOLEAN /\ disturbed \in BOOLEAN
  BY DEF Init
<1>2. TypeOK
  BY <1>1 DEF Init, TypeOK
<1>3. WalkIsAlive /\ OwnDeletionIsSafe
  BY DEF Init, WalkIsAlive, OwnDeletionIsSafe
<1>4. DoublesAreNoted /\ SetsMatchList
  BY DEF Init, DoublesAreNoted, SetsMatchList, Registered
<1> QED
  BY <1>2, <1>3, <1>4 DEF IInv

(* maxfd is raised to a larger descriptor.                                 *)
LEMMA AddMax ==
  ASSUME TypeOK, NEW pair \in Pairs
  PROVE  /\ Largest({maxfd, pair[1]}) \in Fds \union {0}
         /\ maxfd <= Largest({maxfd, pair[1]}) /\ pair[1] <= Largest({maxfd, pair[1]})
<1>1. {maxfd, pair[1]} \subseteq 0..FD_SETSIZE
  BY DEF TypeOK, Fds
<1>2. /\ Largest({maxfd, pair[1]}) \in {maxfd, pair[1]}
      /\ \A n \in {maxfd, pair[1]} : n <= Largest({maxfd, pair[1]})
  BY <1>1, LargestIsMax
<1> QED
  BY <1>2 DEF TypeOK, Fds

(* Without a pair, maxfd is still not below any other.                     *)
LEMMA MaxWithoutBounds ==
  ASSUME TypeOK, NEW pair \in Pairs
  PROVE  /\ MaxWithout(pair) \in Fds \union {0}
         /\ \A p \in Registered \ {pair} : p[1] <= MaxWithout(pair)
<1> DEFINE S == {0} \union {p[1] : p \in Registered \ {pair}}
<1>1. Registered \subseteq Pairs
  BY DEF TypeOK, Registered
<1>2. S \subseteq 0..FD_SETSIZE /\ S # {} /\ S \subseteq Fds \union {0}
  BY <1>1 DEF Fds
<1>3. Largest(S) \in S /\ \A n \in S : n <= Largest(S)
  <2> HIDE DEF S
  <2> QED
    BY <1>2, LargestIsMax
<1>4. \A p \in Registered \ {pair} : p[1] \in S
  OBVIOUS
<1> QED
  BY <1>2, <1>3, <1>4 DEF MaxWithout
-----------------------------------------------------------------------------
LEMMA AddFdStep == IInv /\ (\E pair \in Pairs : AddFd(pair)) => IInv'
<1> SUFFICES ASSUME IInv, NEW pair \in Pairs, AddFd(pair) PROVE IInv'
  OBVIOUS
<1> USE DEF IInv
<1>1. /\ ~cleaned /\ nextId <= MaxEntries
      /\ list' = list \union {nextId} /\ nextId' = nextId + 1
      /\ entry'[nextId] = pair /\ \A id \in list \ {nextId} : entry'[id] = entry[id]
      /\ watched' = watched \union {pair} /\ maxfd' = Largest({maxfd, pair[1]})
      /\ doubled' = IF pair \in Registered THEN doubled \union {pair} ELSE doubled
      /\ UNCHANGED <<done, pc, cur, nxt, polled, open, ready, cleaned, disturbed>>
  BY DEF AddFd, walk, kernel
<1>2. nextId \notin list /\ nextId \in Nat
  BY DEF TypeOK
<1>3. entry' \in [list' -> Pairs]
  BY <1>1, <1>2 DEF AddFd, TypeOK
<1>4. Registered' = Registered \union {pair}
  BY <1>1, <1>2 DEF Registered
<1>5. TypeOK'
  BY <1>1, <1>3, AddMax DEF TypeOK
<1>6. WalkIsAlive' /\ OwnDeletionIsSafe'
  BY <1>1 DEF WalkIsAlive, OwnDeletionIsSafe
<1>7. DoublesAreNoted'
  BY <1>1, <1>2 DEF DoublesAreNoted, Registered
<1>8. SetsMatchList'
  <2>1. watched' \subseteq Registered' /\ Registered' \ watched' \subseteq doubled'
    BY <1>1, <1>4 DEF SetsMatchList
  <2>2. \A p \in watched' : p[1] <= maxfd'
    <3>1. ASSUME NEW p \in watched PROVE p[1] <= maxfd'
      <4>1. p[1] <= maxfd /\ p \in Pairs
        BY <1>1 DEF SetsMatchList, TypeOK
      <4> QED
        BY <1>1, <4>1, AddMax DEF TypeOK, Fds
    <3> QED
      BY <1>1, <3>1, AddMax
  <2> QED
    BY <2>1, <2>2 DEF SetsMatchList
<1> QED
  BY <1>5, <1>6, <1>7, <1>8

(* What a call frees and the walk needs is noted.                          *)
LEMMA FreeKeeps ==
  ASSUME IInv, NEW ids, Free(ids), UNCHANGED <<pc, cur, nxt, nextId>>
  PROVE  /\ WalkIsAlive' /\ OwnDeletionIsSafe' /\ disturbed' \in BOOLEAN
         /\ list' = list \ ids /\ entry' \in [list' -> Pairs]
         /\ \A id \in list' : entry'[id] = entry[id]
<1> USE DEF IInv
<1>1. /\ list' = list \ ids /\ entry' \in [list' -> Pairs]
      /\ \A id \in list' : entry'[id] = entry[id]
  BY DEF Free, TypeOK
<1>2. disturbed' \in BOOLEAN
  BY DEF Free, TypeOK
<1>3. OwnDeletionIsSafe'
  BY DEF Free, OwnDeletionIsSafe
<1>4. WalkIsAlive'
  <2>1. CASE disturbed'
    BY <2>1 DEF WalkIsAlive
  <2>2. CASE ~disturbed'
    <3>1. ~disturbed /\ ids \intersect Needed = {}
      BY <2>2 DEF Free
    <3>2. pc = "dispatch" => cur \notin ids /\ nxt \notin ids
      BY <3>1 DEF Needed
    <3>3. pc = "callback" => nxt \notin ids
      BY <3>1 DEF Needed
    <3>4. pc' = "dispatch" => cur' \in list'
      BY <1>1, <3>1, <3>2 DEF WalkIsAlive
    <3>5. pc' \in {"dispatch", "callback"} => nxt' = ListHead \/ nxt' \in list'
      BY <1>1, <3>1, <3>2, <3>3 DEF WalkIsAlive
    <3> QED
      BY <3>4, <3>5 DEF WalkIsAlive
  <2> QED
    BY <1>2, <2>1, <2>2
<1> QED
  BY <1>1, <1>2, <1>3, <1>4

(* Of two registrations of a pair one is left without its bit, which was   *)
(* noted when the second was made.                                         *)
LEMMA DelFdStep == IInv /\ (\E pair \in Pairs : DelFd(pair)) => IInv'
<1> SUFFICES ASSUME IInv, NEW pair \in Pairs, DelFd(pair) PROVE IInv'
  OBVIOUS
<1> USE DEF IInv
<1> DEFINE last == Largest({id \in list : entry[id] = pair})
<1>1. last \in list /\ entry[last] = pair
  <2>1. {id \in list : entry[id] = pair} \subseteq 0..nextId /\ nextId \in Nat
    BY DEF TypeOK
  <2>2. {id \in list : entry[id] = pair} # {}
    BY DEF DelFd, Registered
  <2> QED
    BY <2>1, <2>2, LargestIsMax
<1>2. /\ ~cleaned /\ pair \in Registered /\ Free({last})
      /\ watched' = watched \ {pair} /\ maxfd' = MaxWithout(pair)
      /\ UNCHANGED <<nextId, doubled, done, pc, cur, nxt, polled, open, ready, cleaned>>
  BY DEF DelFd, walk, kernel
<1> HIDE DEF last
<1>3. /\ WalkIsAlive' /\ OwnDeletionIsSafe' /\ disturbed' \in BOOLEAN
      /\ list' = list \ {last} /\ entry' \in [list' -> Pairs]
      /\ \A id \in list' : entry'[id] = entry[id]
  BY <1>2, FreeKeeps
<1>4. TypeOK'
  BY <1>2, <1>3, MaxWithoutBounds DEF TypeOK
<1>5. DoublesAreNoted'
  BY <1>2, <1>3 DEF DoublesAreNoted
<1>6. SetsMatchList'
  <2>1. Registered' \subseteq Registered /\ Registered \ {pair} \subseteq Registered'
    BY <1>1, <1>3 DEF Registered
  <2>2. watched' \subseteq Registered'
    BY <1>2, <2>1 DEF SetsMatchList
  <2>3. \A p \in watched' : p[1] <= maxfd'
    BY <1>2, <2>1, MaxWithoutBounds DEF SetsMatchList
  <2>4. pair \in Registered' => pair \in doubled
    <3>1. ASSUME NEW id \in list', entry'[id] = pair PROVE pair \in doubled
      BY <1>1, <1>3, <3>1 DEF DoublesAreNoted
    <3> QED
      BY <3>1 DEF Registered
  <2>5. Registered' \ watched' \subseteq doubled'
    BY <1>2, <2>1, <2>4 DEF SetsMatchList
  <2> QED
    BY <2>2, <2>3, <2>5 DEF SetsMatchList
<1> QED
  BY <1>3, <1>4, <1>5, <1>6

(* events_cleanup leaves no sets to speak of.                              *)
LEMMA CleanupStep == IInv /\ Cleanup => IInv'
<1> SUFFICES ASSUME IInv, Cleanup PROVE IInv'
  OBVIOUS
<1> USE DEF IInv
<1>1. /\ Free(list) /\ cleaned' = TRUE
      /\ UNCHANGED <<nextId, watched, maxfd, doubled, done, pc, cur, nxt, polled, open, ready>>
  BY DEF Cleanup, walk, kernel
<1>2. /\ WalkIsAlive' /\ OwnDeletionIsSafe' /\ disturbed' \in BOOLEAN
      /\ list' = {} /\ entry' \in [list' -> Pairs]
  BY <1>1, FreeKeeps
<1>3. TypeOK'
  BY <1>1, <1>2 DEF TypeOK
<1>4. DoublesAreNoted'
  BY <1>2 DEF DoublesAreNoted
<1>5. SetsMatchList'
  BY <1>1 DEF SetsMatchList
<1> QED
  BY <1>2, <1>3, <1>4, <1>5

(* The registrations and the sets are the callers' alone.                  *)
LEMMA RegistryKept ==
  ASSUME IInv, UNCHANGED registry, UNCHANGED cleaned
  PROVE  /\ list' = list /\ DoublesAreNoted' /\ SetsMatchList'
         /\ nextId' \in 1..(MaxEntries + 1) /\ list' \subseteq 1..(nextId' - 1)
         /\ entry' \in [list' -> Pairs] /\ watched' \subseteq Pairs /\ doubled' \subseteq Pairs
         /\ maxfd' \in Fds \union {0}
<1>1. UNCHANGED <<entry, nextId, watched, maxfd, doubled>>
  BY DEF registry
<1>2. DoublesAreNoted'
  BY <1>1 DEF IInv, DoublesAreNoted
<1>3. SetsMatchList'
  BY <1>1 DEF IInv, SetsMatchList, Registered
<1> QED
  BY <1>1, <1>2, <1>3 DEF IInv, TypeOK

(* An undisturbed walk moves on to a live registration or ends.            *)
LEMMA AdvanceStep ==
  ASSUME IInv, Advance, pc \in {"dispatch", "callback"}
  PROVE  IInv'
<1> USE DEF IInv
<1>1. UNCHANGED registry /\ UNCHANGED cleaned
      /\ UNCHANGED <<done, polled, open, ready, disturbed>>
  BY DEF Advance, kernel
<1>2. nxt' = ListHead \/ nxt' \in list
  <2>1. list \subseteq Nat /\ nxt \in Nat
    BY DEF TypeOK
  <2> QED
    BY <2>1, SuccessorIsLater DEF Advance
<1>3. pc' \in {"test", "dispatch", "broken"}
  BY DEF Advance
<1>4. TypeOK'
  <2>1. done' \in BOOLEAN /\ cleaned' \in BOOLEAN /\ disturbed' \in BOOLEAN
    BY <1>1 DEF TypeOK
  <2>2. {cur', nxt'} \subseteq 0..(nextId' - 1) /\ polled' \subseteq Pairs /\ open' \subseteq Fds /\ ready' \subseteq Pairs
    BY <1>1, <1>2 DEF Advance, TypeOK, registry
  <2> QED
    BY <1>1, <1>3, <2>1, <2>2, RegistryKept DEF TypeOK
<1>5. pc' = "dispatch" => cur' \in list
  BY DEF Advance
<1>6. pc' = "broken" => nxt # ListHead /\ nxt \notin list
  BY DEF Advance, TypeOK
<1>7. WalkIsAlive'
  BY <1>1, <1>2, <1>3, <1>5, RegistryKept DEF WalkIsAlive
<1>8. OwnDeletionIsSafe'
  BY <1>1, <1>6 DEF OwnDeletionIsSafe, WalkIsAlive
<1> QED
  BY <1>1, <1>4, <1>7, <1>8, RegistryKept

(* The other steps of the loop, and the kernel, free nothing.              *)
LEMMA QuietStep ==
  ASSUME IInv, UNCHANGED registry, UNCHANGED <<cleaned, disturbed>>,
         done' \in BOOLEAN, polled' \subseteq Pairs, open' \subseteq Fds, ready' \subseteq Pairs,
         pc' \in {"init", "start", "test", "select", "dispatch", "callback", "end", "broken"},
         cur' \in list \union {cur}, nxt' \in list \union {nxt, ListHead},
         pc' = "broken" => pc = "broken" \/ (pc = "dispatch" /\ cur \notin list),
         pc' = "dispatch" => cur' \in list \/ (pc = "dispatch" /\ cur' = cur),
         pc' \in {"dispatch", "callback"} =>
           nxt' \in list \union {ListHead} \/ (pc \in {"dispatch", "callback"} /\ nxt' = nxt)
  PROVE  IInv'
<1> USE DEF IInv
<1>1. TypeOK'
  <2>1. cleaned' \in BOOLEAN /\ disturbed' \in BOOLEAN
    BY DEF TypeOK
  <2>2. {cur', nxt'} \subseteq 0..(nextId' - 1)
    BY DEF TypeOK, registry
  <2> QED
    BY <2>1, <2>2, RegistryKept DEF TypeOK
<1>2. WalkIsAlive'
  BY RegistryKept DEF WalkIsAlive
<1>3. OwnDeletionIsSafe'
  BY DEF OwnDeletionIsSafe, WalkIsAlive
<1> QED
  BY <1>1, <1>2, <1>3, RegistryKept

LEMMA KernelStep ==
  ASSUME IInv,
         \/ \E fd \in Fds : Open(fd) \/ Close(fd)
         \/ \E pair \in Pairs : Readiness(pair)
         \/ Stop \/ Start
  PROVE  IInv'
<1>1. /\ UNCHANGED registry /\ UNCHANGED <<cleaned, disturbed>>
      /\ UNCHANGED <<cur, nxt, polled>>
      /\ pc' = pc \/ pc' = "start"
  BY DEF Open, Close, Readiness, Stop, Start, walk
<1>2. done' \in BOOLEAN
  BY DEF Open, Close, Readiness, Stop, Start, IInv, TypeOK
<1>3. open' \subseteq Fds /\ ready' \subseteq Pairs
  BY DEF Open, Close, Readiness, Stop, Start, kernel, IInv, TypeOK
<1>4. polled' \subseteq Pairs /\ pc \in {"init", "start", "test", "select", "dispatch", "callback", "end", "broken"}
  BY <1>1 DEF IInv, TypeOK
<1>5. /\ cur' = cur /\ nxt' = nxt
      /\ pc' \in {"init", "start", "test", "select", "dispatch", "callback", "end", "broken"}
      /\ pc' = "broken" => pc = "broken"
      /\ pc' = "dispatch" => pc = "dispatch"
      /\ pc' \in {"dispatch", "callback"} => pc \in {"dispatch", "callback"}
  BY <1>1, <1>4
<1> QED
  BY <1>1, <1>2, <1>3, <1>4, <1>5, QuietStep

LEMMA LoopStepKeeps == IInv /\ LoopStep => IInv'
<1> SUFFICES ASSUME IInv, LoopStep PROVE IInv'
  OBVIOUS
<1>1. CASE Skip \/ CallbackReturns
  BY <1>1, AdvanceStep DEF Skip, CallbackReturns
<1>2. /\ polled \subseteq Pairs /\ open \subseteq Fds /\ ready \subseteq Pairs /\ done \in BOOLEAN
      /\ pc \in {"init", "start", "test", "select", "dispatch", "callback", "end", "broken"}
  BY DEF IInv, TypeOK
<1>3. CASE Begin
  BY <1>2, <1>3, QuietStep DEF Begin, walk, kernel
<1>4. CASE Test
  <2>1. polled' \subseteq Pairs
    BY <1>2, <1>4 DEF Test, IInv, TypeOK
  <2>2. /\ UNCHANGED registry /\ UNCHANGED <<done, cleaned, disturbed>>
        /\ UNCHANGED <<cur, nxt, open, ready>> /\ pc' \in {"select", "end"}
    BY <1>4 DEF Test, kernel
  <2> QED
    BY <1>2, <2>1, <2>2, QuietStep
<1>5. CASE SelectTimeout \/ Call \/ Break
  BY <1>2, <1>5, QuietStep DEF SelectTimeout, Call, Break, walk, kernel
<1>6. CASE SelectReturns
  <2>1. /\ list \subseteq Nat
        /\ list # {} => \E id \in list : id > ListHead
    BY DEF IInv, TypeOK
  <2>2. cur' = Successor(ListHead) /\ (nxt' = ListHead \/ nxt' = Successor(cur'))
    BY <1>6 DEF SelectReturns
  <2>3. cur' \in list \union {ListHead} /\ (list # {} => cur' \in list)
    BY <2>1, <2>2, SuccessorIsLater
  <2>4. nxt' \in list \union {ListHead}
    BY <2>1, <2>2, <2>3, SuccessorIsLater
  <2>5. (pc' = "dispatch" /\ list # {}) \/ pc' = "test"
    BY <1>6 DEF SelectReturns
  <2>6. /\ UNCHANGED registry /\ UNCHANGED <<done, cleaned, disturbed>>
        /\ UNCHANGED <<open, ready>> /\ polled' \subseteq Pairs
    BY <1>2, <1>6 DEF SelectReturns, kernel
  <2>7. TypeOK'
    <3>1. done' \in BOOLEAN /\ cleaned' \in BOOLEAN /\ disturbed' \in BOOLEAN
      BY <2>6 DEF IInv, TypeOK
    <3>2. {cur', nxt'} \subseteq 0..(nextId' - 1)
      BY <2>3, <2>4, <2>6 DEF IInv, TypeOK, registry
    <3> QED
      BY <1>2, <2>5, <2>6, <3>1, <3>2, RegistryKept DEF TypeOK
  <2>8. WalkIsAlive' /\ OwnDeletionIsSafe'
    BY <2>3, <2>4, <2>5, <2>6, RegistryKept DEF WalkIsAlive, OwnDeletionIsSafe
  <2> QED
    BY <2>6, <2>7, <2>8, RegistryKept DEF IInv
<1> QED
  BY <1>1, <1>3, <1>4, <1>5, <1>6 DEF LoopStep
-----------------------------------------------------------------------------
(* Every step keeps the invariant.                                         *)
LEMMA StepIInv == IInv /\ [Next]_vars => IInv'
<1> SUFFICES ASSUME IInv, [Next]_vars PROVE IInv'
  OBVIOUS
<1>1. CASE UNCHANGED vars
  BY <1>1 DEF IInv, vars, registry, walk, kernel, TypeOK, WalkIsAlive, OwnDeletionIsSafe,
     DoublesAreNoted, SetsMatchList, Registered
<1> QED
  BY <1>1, AddFdStep, DelFdStep, CleanupStep, KernelStep, LoopStepKeeps DEF Next

LEMMA IInvAlways == Spec => []IInv
BY InitIInv, StepIInv, PTL DEF Spec

(* Type correctness of the event loop.                                     *)
THEOREM TypeCorrect == Spec => []TypeOK
<1>1. IInv => TypeOK
  BY DEF IInv
<1> QED
  BY <1>1, IInvAlways, PTL

(* The sets given to select agree with the registrations (events.c:25-94). *)
THEOREM SetsAlwaysMatch == Spec => []SetsMatchList
<1>1. IInv => SetsMatchList
  BY DEF IInv
<1> QED
  BY <1>1, IInvAlways, PTL

(* A callback may delete its own registration and any but the next         *)
(* (events.c:102-122).                                                     *)
THEOREM CallbacksMayDelete == Spec => []OwnDeletionIsSafe
<1>1. IInv => OwnDeletionIsSafe
  BY DEF IInv
<1> QED
  BY <1>1, IInvAlways, PTL
=============================================================================
