---------------------------- MODULE MsgIpcProofs ----------------------------
(***************************************************************************)
(* The safety properties of MsgIpc for any two processes, any messages,    *)
(* capacities, calls and crashes.                                          *)
(***************************************************************************)
EXTENDS MsgIpc, WellFoundedInduction, SequenceTheorems, TLAPS

-----------------------------------------------------------------------------
(* The queues of the kernel.                                               *)

(* A non-empty set of natural numbers has a least one.                     *)
LEMMA LeastOf ==
  ASSUME NEW S, S \subseteq Nat, S # {}
  PROVE  \E m \in S : \A k \in S : m <= k
<1> DEFINE R == OpToRel(<, Nat)
<1>1. IsWellFoundedOn(R, Nat)
  BY NatLessThanWellFounded
<1>2. ASSUME NEW x \in Nat, NEW y \in Nat, x < y PROVE <<x, y>> \in R
  BY <1>2 DEF OpToRel
<1> HIDE DEF R
<1>3. PICK m \in S : \A k \in S : <<k, m>> \notin R
  BY <1>1, WFMin
<1>4. ASSUME NEW k \in S PROVE m <= k
  <2>1. ~(k < m)
    BY <1>2, <1>3
  <2> QED
    BY <2>1
<1> QED
  BY <1>4

(* A sequence with an element put in has one more and nothing else.        *)
LEMMA InsertAtFacts ==
  ASSUME NEW S, NEW q \in Seq(S), NEW x \in S, NEW i \in 1..(Len(q) + 1)
  PROVE  /\ InsertAt(q, i, x) \in Seq(S)
         /\ Len(InsertAt(q, i, x)) = Len(q) + 1
         /\ Range(InsertAt(q, i, x)) = Range(q) \union {x}
<1> DEFINE A == SubSeq(q, 1, i - 1)
           B == SubSeq(q, i, Len(q))
           X == <<x>>
<1>1. Len(q) \in Nat /\ \A k \in 1..Len(q) : q[k] \in S
  OBVIOUS
<1>2. A \in Seq(S) /\ Len(A) = i - 1
  <2>1. \A k \in 1..(i - 1) : q[k] \in S
    BY <1>1
  <2> QED
    BY <1>1, <2>1, SubSeqProperties
<1>3. B \in Seq(S) /\ Len(B) = Len(q) - i + 1
  <2>1. \A k \in i..Len(q) : q[k] \in S
    BY <1>1
  <2> QED
    BY <1>1, <2>1, SubSeqProperties
<1>4. X \in Seq(S) /\ Len(X) = 1 /\ Range(X) = {x}
  <2>1. <<x>> \in Seq(S) /\ Len(<<x>>) = 1 /\ DOMAIN <<x>> = {1} /\ <<x>>[1] = x
    OBVIOUS
  <2> QED
    BY <2>1 DEF Range
<1>5. A \o B = q
  <2>3. 1 \in 1..(Len(q) + 1) /\ i - 1 \in (1 - 1)..Len(q) /\ Len(q) \in (i - 1)..Len(q)
    BY <1>1
  <2>1. SubSeq(q, 1, i - 1) \o SubSeq(q, (i - 1) + 1, Len(q)) = SubSeq(q, 1, Len(q))
    BY ONLY <2>3, q \in Seq(S), ConcatAdjacentSubSeq, Zenon
  <2>2. (i - 1) + 1 = i
    BY <1>1
  <2> QED
    BY <2>1, <2>2, SubSeqFull
<1>6. Range(q) = Range(A) \union Range(B)
  BY <1>2, <1>3, <1>5, RangeConcatenation
<1> HIDE DEF A, B, X
<1>7. A \o X \in Seq(S) /\ Len(A \o X) = i /\ Range(A \o X) = Range(A) \union {x}
  <2>1. A \o X \in Seq(S) /\ Len(A \o X) = Len(A) + Len(X)
    BY <1>2, <1>4, ConcatProperties
  <2>2. Range(A \o X) = Range(A) \union Range(X)
    BY <1>2, <1>4, RangeConcatenation
  <2> QED
    BY <1>2, <1>4, <2>1, <2>2
<1>8. /\ (A \o X) \o B \in Seq(S) /\ Len((A \o X) \o B) = Len(q) + 1
      /\ Range((A \o X) \o B) = Range(q) \union {x}
  <2>1. (A \o X) \o B \in Seq(S) /\ Len((A \o X) \o B) = Len(A \o X) + Len(B)
    BY <1>3, <1>7, ConcatProperties
  <2>2. Range((A \o X) \o B) = Range(A \o X) \union Range(B)
    <3> DEFINE Y == A \o X
    <3>1. Y \in Seq(S)
      BY <1>7
    <3> HIDE DEF Y
    <3>2. Range(Y \o B) = Range(Y) \union Range(B)
      BY <1>3, <3>1, RangeConcatenation
    <3> QED
      BY <3>2 DEF Y
  <2> QED
    BY <1>1, <1>3, <1>6, <1>7, <2>1, <2>2
<1> QED
  BY <1>8 DEF InsertAt, A, B, X

(* The place of a request is a place of the queue.                         *)
LEMMA InsertFacts ==
  ASSUME NEW S, NEW q \in Seq(S), NEW x \in S
  PROVE  /\ Insert(q, x) \in Seq(S)
         /\ Len(Insert(q, x)) = Len(q) + 1
         /\ Range(Insert(q, x)) = Range(q) \union {x}
<1> DEFINE places == {i \in DOMAIN q : q[i][1] = "async"} \union {Len(q) + 1}
<1>1. InsertAt(q, Len(q) + 1, x) = Append(q, x)
  <2>1. SubSeq(q, 1, Len(q)) = q /\ SubSeq(q, Len(q) + 1, Len(q)) = <<>>
    BY SubSeqFull, SubSeqEmpty
  <2>2. q \o <<x>> = Append(q, x) /\ Append(q, x) \in Seq(S)
    BY AppendIsConcat, AppendProperties
  <2>3. InsertAt(q, Len(q) + 1, x) = (q \o <<x>>) \o <<>>
    <3>1. (Len(q) + 1) - 1 = Len(q)
      OBVIOUS
    <3> QED
      BY <2>1, <3>1, Zenon DEF InsertAt
  <2> QED
    BY <2>2, <2>3, ConcatEmptySeq
<1>2. places \subseteq 1..(Len(q) + 1) /\ places # {} /\ places \subseteq Nat
  OBVIOUS
<1> HIDE DEF places
<1>3. Min(places) \in places
  <2>1. \E i \in places : \A j \in places : i <= j
    BY <1>2, LeastOf
  <2> QED
    BY <2>1 DEF Min
<1>4. Min(places) \in 1..(Len(q) + 1)
  BY <1>2, <1>3
<1>5. Insert(q, x) = InsertAt(q, Len(q) + 1, x) \/ Insert(q, x) = InsertAt(q, Min(places), x)
  BY <1>1 DEF Insert, places
<1>6. Len(q) + 1 \in 1..(Len(q) + 1)
  OBVIOUS
<1> QED
  BY <1>4, <1>5, <1>6, InsertAtFacts

(* What is left of a queue.                                                *)
LEMMA RestFacts ==
  ASSUME NEW S, NEW q \in Seq(S), q # <<>>
  PROVE  /\ Rest(q) = Tail(q) /\ Tail(q) \in Seq(S) /\ Len(Tail(q)) = Len(q) - 1
         /\ Head(q) \in S
         /\ Range(q) = Range(Tail(q)) \union {Head(q)}
<1>1. Range(q) = {q[k] : k \in 1..Len(q)} /\ Len(q) \in Nat \ {0}
  BY RangeEquality
<1>2. Tail(q) \in Seq(S) /\ Len(Tail(q)) = Len(q) - 1 /\ \A k \in 1..Len(Tail(q)) : Tail(q)[k] = q[k + 1]
  BY HeadTailProperties
<1>3. Range(Tail(q)) = {Tail(q)[k] : k \in 1..Len(Tail(q))}
  BY <1>2, RangeEquality
<1>4. \A k \in 1..Len(q) : k = 1 \/ (k - 1 \in 1..Len(Tail(q)) /\ q[k] = Tail(q)[k - 1])
  BY <1>1, <1>2
<1>5. \A k \in 1..Len(Tail(q)) : k + 1 \in 1..Len(q) /\ Tail(q)[k] = q[k + 1]
  BY <1>1, <1>2
<1>6. Head(q) = q[1] /\ 1 \in 1..Len(q) /\ Head(q) \in S
  BY <1>1
<1>7. ASSUME NEW v \in Range(q) PROVE v \in Range(Tail(q)) \union {Head(q)}
  <2>1. PICK k \in 1..Len(q) : v = q[k]
    BY <1>1
  <2> QED
    BY <1>3, <1>4, <1>6, <2>1
<1>8. ASSUME NEW v \in Range(Tail(q)) \union {Head(q)} PROVE v \in Range(q)
  BY <1>1, <1>3, <1>5, <1>6
<1> QED
  BY <1>2, <1>6, <1>7, <1>8 DEF Rest
-----------------------------------------------------------------------------
(* The two processes, and what their queues hold.                          *)

(* Each is the peer of the other.                                          *)
LEMMA PeerFacts ==
  ASSUME NEW p \in Procs
  PROVE  /\ Peer(p) \in Procs /\ Peer(p) # p /\ Peer(Peer(p)) = p
         /\ \A q \in Procs : q # p => q = Peer(p)
<1>1. PICK q \in Procs : Procs = {p, q} /\ p # q
  BY ProcsAssumption
<1>2. Peer(p) = q /\ Peer(q) = p
  BY <1>1 DEF Peer
<1> QED
  BY <1>1, <1>2

(* Messages and requests are not mistaken for each other.                  *)
LEMMA EntryFacts ==
  /\ \A m \in Messages : Async(m) \in Entries /\ Async(m)[1] = "async" /\ Async(m)[2] = m
  /\ \A k \in Requests : Request(k) \in Entries /\ Request(k)[1] = "sync" /\ Request(k)[2] = k
  /\ \A e \in Entries : \/ e[1] = "sync" /\ e[2] \in Requests /\ e = Request(e[2])
                        \/ e[1] = "async" /\ e[2] \in Messages /\ e = Async(e[2])
<1>1. \A m \in Messages : Async(m) \in Entries /\ Async(m)[1] = "async" /\ Async(m)[2] = m
  BY DEF Async, Entries
<1>2. \A k \in Requests : Request(k) \in Entries /\ Request(k)[1] = "sync" /\ Request(k)[2] = k
  BY DEF Request, Entries
<1>3. \A e \in {"sync"} \X Requests : e[1] = "sync" /\ e[2] \in Requests /\ e = Request(e[2])
  BY DEF Request
<1>4. \A e \in {"async"} \X Messages : e[1] = "async" /\ e[2] \in Messages /\ e = Async(e[2])
  BY DEF Async
<1> QED
  BY <1>1, <1>2, <1>3, <1>4 DEF Entries
-----------------------------------------------------------------------------
(* The inductive invariant.                                                *)

(* SendRequest puts the request of the call into a queue.                  *)
CallHasRequest == \A p \in Procs : pc[p] # "out" => req[p] \in Requests

(* A call that began with no older request open has none before it sends   *)
(* its own, so its flush takes all the answers there are; afterwards its   *)
(* own is the only one that can be answered.                               *)
NothingOlder(p) ==
  /\ fresh[p] /\ pc[p] = "flush" => Open(p) = {} /\ Len(answers[p]) = left[p]
  /\ fresh[p] /\ pc[p] = "wait" => Open(p) \subseteq {req[p]} /\ Range(answers[p]) \subseteq {req[p]}

IInv ==
  /\ TypeOK /\ CallHasRequest
  /\ AcceptedIsQueued
  /\ \A p \in Procs : NothingOlder(p)

(* The invariant holds at the beginning.                                   *)
LEMMA InitHolds == Init => IInv
<1> SUFFICES ASSUME Init PROVE IInv
  OBVIOUS
<1> USE BoundsAssumption
<1>1. {Capacity, SyncCapacity, MaxCalls, MaxCrashes} \subseteq Nat /\ <<>> \in Seq(Entries) /\ <<>> \in Seq(Requests) /\ Len(<<>>) = 0
  BY DEF BoundsAssumption
<1>2. TypeOK
  BY <1>1 DEF Init, TypeOK, Fates
<1>3. CallHasRequest /\ AcceptedIsQueued /\ \A p \in Procs : NothingOlder(p)
  BY DEF Init, CallHasRequest, AcceptedIsQueued, NothingOlder
<1> QED
  BY <1>2, <1>3 DEF IInv
-----------------------------------------------------------------------------
(* Type correctness.                                                       *)

(* A step keeps the types and the requests of the calls.                   *)
LEMMA TypeStep ==
  TypeOK /\ CallHasRequest /\ [Next]_vars => TypeOK' /\ CallHasRequest'
<1> SUFFICES ASSUME TypeOK, CallHasRequest, [Next]_vars PROVE TypeOK' /\ CallHasRequest'
  OBVIOUS
<1>0. {Capacity, SyncCapacity, MaxCalls, MaxCrashes} \subseteq Nat
  BY BoundsAssumption DEF BoundsAssumption
<1>1. ASSUME NEW m \in Messages, Put(m) PROVE TypeOK' /\ CallHasRequest'
  <2> DEFINE q == Peer(Sender[m])
  <2>1. q \in Procs
    BY MessagesAssumption, PeerFacts DEF MessagesAssumption
  <2> HIDE DEF q
  <2>2. Insert(inbox[q], Async(m)) \in Seq(Entries) /\ Len(Insert(inbox[q], Async(m))) = Len(inbox[q]) + 1
    BY <2>1, InsertFacts, EntryFacts DEF TypeOK
  <2>3. Len(inbox[q]) < Capacity /\ inbox' = [inbox EXCEPT ![q] = Insert(inbox[q], Async(m))]
    BY <1>1 DEF Put, q
  <2>4. Len(inbox[q]) \in Nat
    BY <2>1 DEF TypeOK
  <2>5. inbox' \in [Procs -> Seq(Entries)] /\ \A p \in Procs : Len(inbox'[p]) <= Capacity
    BY <1>0, <2>1, <2>2, <2>3, <2>4 DEF TypeOK
  <2>6. fate' \in [Messages -> Fates]
    BY <1>1 DEF Put, TypeOK, Fates
  <2> QED
    BY <1>1, <2>5, <2>6 DEF Put, TypeOK, CallHasRequest, caller, bounds, receiver
<1>2. ASSUME NEW p \in Procs, CallSync(p) PROVE TypeOK' /\ CallHasRequest'
  <2>1. Len(answers[p]) \in 0..(Capacity + SyncCapacity)
    BY <1>0 DEF TypeOK
  <2>2. calls + 1 \in Requests /\ calls' \in 0..MaxCalls
    BY <1>0, <1>2 DEF TypeOK, CallSync, Requests
  <2>3. (Open(p) = {}) \in BOOLEAN
    OBVIOUS
  <2>4. fresh' \in [Procs -> BOOLEAN]
    BY <1>2, <2>3 DEF TypeOK, CallSync
  <2>5. left' \in [Procs -> 0..(Capacity + SyncCapacity)] /\ req' \in [Procs -> Requests \union {None}]
    BY <1>2, <2>1, <2>2 DEF TypeOK, CallSync
  <2>6. pc' \in [Procs -> {"out", "flush", "full", "drain", "wait"}]
    BY <1>2 DEF TypeOK, CallSync
  <2>7. CallHasRequest'
    BY <1>2, <2>2 DEF TypeOK, CallSync, CallHasRequest
  <2> QED
    BY <1>2, <2>2, <2>4, <2>5, <2>6, <2>7 DEF TypeOK, CallSync, queues, receiver
<1>3. ASSUME NEW p \in Procs, FlushOne(p) PROVE TypeOK' /\ CallHasRequest'
  <2>1. Rest(answers[p]) \in Seq(Requests) /\ Len(Rest(answers[p])) <= SyncCapacity
    <3>1. CASE answers[p] = <<>>
      BY <3>1 DEF Rest, TypeOK
    <3>2. CASE answers[p] # <<>>
      <4>1. answers[p] \in Seq(Requests) /\ Len(answers[p]) \in Nat /\ Len(answers[p]) <= SyncCapacity
        BY DEF TypeOK
      <4>2. Rest(answers[p]) = Tail(answers[p]) /\ Tail(answers[p]) \in Seq(Requests) /\ Len(Tail(answers[p])) = Len(answers[p]) - 1
        BY <3>2, <4>1, RestFacts
      <4> QED
        BY <1>0, <4>1, <4>2
    <3> QED
      BY <3>1, <3>2
  <2>2. answers' = [answers EXCEPT ![p] = Rest(answers[p])] /\ left' = [left EXCEPT ![p] = left[p] - 1]
    BY <1>3 DEF FlushOne
  <2>3. answers' \in [Procs -> Seq(Requests)] /\ \A q \in Procs : Len(answers'[q]) <= SyncCapacity
    BY <2>1, <2>2 DEF TypeOK
  <2>4. left' \in [Procs -> 0..(Capacity + SyncCapacity)]
    BY <1>0, <1>3, <2>2 DEF FlushOne, TypeOK, receiver
  <2> QED
    BY <1>3, <2>3, <2>4 DEF FlushOne, TypeOK, CallHasRequest, bounds, receiver
<1>4. ASSUME NEW p \in Procs, SendRequest(p) PROVE TypeOK' /\ CallHasRequest'
  <2> DEFINE q == Peer(p)
  <2>1. q \in Procs /\ req[p] \in Requests
    BY <1>4, PeerFacts DEF SendRequest, CallHasRequest
  <2> HIDE DEF q
  <2>2. Insert(inbox[q], Request(req[p])) \in Seq(Entries) /\ Len(Insert(inbox[q], Request(req[p]))) = Len(inbox[q]) + 1
    BY <2>1, InsertFacts, EntryFacts DEF TypeOK
  <2>3. \/ Len(inbox[q]) < Capacity /\ inbox' = [inbox EXCEPT ![q] = Insert(inbox[q], Request(req[p]))]
        \/ UNCHANGED inbox
    BY <1>4 DEF SendRequest, q
  <2>4. Len(inbox[q]) \in Nat
    BY <2>1 DEF TypeOK
  <2>5. inbox' \in [Procs -> Seq(Entries)] /\ \A r \in Procs : Len(inbox'[r]) <= Capacity
    <3>1. CASE UNCHANGED inbox
      BY <3>1 DEF TypeOK
    <3>2. CASE Len(inbox[q]) < Capacity /\ inbox' = [inbox EXCEPT ![q] = Insert(inbox[q], Request(req[p]))]
      BY <1>0, <2>1, <2>2, <2>4, <3>2 DEF TypeOK
    <3> QED
      BY <2>3, <3>1, <3>2
  <2>6. pc' \in [Procs -> {"out", "flush", "full", "drain", "wait"}] /\ CallHasRequest'
    BY <1>4, <2>1 DEF SendRequest, TypeOK, CallHasRequest, receiver
  <2> QED
    BY <1>4, <2>5, <2>6 DEF SendRequest, TypeOK, bounds, receiver
<1>5. ASSUME NEW p \in Procs, CountFull(p) PROVE TypeOK' /\ CallHasRequest'
  <2>1. Peer(p) \in Procs /\ Len(inbox[Peer(p)]) \in 0..(Capacity + SyncCapacity)
    BY <1>0, PeerFacts DEF TypeOK
  <2>2. left' \in [Procs -> 0..(Capacity + SyncCapacity)]
    BY <1>5, <2>1 DEF CountFull, TypeOK, receiver
  <2>3. pc' \in [Procs -> {"out", "flush", "full", "drain", "wait"}] /\ CallHasRequest'
    BY <1>5 DEF CountFull, TypeOK, CallHasRequest, receiver
  <2> QED
    BY <1>5, <2>2, <2>3 DEF CountFull, TypeOK, queues, bounds, receiver
<1>6. ASSUME NEW p \in Procs, DrainOne(p) PROVE TypeOK' /\ CallHasRequest'
  <2> DEFINE q == Peer(p)
  <2>1. q \in Procs
    BY PeerFacts
  <2> HIDE DEF q
  <2>2. Rest(inbox[q]) \in Seq(Entries) /\ Len(Rest(inbox[q])) <= Capacity
    <3>1. CASE inbox[q] = <<>>
      BY <2>1, <3>1 DEF Rest, TypeOK
    <3>2. CASE inbox[q] # <<>>
      <4>1. inbox[q] \in Seq(Entries) /\ Len(inbox[q]) \in Nat /\ Len(inbox[q]) <= Capacity
        BY <2>1 DEF TypeOK
      <4>2. Rest(inbox[q]) = Tail(inbox[q]) /\ Tail(inbox[q]) \in Seq(Entries) /\ Len(Tail(inbox[q])) = Len(inbox[q]) - 1
        BY <3>2, <4>1, RestFacts
      <4> QED
        BY <1>0, <4>1, <4>2
    <3> QED
      BY <3>1, <3>2
  <2>3. inbox' = [inbox EXCEPT ![q] = Rest(inbox[q])] /\ left' = [left EXCEPT ![p] = left[p] - 1]
    BY <1>6 DEF DrainOne, q
  <2>4. inbox' \in [Procs -> Seq(Entries)] /\ \A r \in Procs : Len(inbox'[r]) <= Capacity
    BY <2>1, <2>2, <2>3 DEF TypeOK
  <2>5. left' \in [Procs -> 0..(Capacity + SyncCapacity)]
    BY <1>0, <1>6, <2>3 DEF DrainOne, TypeOK, receiver
  <2>6. fate' \in [Messages -> Fates]
    BY <1>6 DEF DrainOne, TypeOK, Fates
  <2> QED
    BY <1>6, <2>4, <2>5, <2>6 DEF DrainOne, TypeOK, CallHasRequest, bounds, receiver
<1>7. ASSUME NEW p \in Procs, Return(p) PROVE /\ pc' \in [Procs -> {"out", "flush", "full", "drain", "wait"}]
                                            /\ req' \in [Procs -> Requests \union {None}]
                                            /\ fresh' \in [Procs -> BOOLEAN] /\ CallHasRequest'
  BY <1>7 DEF Return, TypeOK, CallHasRequest
<1>8. ASSUME NEW p \in Procs, Drained(p) PROVE TypeOK' /\ CallHasRequest'
  BY <1>7, <1>8 DEF Drained, TypeOK, queues, receiver, bounds
<1>9. ASSUME NEW p \in Procs, Answered(p) \/ TimeOut(p) PROVE TypeOK' /\ CallHasRequest'
  <2>1. answers[p] \in Seq(Requests) /\ Len(answers[p]) \in Nat /\ Len(answers[p]) <= SyncCapacity
    BY DEF TypeOK
  <2>2. Rest(answers[p]) \in Seq(Requests) /\ Len(Rest(answers[p])) <= SyncCapacity
    <3>1. CASE answers[p] = <<>>
      BY <2>1, <3>1 DEF Rest
    <3>2. CASE answers[p] # <<>>
      <4>1. /\ Rest(answers[p]) = Tail(answers[p]) /\ Tail(answers[p]) \in Seq(Requests)
            /\ Len(Tail(answers[p])) = Len(answers[p]) - 1
        BY <2>1, <3>2, RestFacts
      <4> QED
        BY <1>0, <2>1, <4>1
    <3> QED
      BY <3>1, <3>2
  <2>3. answers' = [answers EXCEPT ![p] = Rest(answers[p])] \/ answers' = [answers EXCEPT ![p] = answers[p]]
    BY <1>9 DEF Answered, TimeOut, Rest
  <2>4. answers' \in [Procs -> Seq(Requests)] /\ \A q \in Procs : Len(answers'[q]) <= SyncCapacity
    BY <2>1, <2>2, <2>3 DEF TypeOK
  <2> QED
    BY <1>7, <1>9, <2>4 DEF Answered, TimeOut, TypeOK, receiver, bounds
<1>10. ASSUME NEW p \in Procs, Receive(p) PROVE TypeOK' /\ CallHasRequest'
  <2>1. inbox[p] \in Seq(Entries) /\ Len(inbox[p]) \in Nat /\ Len(inbox[p]) <= Capacity
    BY DEF TypeOK
  <2>2. Tail(inbox[p]) \in Seq(Entries) /\ Len(Tail(inbox[p])) <= Capacity /\ Head(inbox[p]) \in Entries
    BY <1>0, <1>10, <2>1, RestFacts DEF Receive
  <2>3. inbox' = [inbox EXCEPT ![p] = Tail(inbox[p])]
    BY <1>10 DEF Receive
  <2>4. inbox' \in [Procs -> Seq(Entries)] /\ \A q \in Procs : Len(inbox'[q]) <= Capacity
    BY <2>2, <2>3 DEF TypeOK
  <2>5. got' \in [Procs -> SUBSET Entries] /\ fate' \in [Messages -> Fates]
    BY <1>10, <2>2 DEF Receive, TypeOK, Fates
  <2> QED
    BY <1>10, <2>4, <2>5 DEF Receive, TypeOK, CallHasRequest, caller, bounds
<1>15. ASSUME NEW p \in Procs, Handle(p) PROVE TypeOK' /\ CallHasRequest'
  <2>1. got' \in [Procs -> SUBSET Entries] /\ todo' \in [Procs -> SUBSET Requests]
    BY <1>15 DEF Handle, TypeOK
  <2>2. fate' \in [Messages -> Fates]
    BY <1>15 DEF Handle, TypeOK, Fates
  <2> QED
    BY <1>15, <2>1, <2>2 DEF Handle, TypeOK, CallHasRequest, queues, caller, bounds
<1>11. ASSUME NEW p \in Procs, NEW k \in Requests, Respond(p, k) PROVE TypeOK' /\ CallHasRequest'
  <2> DEFINE q == Peer(p)
  <2>1. q \in Procs
    BY PeerFacts
  <2> HIDE DEF q
  <2>2. answers[q] \in Seq(Requests) /\ Len(answers[q]) \in Nat /\ Len(answers[q]) <= SyncCapacity
    BY <2>1 DEF TypeOK
  <2>3. Append(answers[q], k) \in Seq(Requests) /\ Len(Append(answers[q], k)) = Len(answers[q]) + 1
    BY <2>2, AppendProperties
  <2>4. answers' = [answers EXCEPT ![q] = IF Len(answers[q]) < SyncCapacity THEN Append(answers[q], k) ELSE answers[q]]
    BY <1>11 DEF Respond, q
  <2>5. answers' \in [Procs -> Seq(Requests)] /\ \A r \in Procs : Len(answers'[r]) <= SyncCapacity
    BY <1>0, <2>1, <2>2, <2>3, <2>4 DEF TypeOK
  <2>6. todo' \in [Procs -> SUBSET Requests]
    BY <1>11 DEF Respond, TypeOK
  <2> QED
    BY <1>11, <2>5, <2>6 DEF Respond, TypeOK, CallHasRequest, caller, bounds
<1>12. ASSUME NEW p \in Procs, Crash(p) PROVE TypeOK' /\ CallHasRequest'
  <2>1. /\ up' \in [Procs -> BOOLEAN] /\ todo' \in [Procs -> SUBSET Requests]
        /\ got' \in [Procs -> SUBSET Entries] /\ fate' \in [Messages -> Fates]
    BY <1>12 DEF Crash, TypeOK, Fates
  <2>2. left' \in [Procs -> 0..(Capacity + SyncCapacity)] /\ crashes' \in 0..MaxCrashes
    BY <1>0, <1>12 DEF Crash, TypeOK
  <2>3. Return(p)
    BY <1>12 DEF Crash
  <2> QED
    BY <1>7, <1>12, <2>1, <2>2, <2>3 DEF Crash, TypeOK, queues
<1>13. ASSUME NEW p \in Procs, Restart(p) PROVE TypeOK' /\ CallHasRequest'
  <2>1. up' \in [Procs -> BOOLEAN]
    BY <1>13 DEF Restart, TypeOK, receiver
  <2> QED
    BY <1>13, <2>1 DEF Restart, TypeOK, CallHasRequest, queues, caller, bounds, receiver
<1>14. CASE UNCHANGED vars
  BY <1>14 DEF vars, TypeOK, CallHasRequest, queues, caller, bounds, receiver
<1> QED
  BY <1>1, <1>2, <1>3, <1>4, <1>5, <1>6, <1>8, <1>9, <1>10, <1>11, <1>12, <1>13, <1>14, <1>15
     DEF Next, CallStep, ReceiverStep
-----------------------------------------------------------------------------
(* Accepted messages.                                                      *)

(* A step takes an accepted message out of the queue only with its fate.   *)
LEMMA QueuedStep ==
  TypeOK /\ CallHasRequest /\ AcceptedIsQueued /\ [Next]_vars => AcceptedIsQueued'
<1> SUFFICES ASSUME TypeOK, CallHasRequest, AcceptedIsQueued, [Next]_vars,
                    NEW n \in Messages, fate'[n] = "queued"
             PROVE  Async(n) \in Range(inbox'[Peer(Sender[n])])
  BY DEF AcceptedIsQueued
<1> DEFINE home == Peer(Sender[n])
<1>1. home \in Procs
  BY MessagesAssumption, PeerFacts DEF MessagesAssumption
<1>2. fate[n] = "queued" => Async(n) \in Range(inbox[home])
  BY DEF AcceptedIsQueued
<1>3. \A q \in Procs : inbox[q] \in Seq(Entries)
  BY DEF TypeOK
<1> HIDE DEF home
<1>4. ASSUME fate[n] = "queued", inbox'[home] = inbox[home] PROVE Async(n) \in Range(inbox'[home])
  BY <1>2, <1>4
<1>5. ASSUME NEW m \in Messages, Put(m) PROVE Async(n) \in Range(inbox'[home])
  <2> DEFINE q == Peer(Sender[m])
  <2>1. q \in Procs /\ (m = n => q = home)
    BY MessagesAssumption, PeerFacts DEF MessagesAssumption, home
  <2>2. inbox' = [inbox EXCEPT ![q] = Insert(inbox[q], Async(m))] /\ fate' = [fate EXCEPT ![m] = "queued"]
    BY <1>5 DEF Put
  <2> HIDE DEF q
  <2>3. Range(Insert(inbox[q], Async(m))) = Range(inbox[q]) \union {Async(m)}
    BY <1>3, <2>1, InsertFacts, EntryFacts
  <2>4. inbox'[q] = Insert(inbox[q], Async(m)) /\ \A r \in Procs : r # q => inbox'[r] = inbox[r]
    BY <2>1, <2>2 DEF TypeOK
  <2>5. m # n => fate[n] = "queued"
    BY <2>2 DEF TypeOK
  <2> QED
    BY <1>1, <1>2, <2>1, <2>3, <2>4, <2>5
<1>6. ASSUME NEW p \in Procs, SendRequest(p) PROVE Async(n) \in Range(inbox'[home])
  <2> DEFINE q == Peer(p)
  <2>1. q \in Procs /\ req[p] \in Requests /\ fate[n] = "queued"
    BY <1>6, PeerFacts DEF SendRequest, CallHasRequest
  <2>2. UNCHANGED inbox \/ inbox' = [inbox EXCEPT ![q] = Insert(inbox[q], Request(req[p]))]
    BY <1>6 DEF SendRequest
  <2> HIDE DEF q
  <2>3. Range(Insert(inbox[q], Request(req[p]))) = Range(inbox[q]) \union {Request(req[p])}
    <3>1. inbox[q] \in Seq(Entries) /\ Request(req[p]) \in Entries
      BY <1>3, <2>1, EntryFacts
    <3> QED
      BY <3>1, InsertFacts
  <2>4. UNCHANGED inbox \/ /\ inbox'[q] = Insert(inbox[q], Request(req[p]))
                           /\ \A r \in Procs : r # q => inbox'[r] = inbox[r]
    BY <2>1, <2>2 DEF TypeOK
  <2> QED
    BY <1>1, <1>2, <2>1, <2>3, <2>4
<1>7. ASSUME NEW p \in Procs, DrainOne(p) PROVE Async(n) \in Range(inbox'[home])
  <2> DEFINE q == Peer(p)
  <2>1. q \in Procs
    BY PeerFacts
  <2>2. /\ inbox' = [inbox EXCEPT ![q] = Rest(inbox[q])]
        /\ fate' = [m \in Messages |-> IF inbox[q] # <<>> /\ Head(inbox[q]) = Async(m) THEN "drained" ELSE fate[m]]
    BY <1>7 DEF DrainOne
  <2> HIDE DEF q
  <2>3. fate[n] = "queued" /\ ~(inbox[q] # <<>> /\ Head(inbox[q]) = Async(n))
    BY <2>2
  <2>4. inbox'[q] = Rest(inbox[q]) /\ \A r \in Procs : r # q => inbox'[r] = inbox[r]
    BY <2>1, <2>2 DEF TypeOK
  <2>5. CASE home # q
    BY <1>1, <1>4, <2>3, <2>4, <2>5
  <2>6. CASE home = q /\ inbox[q] = <<>>
    BY <1>2, <2>3, <2>4, <2>6 DEF Rest
  <2>7. CASE home = q /\ inbox[q] # <<>>
    <3>1. Range(inbox[q]) = Range(Tail(inbox[q])) \union {Head(inbox[q])} /\ Rest(inbox[q]) = Tail(inbox[q])
      BY <1>3, <2>1, <2>7, RestFacts
    <3> QED
      BY <1>2, <2>3, <2>4, <2>7, <3>1
  <2> QED
    BY <2>5, <2>6, <2>7
<1>8. ASSUME NEW p \in Procs, Receive(p) PROVE Async(n) \in Range(inbox'[home])
  <2>1. inbox[p] # <<>> /\ inbox' = [inbox EXCEPT ![p] = Tail(inbox[p])]
    BY <1>8 DEF Receive
  <2>2. Range(inbox[p]) = Range(Tail(inbox[p])) \union {Head(inbox[p])} /\ Head(inbox[p]) \in Entries
    BY <1>3, <2>1, RestFacts
  <2>3. inbox'[p] = Tail(inbox[p]) /\ \A r \in Procs : r # p => inbox'[r] = inbox[r]
    BY <2>1 DEF TypeOK
  <2>4. fate[n] = "queued" /\ Head(inbox[p]) # Async(n)
    BY <1>8 DEF Receive
  <2> QED
    BY <1>1, <1>2, <2>2, <2>3, <2>4
<1>9. ASSUME NEW p \in Procs,
             \/ CallSync(p) \/ FlushOne(p) \/ CountFull(p) \/ Drained(p) \/ Answered(p) \/ TimeOut(p)
             \/ Handle(p) \/ (\E k \in Requests : Respond(p, k)) \/ Crash(p) \/ Restart(p)
      PROVE  Async(n) \in Range(inbox'[home])
  <2>1. inbox' = inbox /\ fate[n] = "queued"
    BY <1>9 DEF CallSync, FlushOne, CountFull, Drained, Answered, TimeOut, Handle, Respond, Crash, Restart, queues
  <2> QED
    BY <1>4, <2>1
<1>10. ASSUME UNCHANGED vars PROVE Async(n) \in Range(inbox'[home])
  <2>1. inbox' = inbox /\ fate' = fate
    BY <1>10 DEF vars, queues
  <2> QED
    BY <1>4, <2>1
<1>11. Async(n) \in Range(inbox'[home])
  BY <1>5, <1>6, <1>7, <1>8, <1>9, <1>10 DEF Next, CallStep, ReceiverStep
<1> QED
  BY <1>11 DEF home
-----------------------------------------------------------------------------
(* Answers.                                                                *)

(* What keeps the answers and the request of a call and opens no older one *)
(* keeps the call free of older ones.                                      *)
LEMMA CallKept ==
  ASSUME NEW q \in Procs, NothingOlder(q),
         pc'[q] = pc[q], fresh'[q] = fresh[q], req'[q] = req[q], left'[q] = left[q],
         answers'[q] = answers[q], Open(q)' \subseteq Open(q)
  PROVE  NothingOlder(q)'
BY DEF NothingOlder

(* No call has a request open that no queue, no mq_msg_cb and no handler   *)
(* of the peer has got.                                                    *)
Holds(q, k) == Request(k) \in Range(inbox[q]) \/ Request(k) \in got[q] \/ k \in todo[q]

LEMMA OpenKept ==
  ASSUME NEW q \in Procs, \A k \in Requests : Holds(Peer(q), k)' => Holds(Peer(q), k)
  PROVE  Open(q)' \subseteq Open(q)
<1>1. Open(q) = {k \in Requests : Holds(Peer(q), k)}
  BY DEF Open, Holds
<1>2. Open(q)' = {k \in Requests : Holds(Peer(q), k)'}
  BY DEF Open, Holds, Peer, Requests, Request
<1> QED
  BY <1>1, <1>2

(* A step keeps every call free of older requests.                         *)
LEMMA FreshStep ==
  IInv /\ [Next]_vars => \A q \in Procs : NothingOlder(q)'
<1> SUFFICES ASSUME IInv, [Next]_vars, NEW q \in Procs PROVE NothingOlder(q)'
  OBVIOUS
<1>1. TypeOK /\ CallHasRequest /\ NothingOlder(q)
  BY DEF IInv
<1>2. Peer(q) \in Procs /\ Peer(q) # q /\ Peer(Peer(q)) = q /\ \A p \in Procs : p # q => p = Peer(q)
  BY PeerFacts
<1>3. \A p \in Procs : inbox[p] \in Seq(Entries) /\ answers[p] \in Seq(Requests)
  BY <1>1 DEF TypeOK
<1>4. ASSUME inbox'[Peer(q)] = inbox[Peer(q)], got'[Peer(q)] = got[Peer(q)], todo'[Peer(q)] = todo[Peer(q)]
      PROVE  Open(q)' \subseteq Open(q)
  BY <1>4 DEF Open, Peer, Requests, Request
<1>5. ASSUME pc'[q] \notin {"flush", "wait"} PROVE NothingOlder(q)'
  BY <1>5 DEF NothingOlder
<1>6. ASSUME NEW m \in Messages, Put(m) PROVE NothingOlder(q)'
  <2> DEFINE r == Peer(Sender[m])
  <2>1. r \in Procs
    BY MessagesAssumption, PeerFacts DEF MessagesAssumption
  <2>2. inbox' = [inbox EXCEPT ![r] = Insert(inbox[r], Async(m))]
    BY <1>6 DEF Put
  <2> HIDE DEF r
  <2>3. Range(Insert(inbox[r], Async(m))) = Range(inbox[r]) \union {Async(m)}
    BY <1>3, <2>1, InsertFacts, EntryFacts
  <2>4. inbox'[r] = Insert(inbox[r], Async(m)) /\ \A p \in Procs : p # r => inbox'[p] = inbox[p]
    BY <1>1, <2>1, <2>2 DEF TypeOK
  <2>5. \A k \in Requests : Request(k) # Async(m)
    BY EntryFacts
  <2>6. \A k \in Requests : Request(k) \in Range(inbox'[Peer(q)]) => Request(k) \in Range(inbox[Peer(q)])
    BY <1>2, <2>3, <2>4, <2>5
  <2>7. UNCHANGED <<answers, caller, got, todo>>
    BY <1>6 DEF Put, receiver
  <2>8. Open(q)' \subseteq Open(q)
    BY <2>6, <2>7, OpenKept DEF Holds, Request
  <2> QED
    BY <1>1, <2>7, <2>8, CallKept DEF caller
<1>7. ASSUME NEW p \in Procs, CallSync(p) PROVE NothingOlder(q)'
  <2>1. UNCHANGED <<inbox, answers, got, todo>>
    BY <1>7 DEF CallSync, queues, receiver
  <2>2. Open(q)' \subseteq Open(q)
    BY <1>4, <2>1
  <2>3. CASE p = q
    <3>1. pc'[q] = "flush" /\ left'[q] = Len(answers[q]) /\ (fresh'[q] => Open(q) = {})
      BY <1>1, <1>7, <2>3 DEF CallSync, TypeOK
    <3> QED
      BY <2>1, <2>2, <3>1 DEF NothingOlder
  <2>4. CASE p # q
    <3>1. pc'[q] = pc[q] /\ fresh'[q] = fresh[q] /\ req'[q] = req[q] /\ left'[q] = left[q]
      BY <1>1, <1>7, <2>4 DEF CallSync, TypeOK
    <3> QED
      BY <1>1, <2>1, <2>2, <3>1, CallKept
  <2> QED
    BY <2>3, <2>4
<1>8. ASSUME NEW p \in Procs, FlushOne(p) PROVE NothingOlder(q)'
  <2>1. UNCHANGED <<inbox, got, todo, pc, fresh, req>> /\ pc[p] = "flush" /\ left[p] > 0
    BY <1>8 DEF FlushOne, receiver
  <2>2. Open(q)' \subseteq Open(q)
    BY <1>4, <2>1
  <2>3. CASE p = q
    <3>1. answers'[q] = Rest(answers[q]) /\ left'[q] = left[q] - 1
      BY <1>1, <1>8, <2>3 DEF FlushOne, TypeOK
    <3>2. ASSUME fresh[q] PROVE Open(q) = {} /\ Len(answers'[q]) = left'[q]
      <4>1. Open(q) = {} /\ Len(answers[q]) = left[q] /\ left[q] > 0
        BY <1>1, <2>1, <2>3, <3>2 DEF NothingOlder
      <4>2. answers[q] # <<>>
        BY <4>1
      <4> QED
        BY <1>3, <3>1, <4>1, <4>2, RestFacts
    <3> QED
      BY <2>1, <2>2, <2>3, <3>2 DEF NothingOlder
  <2>4. CASE p # q
    <3>1. answers'[q] = answers[q] /\ left'[q] = left[q]
      BY <1>1, <1>8, <2>4 DEF FlushOne, TypeOK
    <3> QED
      BY <1>1, <2>1, <2>2, <3>1, CallKept
  <2> QED
    BY <2>3, <2>4
<1>9. ASSUME NEW p \in Procs, SendRequest(p) PROVE NothingOlder(q)'
  <2>1. UNCHANGED <<answers, got, todo, left, fresh, req>> /\ pc[p] = "flush" /\ left[p] = 0
    BY <1>9 DEF SendRequest, receiver
  <2>2. CASE p # q
    <3>1. pc'[q] = pc[q] /\ inbox'[Peer(q)] = inbox[Peer(q)]
      <4>1. p = Peer(q) /\ Peer(p) = q
        BY <1>2, <2>2
      <4> QED
        BY <1>1, <1>2, <1>9, <4>1 DEF SendRequest, TypeOK
    <3> QED
      BY <1>1, <1>4, <2>1, <3>1, CallKept
  <2>3. CASE p = q /\ pc'[q] = "wait"
    <3>1. req[q] \in Requests /\ Request(req[q]) \in Entries
      BY <1>1, <2>1, <2>3, EntryFacts DEF CallHasRequest
    <3>2. inbox'[Peer(q)] = Insert(inbox[Peer(q)], Request(req[q]))
      BY <1>1, <1>2, <1>9, <2>3 DEF SendRequest, TypeOK
    <3>3. Range(inbox'[Peer(q)]) = Range(inbox[Peer(q)]) \union {Request(req[q])}
      BY <1>2, <1>3, <3>1, <3>2, InsertFacts
    <3>4. \A k \in Requests : Request(k) = Request(req[q]) => k = req[q]
      BY <3>1, EntryFacts
    <3>5. Open(q)' \subseteq Open(q) \union {req[q]}
      BY <2>1, <3>3, <3>4 DEF Open, Peer, Requests, Request
    <3>6. ASSUME fresh[q] PROVE Open(q) = {} /\ Range(answers[q]) = {}
      <4>1. Open(q) = {} /\ Len(answers[q]) = 0
        BY <1>1, <2>1, <2>3, <3>6 DEF NothingOlder
      <4> QED
        BY <1>3, <4>1, RangeEquality
    <3> QED
      BY <2>1, <2>3, <3>5, <3>6 DEF NothingOlder
  <2>4. CASE p = q /\ pc'[q] # "wait"
    <3>1. pc'[q] = "full"
      BY <1>1, <1>9, <2>4 DEF SendRequest, TypeOK
    <3> QED
      BY <1>5, <3>1
  <2> QED
    BY <2>2, <2>3, <2>4
<1>10. ASSUME NEW p \in Procs, CountFull(p) PROVE NothingOlder(q)'
  <2>1. UNCHANGED <<inbox, answers, got, todo, fresh, req>>
    BY <1>10 DEF CountFull, queues, receiver
  <2>2. IF p = q THEN pc'[q] = "drain" ELSE pc'[q] = pc[q] /\ left'[q] = left[q]
    BY <1>1, <1>10 DEF CountFull, TypeOK
  <2> QED
    BY <1>1, <1>4, <1>5, <2>1, <2>2, CallKept
<1>11. ASSUME NEW p \in Procs, DrainOne(p) PROVE NothingOlder(q)'
  <2>1. UNCHANGED <<answers, got, todo, pc, fresh, req>> /\ pc[p] = "drain"
    BY <1>11 DEF DrainOne, receiver
  <2>2. CASE p = q
    BY <1>5, <2>1, <2>2
  <2>3. CASE p # q
    <3>1. p = Peer(q) /\ Peer(p) = q
      BY <1>2, <2>3
    <3>2. inbox'[Peer(q)] = inbox[Peer(q)] /\ left'[q] = left[q]
      BY <1>1, <1>2, <1>11, <3>1 DEF DrainOne, TypeOK
    <3> QED
      BY <1>1, <1>4, <2>1, <3>2, CallKept
  <2> QED
    BY <2>2, <2>3
<1>12. ASSUME NEW p \in Procs, Return(p)
       PROVE  IF p = q THEN pc'[q] = "out"
              ELSE pc'[q] = pc[q] /\ fresh'[q] = fresh[q] /\ req'[q] = req[q]
  BY <1>1, <1>12 DEF Return, TypeOK
<1>13. ASSUME NEW p \in Procs, Drained(p) \/ Answered(p) \/ TimeOut(p) PROVE NothingOlder(q)'
  <2>1. UNCHANGED <<inbox, got, todo, left>> /\ Return(p)
    BY <1>13 DEF Drained, Answered, TimeOut, queues, receiver
  <2>2. p # q => answers'[q] = answers[q]
    BY <1>1, <1>13 DEF Drained, Answered, TimeOut, queues, TypeOK
  <2> QED
    BY <1>1, <1>4, <1>5, <1>12, <2>1, <2>2, CallKept
<1>14. ASSUME NEW p \in Procs, Receive(p) PROVE NothingOlder(q)'
  <2>1. UNCHANGED <<answers, caller, todo>> /\ inbox[p] # <<>>
    BY <1>14 DEF Receive
  <2>2. /\ inbox'[p] = Tail(inbox[p]) /\ got'[p] = {Head(inbox[p])}
        /\ \A r \in Procs : r # p => inbox'[r] = inbox[r] /\ got'[r] = got[r]
    BY <1>1, <1>14 DEF Receive, TypeOK
  <2>3. Range(inbox[p]) = Range(Tail(inbox[p])) \union {Head(inbox[p])}
    BY <1>3, <2>1, RestFacts
  <2>4. Open(q)' \subseteq Open(q)
    <3>1. CASE p = Peer(q)
      <4>1. \A k \in Requests : Holds(p, k)' => Holds(p, k)
        BY <2>1, <2>2, <2>3 DEF Holds, Request
      <4> QED
        BY <3>1, <4>1, OpenKept DEF Holds, Peer, Request
    <3>2. CASE p # Peer(q)
      BY <1>2, <1>4, <2>1, <2>2, <3>2
    <3> QED
      BY <3>1, <3>2
  <2> QED
    BY <1>1, <2>1, <2>4, CallKept DEF caller
<1>19. ASSUME NEW p \in Procs, Handle(p) PROVE NothingOlder(q)'
  <2>1. UNCHANGED <<inbox, answers, caller>>
    BY <1>19 DEF Handle, queues
  <2>2. /\ got'[p] = {} /\ todo'[p] = todo[p] \union {k \in Requests : Request(k) \in got[p]}
        /\ \A r \in Procs : r # p => got'[r] = got[r] /\ todo'[r] = todo[r]
    BY <1>1, <1>19 DEF Handle, TypeOK
  <2>3. Open(q)' \subseteq Open(q)
    <3>1. CASE p = Peer(q)
      <4>1. \A k \in Requests : Holds(p, k)' => Holds(p, k)
        BY <2>1, <2>2 DEF Holds, Request
      <4> QED
        BY <3>1, <4>1, OpenKept DEF Holds, Peer, Request
    <3>2. CASE p # Peer(q)
      BY <1>2, <1>4, <2>1, <2>2, <3>2
    <3> QED
      BY <3>1, <3>2
  <2> QED
    BY <1>1, <2>1, <2>3, CallKept DEF caller
<1>15. ASSUME NEW p \in Procs, NEW k \in Requests, Respond(p, k) PROVE NothingOlder(q)'
  <2>1. UNCHANGED <<inbox, caller, got>> /\ k \in todo[p]
    BY <1>15 DEF Respond
  <2>2. todo'[p] \subseteq todo[p] /\ \A r \in Procs : r # p => todo'[r] = todo[r]
    BY <1>1, <1>15 DEF Respond, TypeOK
  <2>3. Open(q)' \subseteq Open(q)
    <3>1. todo'[Peer(q)] \subseteq todo[Peer(q)]
      BY <1>2, <2>2
    <3> QED
      BY <2>1, <3>1, OpenKept DEF Holds, Request
  <2>4. CASE p # Peer(q)
    <3>1. Peer(p) # q
      BY <1>2, <2>4
    <3>2. answers'[q] = answers[q]
      BY <1>1, <1>15, <3>1 DEF Respond, TypeOK
    <3> QED
      BY <1>1, <2>1, <2>3, <3>2, CallKept DEF caller
  <2>5. CASE p = Peer(q)
    <3>1. k \in Open(q)
      BY <2>1, <2>5 DEF Open
    <3>2. Peer(p) = q
      BY <1>2, <2>5
    <3>3. answers'[q] = answers[q] \/ answers'[q] = Append(answers[q], k)
      BY <1>1, <1>15, <3>2 DEF Respond, TypeOK
    <3>4. Range(Append(answers[q], k)) = Range(answers[q]) \union {k}
      <4>1. answers[q] \in Seq(Requests) /\ <<k>> \in Seq(Requests)
        BY <1>3
      <4>2. Append(answers[q], k) = answers[q] \o <<k>>
        BY <4>1, AppendIsConcat
      <4>3. Range(<<k>>) = {k}
        <5>1. DOMAIN <<k>> = {1} /\ <<k>>[1] = k
          OBVIOUS
        <5> QED
          BY <5>1 DEF Range
      <4> DEFINE X == <<k>>
      <4> HIDE DEF X
      <4>4. Range(answers[q] \o X) = Range(answers[q]) \union Range(X)
        <5>1. X \in Seq(Requests)
          BY <4>1 DEF X
        <5> QED
          BY <4>1, <5>1, RangeConcatenation
      <4> QED
        BY <4>2, <4>3, <4>4 DEF X
    <3>5. Range(answers'[q]) \subseteq Range(answers[q]) \union {k}
      BY <3>3, <3>4
    <3>6. ~(fresh[q] /\ pc[q] = "flush")
      BY <1>1, <3>1 DEF NothingOlder
    <3>7. fresh[q] /\ pc[q] = "wait" => k = req[q] /\ Open(q) \subseteq {req[q]} /\ Range(answers[q]) \subseteq {req[q]}
      BY <1>1, <3>1 DEF NothingOlder
    <3>8. pc' = pc /\ fresh' = fresh /\ req' = req
      BY <2>1 DEF caller
    <3> QED
      BY <2>3, <3>5, <3>6, <3>7, <3>8 DEF NothingOlder
  <2> QED
    BY <2>4, <2>5
<1>16. ASSUME NEW p \in Procs, Crash(p) PROVE NothingOlder(q)'
  <2>1. UNCHANGED <<inbox, answers>> /\ Return(p)
    BY <1>16 DEF Crash, queues
  <2>2. /\ p # q => left'[q] = left[q]
        /\ todo'[Peer(q)] \subseteq todo[Peer(q)] /\ got'[Peer(q)] \subseteq got[Peer(q)]
    BY <1>1, <1>2, <1>16 DEF Crash, TypeOK
  <2>3. Open(q)' \subseteq Open(q)
    BY <2>1, <2>2, OpenKept DEF Holds, Request
  <2> QED
    BY <1>1, <1>5, <1>12, <2>1, <2>2, <2>3, CallKept
<1>17. ASSUME NEW p \in Procs, Restart(p) PROVE NothingOlder(q)'
  <2>1. UNCHANGED <<inbox, answers, pc, req, left, fresh, got, todo>>
    BY <1>17 DEF Restart, queues, caller, receiver
  <2> QED
    BY <1>1, <1>4, <2>1, CallKept
<1>18. CASE UNCHANGED vars
  <2>1. UNCHANGED <<inbox, answers, pc, req, left, fresh, got, todo>>
    BY <1>18 DEF vars, queues, caller, receiver
  <2> QED
    BY <1>1, <1>4, <2>1, CallKept
<1> QED
  BY <1>6, <1>7, <1>8, <1>9, <1>10, <1>11, <1>13, <1>14, <1>15, <1>16, <1>17, <1>18, <1>19
     DEF Next, CallStep, ReceiverStep
-----------------------------------------------------------------------------
(* The theorems.                                                           *)

(* The invariant holds for ever.                                           *)
LEMMA Inductive == Spec => []IInv
<1>1. Init => IInv
  BY InitHolds
<1>2. IInv /\ [Next]_vars => IInv'
  <2> SUFFICES ASSUME IInv, [Next]_vars PROVE IInv'
    OBVIOUS
  <2>1. TypeOK' /\ CallHasRequest'
    BY TypeStep DEF IInv
  <2>2. AcceptedIsQueued'
    BY QueuedStep DEF IInv
  <2>3. \A p \in Procs : NothingOlder(p)'
    BY FreshStep
  <2> QED
    BY <2>1, <2>2, <2>3 DEF IInv
<1> QED
  BY <1>1, <1>2, PTL DEF Spec

(* Type correctness: no queue holds more than the kernel takes, and no     *)
(* flush of msg_ipc.c takes more than it has counted.                      *)
THEOREM TypeCorrect == Spec => []TypeOK
<1>1. IInv => TypeOK
  BY DEF IInv
<1> QED
  BY <1>1, Inductive, PTL

(* What waits for a call that began with no older request open is its own  *)
(* answer, though the answers of msg_ipc.c carry no number.                *)
THEOREM AnswersFit == Spec => []FreshAnswerFits
<1>1. IInv => FreshAnswerFits
  BY DEF IInv, NothingOlder, FreshAnswerFits
<1> QED
  BY <1>1, Inductive, PTL

(* A message msg_ipc_put has accepted stays queued until it is handled or  *)
(* flushed, through crashes and restarts.                                  *)
THEOREM AcceptedStayQueued == Spec => []AcceptedIsQueued
<1>1. IInv => AcceptedIsQueued
  BY DEF IInv
<1> QED
  BY <1>1, Inductive, PTL
=============================================================================
