---------------------------- MODULE MsgQueProofs ----------------------------
(***************************************************************************)
(* The safety properties of MsgQue for every number of threads, every      *)
(* length and every set of messages.                                       *)
(***************************************************************************)
EXTENDS MsgQue, FiniteSetTheorems, TLAPS

USE ThreadsAssumption, LenMaxAssumption, MallocAssumption, NoneAssumption
    DEF ThreadsAssumption, LenMaxAssumption, MallocAssumption, NoneAssumption

(* A destroyed queue has no thread inside it.                              *)
DestroyedIsQuiet == ~alive => \A t \in Threads : pc[t] = "out"

(* The inductive invariant.  LenCountsList is needed because the tests are *)
(* on len and the list is what is consumed; DestroyedIsQuiet, because      *)
(* Create resets the queue whatever the threads do.                        *)
IInv ==
  /\ TypeOK
  /\ DestroyedIsQuiet
  /\ LenCountsList
  /\ NoLostGetWakeup
  /\ NoLostPutWakeup

-----------------------------------------------------------------------------
(* Counting the threads at a place.                                        *)

(* The threads at a place are finitely many.                               *)
LEMMA AtFinite ==
  ASSUME NEW loc
  PROVE  IsFiniteSet(At(loc)) /\ Cardinality(At(loc)) \in Nat
BY FS_Subset, FS_CardinalityType DEF At

(* More threads at a place do not lower its count.                         *)
LEMMA AtGrows ==
  ASSUME NEW S, NEW T, IsFiniteSet(T), S \subseteq T
  PROVE  Cardinality(S) <= Cardinality(T)
BY FS_Subset

(* pthread_cond_signal by thread t as it leaves its call either finds      *)
(* nobody asleep, or moves one sleeper.                                    *)
LEMMA SignalEffect ==
  ASSUME pc \in [Threads -> PCs], NEW from \in PCs \ {"out"}, NEW to \in PCs,
         NEW t \in Threads, pc[t] # from,
         pc' \in Signal([pc EXCEPT ![t] = "out"], from, to)
  PROVE  \/ /\ pc' = [pc EXCEPT ![t] = "out"]
            /\ At(from) = {}
         \/ \E w \in Threads : /\ pc[w] = from /\ w # t
                               /\ pc' = [[pc EXCEPT ![t] = "out"] EXCEPT ![w] = to]
<1> DEFINE pcs == [pc EXCEPT ![t] = "out"]
<1>1. pcs \in [Threads -> PCs] /\ pcs[t] = "out"
  BY DEF PCs
<1>2. \A u \in Threads : pcs[u] = from <=> u # t /\ pc[u] = from
  BY DEF PCs
<1>3. CASE \E u \in Threads : pcs[u] = from
  <2>1. PICK w \in {u \in Threads : pcs[u] = from} : pc' = [pcs EXCEPT ![w] = to]
    BY <1>3 DEF Signal
  <2> QED
    BY <2>1, <1>2
<1>4. CASE ~ \E u \in Threads : pcs[u] = from
  BY <1>4, <1>2 DEF Signal, At
<1> QED
  BY <1>3, <1>4
-----------------------------------------------------------------------------
(* Type correctness of every state the queue can reach.                    *)
LEMMA TypeInit == Init => TypeOK
<1> SUFFICES ASSUME Init PROVE TypeOK
    OBVIOUS
<1>1. alive \in BOOLEAN /\ disturbed \in BOOLEAN
  BY DEF Init
<1>2. que \in Seq(Messages) /\ len \in 0..LenMax
  BY DEF Init
<1> QED
  BY <1>1, <1>2 DEF Init, TypeOK, PCs

LEMMA TypeStep == TypeOK /\ [Next]_vars => TypeOK'
<1> SUFFICES ASSUME TypeOK, [Next]_vars PROVE TypeOK'
    OBVIOUS
<1> USE DEF TypeOK, PCs
<1>1. CASE Create
  <2>1. alive' \in BOOLEAN /\ disturbed' \in BOOLEAN
    BY <1>1 DEF Create
  <2>2. que' \in Seq(Messages) /\ len' \in 0..LenMax
    BY <1>1 DEF Create
  <2> QED
    BY <1>1, <2>1, <2>2 DEF Create
<1>2. CASE Destroy
  <2>1. alive' \in BOOLEAN
    BY <1>2 DEF Destroy
  <2>2. que' \in Seq(Messages) /\ len' \in 0..LenMax
    BY <1>2 DEF Destroy
  <2> QED
    BY <1>2, <2>1, <2>2 DEF Destroy
<1>3. ASSUME NEW t \in Threads, NEW m \in Messages, CallPut(t, m)
      PROVE  TypeOK'
  BY <1>3 DEF CallPut
<1>4. ASSUME NEW t \in Threads, PutInsert(t)
      PROVE  TypeOK'
  <2>1. \/ pc' = [pc EXCEPT ![t] = "out"]
        \/ \E w \in Threads : /\ pc[w] = "get_wait" /\ w # t
                              /\ pc' = [[pc EXCEPT ![t] = "out"] EXCEPT ![w] = "get"]
    <3>1. pc' \in Signal([pc EXCEPT ![t] = "out"], "get_wait", "get") /\ pc[t] # "get_wait"
      BY <1>4 DEF PutInsert
    <3> QED
      BY <3>1, SignalEffect
  <2>2. que' \in Seq(Messages) /\ len' \in 0..LenMax
    BY <1>4 DEF PutInsert
  <2>3. pc' \in [Threads -> PCs]
    BY <2>1
  <2>4. \A u \in Threads : pc'[u] \in {"put", "put_wait"} => u # t /\ pc[u] = pc'[u]
    BY <2>1
  <2> QED
    BY <1>4, <2>2, <2>3, <2>4 DEF PutInsert
<1>5. ASSUME NEW t \in Threads, PutNoMemory(t)
      PROVE  TypeOK'
  BY <1>5 DEF PutNoMemory
<1>6. ASSUME NEW t \in Threads, PutWait(t)
      PROVE  TypeOK'
  BY <1>6 DEF PutWait
<1>7. ASSUME NEW t \in Threads, CallGet(t)
      PROVE  TypeOK'
  BY <1>7 DEF CallGet
<1>8. ASSUME NEW t \in Threads, GetRemove(t)
      PROVE  TypeOK'
  <2>1. CASE que = <<>>
    BY <1>8, <2>1 DEF GetRemove
  <2>2. CASE que # <<>>
    <3>1. \/ pc' = [pc EXCEPT ![t] = "out"]
          \/ \E w \in Threads : /\ pc[w] = "put_wait" /\ w # t
                                /\ pc' = [[pc EXCEPT ![t] = "out"] EXCEPT ![w] = "put"]
      <4>1. pc' \in Signal([pc EXCEPT ![t] = "out"], "put_wait", "put") /\ pc[t] # "put_wait"
        BY <1>8, <2>2 DEF GetRemove
      <4> QED
        BY <4>1, SignalEffect
    <3>2. que' \in Seq(Messages) /\ Head(que) \in Messages
      <4>1. que' = Tail(que)
        BY <1>8, <2>2 DEF GetRemove
      <4> QED
        BY <4>1, <2>2
    <3>4. len' \in 0..LenMax
      BY <1>8, <2>2 DEF GetRemove
    <3>3. \A u \in Threads : pc'[u] \in {"put", "put_wait"} => pc[u] \in {"put", "put_wait"}
      BY <3>1
    <3> QED
      BY <1>8, <2>2, <3>1, <3>2, <3>3, <3>4 DEF GetRemove
  <2> QED
    BY <2>1, <2>2
<1>9. ASSUME NEW t \in Threads, GetWait(t)
      PROVE  TypeOK'
  BY <1>9 DEF GetWait
<1>10. ASSUME NEW t \in Threads, SpuriousWakeup(t)
       PROVE  TypeOK'
  BY <1>10 DEF SpuriousWakeup
<1>11. ASSUME NEW t \in Threads, Flush(t)
       PROVE  TypeOK'
  BY <1>11 DEF Flush
<1>12. CASE UNCHANGED vars
  BY <1>12 DEF vars
<1> QED
  BY <1>1, <1>2, <1>3, <1>4, <1>5, <1>6, <1>7, <1>8, <1>9, <1>10, <1>11, <1>12 DEF Next

(* Type correctness of msg_que_t and of the threads inside its calls.      *)
THEOREM TypeCorrect == Spec => []TypeOK
<1>1. Spec => TypeOK
  BY TypeInit DEF Spec
<1>2. TypeOK /\ [Next]_vars => TypeOK'
  BY TypeStep
<1> QED
  BY <1>1, <1>2, PTL DEF Spec
-----------------------------------------------------------------------------
(* The counter follows the list.                                           *)
LEMMA LenStep == TypeOK /\ LenCountsList /\ [Next]_vars => LenCountsList'
<1> SUFFICES ASSUME TypeOK, LenCountsList, [Next]_vars PROVE LenCountsList'
    OBVIOUS
<1> USE DEF TypeOK, LenCountsList
<1>1. CASE Create
  BY <1>1 DEF Create
<1>2. CASE Destroy
  BY <1>2 DEF Destroy
<1>3. ASSUME NEW t \in Threads, PutInsert(t)
      PROVE  LenCountsList'
  <2>1. que' = Append(que, arg[t]) /\ len' = len + 1 /\ arg[t] \in Messages
    BY <1>3 DEF PutInsert
  <2> QED
    BY <2>1
<1>4. ASSUME NEW t \in Threads, GetRemove(t)
      PROVE  LenCountsList'
  <2>1. que # <<>>
    BY <1>4 DEF GetRemove
  <2>2. que' = Tail(que) /\ len' = len - 1
    BY <1>4, <2>1 DEF GetRemove
  <2> QED
    BY <2>1, <2>2
<1>5. ASSUME NEW t \in Threads, Flush(t)
      PROVE  LenCountsList'
  BY <1>5 DEF Flush
<1>6. ASSUME UNCHANGED <<que, len>>
      PROVE  LenCountsList'
  BY <1>6
<1> QED
  BY <1>1, <1>2, <1>3, <1>4, <1>5, <1>6
     DEF Next, CallPut, PutNoMemory, PutWait, CallGet, GetWait, SpuriousWakeup, vars

(* While consumers sleep, every message has a consumer awake.              *)
LEMMA GetWakeupStep ==
  TypeOK /\ LenCountsList /\ NoLostGetWakeup /\ [Next]_vars => NoLostGetWakeup'
<1> SUFFICES ASSUME TypeOK, LenCountsList, NoLostGetWakeup, [Next]_vars,
                    At("get_wait")' # {}
             PROVE  len' <= Cardinality(At("get")')
    BY DEF NoLostGetWakeup
<1>a. /\ IsFiniteSet(At("get")) /\ Cardinality(At("get")) \in Nat
      /\ IsFiniteSet(At("get")') /\ Cardinality(At("get")') \in Nat
  <2>1. At("get")' \subseteq Threads
    BY DEF At
  <2> QED
    BY <2>1, AtFinite, FS_Subset, FS_CardinalityType
<1>b. len \in Nat /\ pc \in [Threads -> PCs]
  BY DEF TypeOK
<1>c. ASSUME len' <= len, At("get") \subseteq At("get")', At("get_wait") # {}
      PROVE  len' <= Cardinality(At("get")')
  <2>1. Cardinality(At("get")) <= Cardinality(At("get")')
    BY <1>a, <1>c, AtGrows
  <2>2. len' \in Nat
    BY TypeStep DEF TypeOK
  <2> QED
    BY <2>1, <2>2, <1>a, <1>b, <1>c DEF NoLostGetWakeup
<1>d. ASSUME len' = 0
      PROVE  len' <= Cardinality(At("get")')
  BY <1>d, <1>a
<1>1. CASE Create
  BY <1>1, <1>d DEF Create
<1>2. CASE Destroy
  BY <1>2, <1>d DEF Destroy
<1>3. ASSUME NEW t \in Threads, NEW m \in Messages, CallPut(t, m)
      PROVE  len' <= Cardinality(At("get")')
  BY <1>3, <1>b, <1>c DEF CallPut, At, PCs
<1>4. ASSUME NEW t \in Threads, PutInsert(t)
      PROVE  len' <= Cardinality(At("get")')
  <2>1. pc' \in Signal([pc EXCEPT ![t] = "out"], "get_wait", "get") /\ pc[t] = "put"
    BY <1>4 DEF PutInsert
  <2>2. PICK w \in Threads : /\ pc[w] = "get_wait" /\ w # t
                             /\ pc' = [[pc EXCEPT ![t] = "out"] EXCEPT ![w] = "get"]
    <3>1. CASE pc' = [pc EXCEPT ![t] = "out"] /\ At("get_wait") = {}
      <4>1. At("get_wait")' = {}
        BY <3>1, <1>b DEF At
      <4> QED
        BY <4>1
    <3>2. \/ pc' = [pc EXCEPT ![t] = "out"] /\ At("get_wait") = {}
          \/ \E w \in Threads : /\ pc[w] = "get_wait" /\ w # t
                                /\ pc' = [[pc EXCEPT ![t] = "out"] EXCEPT ![w] = "get"]
      <4>1. "get_wait" \in PCs \ {"out"} /\ "get" \in PCs /\ pc[t] # "get_wait"
        BY <2>1 DEF PCs
      <4> QED
        BY <2>1, <4>1, <1>b, SignalEffect
    <3> QED
      BY <3>1, <3>2
  <2>3. At("get")' = At("get") \union {w} /\ w \notin At("get") /\ At("get_wait") # {}
    BY <2>1, <2>2, <1>b DEF At
  <2>4. Cardinality(At("get")') = Cardinality(At("get")) + 1
    BY <2>3, <1>a, FS_AddElement
  <2>5. len' = len + 1
    BY <1>4 DEF PutInsert
  <2> QED
    BY <2>3, <2>4, <2>5, <1>a, <1>b DEF NoLostGetWakeup
<1>5. ASSUME NEW t \in Threads, PutNoMemory(t) \/ PutWait(t)
      PROVE  len' <= Cardinality(At("get")')
  BY <1>5, <1>b, <1>c DEF PutNoMemory, PutWait, At, PCs
<1>6. ASSUME NEW t \in Threads, CallGet(t)
      PROVE  len' <= Cardinality(At("get")')
  BY <1>6, <1>b, <1>c DEF CallGet, At, PCs
<1>7. ASSUME NEW t \in Threads, GetRemove(t)
      PROVE  len' <= Cardinality(At("get")')
  <2>1. que # <<>> /\ len' = len - 1
    BY <1>7 DEF GetRemove, LenCountsList, TypeOK
  <2>2. pc' \in Signal([pc EXCEPT ![t] = "out"], "put_wait", "put") /\ pc[t] = "get"
    BY <1>7, <2>1 DEF GetRemove
  <2>3. \/ pc' = [pc EXCEPT ![t] = "out"] /\ At("put_wait") = {}
        \/ \E w \in Threads : /\ pc[w] = "put_wait" /\ w # t
                              /\ pc' = [[pc EXCEPT ![t] = "out"] EXCEPT ![w] = "put"]
    <3>1. "put_wait" \in PCs \ {"out"} /\ "put" \in PCs /\ pc[t] # "put_wait"
      BY <2>2 DEF PCs
    <3> QED
      BY <2>2, <3>1, <1>b, SignalEffect
  <2>4. /\ At("get")' = At("get") \ {t} /\ t \in At("get")
        /\ At("get_wait")' = At("get_wait")
    BY <2>2, <2>3, <1>b DEF At, PCs
  <2>5. Cardinality(At("get")') = Cardinality(At("get")) - 1
    BY <2>4, <1>a, FS_RemoveElement
  <2> QED
    BY <2>1, <2>4, <2>5, <1>a, <1>b DEF NoLostGetWakeup
<1>8. ASSUME NEW t \in Threads, GetWait(t)
      PROVE  len' <= Cardinality(At("get")')
  BY <1>8, <1>b, <1>d DEF GetWait
<1>9. ASSUME NEW t \in Threads, SpuriousWakeup(t)
      PROVE  len' <= Cardinality(At("get")')
  BY <1>9, <1>b, <1>c DEF SpuriousWakeup, At, PCs
<1>10. ASSUME NEW t \in Threads, Flush(t)
       PROVE  len' <= Cardinality(At("get")')
  BY <1>10, <1>d DEF Flush
<1>11. CASE UNCHANGED vars
  BY <1>11, <1>b, <1>c DEF vars, At
<1> QED
  BY <1>1, <1>2, <1>3, <1>4, <1>5, <1>6, <1>7, <1>8, <1>9, <1>10, <1>11 DEF Next

(* Threads enter a call only while the queue is alive.                     *)
LEMMA QuietStep == TypeOK /\ DestroyedIsQuiet /\ [Next]_vars => DestroyedIsQuiet'
<1> SUFFICES ASSUME TypeOK, DestroyedIsQuiet, [Next]_vars, ~alive'
             PROVE  \A t \in Threads : pc'[t] = "out"
    BY DEF DestroyedIsQuiet
<1>1. CASE Create
  BY <1>1 DEF Create
<1>2. CASE Destroy
  BY <1>2 DEF Destroy
<1>3. CASE ~alive
  <2>1. \A t \in Threads : pc[t] = "out"
    BY <1>3 DEF DestroyedIsQuiet
  <2> QED
    BY <1>1, <1>3, <2>1
       DEF Next, Destroy, CallPut, PutInsert, PutNoMemory, PutWait, CallGet,
           GetRemove, GetWait, SpuriousWakeup, Flush, vars
<1>4. CASE alive' = alive
  <2>1. ~alive
    BY <1>4
  <2> QED
    BY <2>1, <1>3
<1>5. Create \/ Destroy \/ alive' = alive
  BY DEF Next, CallPut, PutInsert, PutNoMemory, PutWait, CallGet, GetRemove,
         GetWait, SpuriousWakeup, Flush, vars
<1> QED
  BY <1>1, <1>2, <1>4, <1>5

(* While producers sleep, every free place has a producer awake.           *)
LEMMA PutWakeupStep ==
  /\ TypeOK /\ DestroyedIsQuiet /\ LenCountsList /\ NoLostPutWakeup /\ [Next]_vars
  => NoLostPutWakeup'
<1> SUFFICES ASSUME TypeOK, DestroyedIsQuiet, LenCountsList, NoLostPutWakeup,
                    [Next]_vars, ~disturbed',
                    At("put_wait")' # {}
             PROVE  LenMax - len' <= Cardinality(At("put")')
    BY DEF NoLostPutWakeup
<1>a. /\ IsFiniteSet(At("put")) /\ Cardinality(At("put")) \in Nat
      /\ IsFiniteSet(At("put")') /\ Cardinality(At("put")') \in Nat
  <2>1. At("put")' \subseteq Threads
    BY DEF At
  <2> QED
    BY <2>1, AtFinite, FS_Subset, FS_CardinalityType
<1>b. len \in 0..LenMax /\ pc \in [Threads -> PCs]
  BY DEF TypeOK
<1>c. ASSUME len' = len, At("put") \subseteq At("put")', At("put_wait") # {}, ~disturbed
      PROVE  LenMax - len' <= Cardinality(At("put")')
  <2>1. Cardinality(At("put")) <= Cardinality(At("put")')
    BY <1>a, <1>c, AtGrows
  <2> QED
    BY <2>1, <1>a, <1>b, <1>c DEF NoLostPutWakeup
<1>1. CASE Create
  <2>1. At("put_wait")' = {}
    BY <1>1 DEF Create, DestroyedIsQuiet, At
  <2> QED
    BY <2>1
<1>2. CASE Destroy
  <2>1. At("put_wait")' = {}
    BY <1>2 DEF Destroy, At
  <2> QED
    BY <2>1
<1>3. ASSUME NEW t \in Threads, NEW m \in Messages, CallPut(t, m)
      PROVE  LenMax - len' <= Cardinality(At("put")')
  BY <1>3, <1>b, <1>c DEF CallPut, At, PCs
<1>4. ASSUME NEW t \in Threads, PutInsert(t)
      PROVE  LenMax - len' <= Cardinality(At("put")')
  <2>1. pc' \in Signal([pc EXCEPT ![t] = "out"], "get_wait", "get") /\ pc[t] = "put"
    BY <1>4 DEF PutInsert
  <2>2. \/ pc' = [pc EXCEPT ![t] = "out"] /\ At("get_wait") = {}
        \/ \E w \in Threads : /\ pc[w] = "get_wait" /\ w # t
                              /\ pc' = [[pc EXCEPT ![t] = "out"] EXCEPT ![w] = "get"]
    <3>1. "get_wait" \in PCs \ {"out"} /\ "get" \in PCs /\ pc[t] # "get_wait"
      BY <2>1 DEF PCs
    <3> QED
      BY <2>1, <3>1, <1>b, SignalEffect
  <2>3. /\ At("put")' = At("put") \ {t} /\ t \in At("put")
        /\ At("put_wait")' = At("put_wait")
    BY <2>1, <2>2, <1>b DEF At, PCs
  <2>4. Cardinality(At("put")') = Cardinality(At("put")) - 1
    BY <2>3, <1>a, FS_RemoveElement
  <2>5. len' = len + 1
    BY <1>4 DEF PutInsert
  <2>6. ~disturbed
    BY <1>4 DEF PutInsert
  <2>7. LenMax - len <= Cardinality(At("put"))
    BY <2>3, <2>6 DEF NoLostPutWakeup
  <2> QED
    BY <2>4, <2>5, <2>7, <1>a, <1>b
<1>5. ASSUME NEW t \in Threads, PutWait(t)
      PROVE  LenMax - len' <= Cardinality(At("put")')
  BY <1>5, <1>a, <1>b DEF PutWait
<1>6. ASSUME NEW t \in Threads, CallGet(t) \/ GetWait(t)
      PROVE  LenMax - len' <= Cardinality(At("put")')
  BY <1>6, <1>b, <1>c DEF CallGet, GetWait, At, PCs
<1>7. ASSUME NEW t \in Threads, GetRemove(t)
      PROVE  LenMax - len' <= Cardinality(At("put")')
  <2>1. que # <<>> /\ len' = len - 1
    BY <1>7 DEF GetRemove, LenCountsList, TypeOK
  <2>2. pc' \in Signal([pc EXCEPT ![t] = "out"], "put_wait", "put") /\ pc[t] = "get"
    BY <1>7, <2>1 DEF GetRemove
  <2>3. PICK w \in Threads : /\ pc[w] = "put_wait" /\ w # t
                             /\ pc' = [[pc EXCEPT ![t] = "out"] EXCEPT ![w] = "put"]
    <3>1. CASE pc' = [pc EXCEPT ![t] = "out"] /\ At("put_wait") = {}
      <4>1. At("put_wait")' = {}
        BY <3>1, <1>b DEF At
      <4> QED
        BY <4>1
    <3>2. \/ pc' = [pc EXCEPT ![t] = "out"] /\ At("put_wait") = {}
          \/ \E w \in Threads : /\ pc[w] = "put_wait" /\ w # t
                                /\ pc' = [[pc EXCEPT ![t] = "out"] EXCEPT ![w] = "put"]
      <4>1. "put_wait" \in PCs \ {"out"} /\ "put" \in PCs /\ pc[t] # "put_wait"
        BY <2>2 DEF PCs
      <4> QED
        BY <2>2, <4>1, <1>b, SignalEffect
    <3> QED
      BY <3>1, <3>2
  <2>4. At("put")' = At("put") \union {w} /\ w \notin At("put") /\ At("put_wait") # {}
    BY <2>2, <2>3, <1>b DEF At
  <2>5. Cardinality(At("put")') = Cardinality(At("put")) + 1
    BY <2>4, <1>a, FS_AddElement
  <2>6. ~disturbed
    BY <1>7 DEF GetRemove
  <2>7. LenMax - len <= Cardinality(At("put"))
    BY <2>4, <2>6 DEF NoLostPutWakeup
  <2> QED
    BY <2>1, <2>5, <2>7, <1>a, <1>b
<1>8. ASSUME NEW t \in Threads, SpuriousWakeup(t)
      PROVE  LenMax - len' <= Cardinality(At("put")')
  BY <1>8, <1>b, <1>c DEF SpuriousWakeup, At, PCs
<1>9. ASSUME NEW t \in Threads, PutNoMemory(t) \/ Flush(t)
      PROVE  FALSE
  <2>1. disturbed' = (disturbed \/ At("put_wait") # {})
    BY <1>9 DEF PutNoMemory, Flush
  <2>2. At("put_wait") = {}
    BY <2>1
  <2>3. At("put_wait")' = {}
    BY <1>9, <2>2, <1>b DEF PutNoMemory, Flush, At
  <2> QED
    BY <2>3
<1>10. CASE UNCHANGED vars
  BY <1>10, <1>b, <1>c DEF vars, At
<1> QED
  BY <1>1, <1>2, <1>3, <1>4, <1>5, <1>6, <1>7, <1>8, <1>9, <1>10 DEF Next
-----------------------------------------------------------------------------
(* IInv holds at first and every step keeps it.                            *)
LEMMA IInvInit == Init => IInv
<1> SUFFICES ASSUME Init PROVE IInv
    OBVIOUS
<1>1. TypeOK
  BY TypeInit
<1>2. DestroyedIsQuiet /\ LenCountsList
  BY DEF Init, DestroyedIsQuiet, LenCountsList
<1>3. At("get_wait") = {} /\ At("put_wait") = {}
  BY DEF Init, At
<1> QED
  BY <1>1, <1>2, <1>3 DEF IInv, NoLostGetWakeup, NoLostPutWakeup

LEMMA IInvStep == IInv /\ [Next]_vars => IInv'
BY TypeStep, QuietStep, LenStep, GetWakeupStep, PutWakeupStep DEF IInv

LEMMA IInvHolds == Spec => []IInv
<1>1. Spec => IInv
  BY IInvInit DEF Spec
<1>2. IInv /\ [Next]_vars => IInv'
  BY IInvStep
<1> QED
  BY <1>1, <1>2, PTL DEF Spec

(* que->len is the length of the list in every reachable state, so the     *)
(* repair of msg_que_get_with_type is dead code.                           *)
THEOREM LenAlwaysCountsList == Spec => []LenCountsList
<1>1. IInv => LenCountsList
  BY DEF IInv
<1> QED
  BY <1>1, IInvHolds, PTL

(* No message of the list lacks an awake consumer while consumers sleep,   *)
(* with any callers, any flush and any malloc failure.                     *)
THEOREM GetWakeupsSuffice == Spec => []NoLostGetWakeup
<1>1. IInv => NoLostGetWakeup
  BY DEF IInv
<1> QED
  BY <1>1, IInvHolds, PTL

(* No free place lacks an awake producer while producers sleep, as long as *)
(* no flush and no failed malloc has come while producers slept.           *)
THEOREM PutWakeupsSuffice == Spec => []NoLostPutWakeup
<1>1. IInv => NoLostPutWakeup
  BY DEF IInv
<1> QED
  BY <1>1, IInvHolds, PTL
-----------------------------------------------------------------------------
(* Each step of the queue is a step of the bounded FIFO, or leaves its     *)
(* buffer and what was received unchanged.                                 *)
LEMMA FifoStep == IInv /\ [Next]_vars => [Abstract!Next]_(Abstract!vars)
<1> SUFFICES ASSUME IInv, [Next]_vars PROVE [Abstract!Next]_(Abstract!vars)
    OBVIOUS
<1> USE DEF IInv, TypeOK, LenCountsList
<1>1. CASE Create \/ Destroy
  BY <1>1 DEF Create, Destroy, Abstract!Next, Abstract!Clear
<1>2. ASSUME NEW t \in Threads, PutInsert(t)
      PROVE  Abstract!Next
  <2>1. arg[t] \in Messages /\ Abstract!Enqueue(arg[t])
    BY <1>2 DEF PutInsert, Abstract!Enqueue
  <2> QED
    BY <2>1 DEF Abstract!Next
<1>3. ASSUME NEW t \in Threads, GetRemove(t)
      PROVE  Abstract!Next
  <2>1. que # <<>>
    BY <1>3 DEF GetRemove
  <2>2. Abstract!Dequeue(t)
    BY <1>3, <2>1 DEF GetRemove, Abstract!Dequeue
  <2> QED
    BY <2>2 DEF Abstract!Next
<1>4. ASSUME NEW t \in Threads, Flush(t)
      PROVE  Abstract!Next
  BY <1>4 DEF Flush, Abstract!Next, Abstract!Clear
<1>5. CASE UNCHANGED <<que, received>>
  BY <1>5 DEF Abstract!vars
<1> QED
  BY <1>1, <1>2, <1>3, <1>4, <1>5
     DEF Next, CallPut, PutNoMemory, PutWait, CallGet, GetWait, SpuriousWakeup, vars

(* The queue with its mutex, its two conditions and its counter implements *)
(* the bounded FIFO its header describes.                                  *)
THEOREM QueueIsFifo == Spec => ImplementsFifo
<1>1. Init => Abstract!Init
  BY DEF Init, Abstract!Init
<1> QED
  BY <1>1, FifoStep, IInvHolds, PTL DEF Spec, ImplementsFifo, Abstract!Spec
=============================================================================
