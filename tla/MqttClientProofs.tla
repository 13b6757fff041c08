-------------------------- MODULE MqttClientProofs --------------------------
(***************************************************************************)
(* Proofs about the MQTT client, for any number of users, messages, topics *)
(* and connections lost.                                                   *)
(***************************************************************************)
EXTENDS MqttClient, SequenceTheorems, FiniteSetTheorems, TLAPS

-----------------------------------------------------------------------------
(* Sequences: what they hold and in which order.                           *)

(* q is somewhere behind p in s.                                           *)
Behind(s, p, q) == \E i, j \in 1..Len(s) : i < j /\ s[i] = p /\ s[j] = q

LEMMA RangeOf ==
  ASSUME NEW S, NEW s \in Seq(S)
  PROVE  /\ Range(s) \subseteq S
         /\ Len(s) \in Nat
         /\ \A i \in 1..Len(s) : s[i] \in Range(s) /\ s[i] \in S
         /\ \A x \in Range(s) : \E i \in 1..Len(s) : s[i] = x
BY RangeOfSeq, RangeEquality

LEMMA OfNothing ==
  ASSUME NEW S
  PROVE  /\ <<>> \in Seq(S) /\ Len(<<>>) = 0
         /\ Range(<<>>) = {}
         /\ \A p, q : ~Behind(<<>>, p, q)
<1>1. <<>> \in Seq(S) /\ Len(<<>>) = 0
  BY EmptySeq
<1>2. Range(<<>>) = {}
  <2>1. Range(<<>>) = {<<>>[i] : i \in 1..Len(<<>>)}
    BY <1>1, RangeEquality
  <2>2. 1..Len(<<>>) = {}
    BY <1>1
  <2> QED
    BY <2>1, <2>2
<1> QED
  BY <1>1, <1>2 DEF Behind

LEMMA OfTail ==
  ASSUME NEW S, NEW s \in Seq(S), s # <<>>
  PROVE  /\ Tail(s) \in Seq(S) /\ Len(Tail(s)) = Len(s) - 1
         /\ Head(s) \in Range(s) /\ Head(s) \in S
         /\ Range(Tail(s)) \subseteq Range(s)
         /\ \A p, q : Behind(Tail(s), p, q) => Behind(s, p, q)
         /\ \A q \in Range(Tail(s)) : Behind(s, Head(s), q)
<1>1. /\ Head(s) \in S /\ Tail(s) \in Seq(S) /\ Len(Tail(s)) = Len(s) - 1
      /\ \A i \in 1..Len(Tail(s)) : Tail(s)[i] = s[i + 1]
  BY HeadTailProperties
<1>2. Len(s) \in Nat \ {0} /\ Head(s) = s[1]
  BY EmptySeq
<1> DEFINE t == Tail(s)
<1>3. Len(t) = Len(s) - 1 /\ t \in Seq(S) /\ \A i \in 1..Len(t) : t[i] = s[i + 1]
  BY <1>1
<1> HIDE DEF t
<1>4. \A i \in 1..Len(t) : i + 1 \in 1..Len(s) /\ t[i] = s[i + 1]
  BY <1>2, <1>3
<1>5. Head(s) \in Range(s) /\ Range(t) \subseteq Range(s)
  <2>1. \A i \in 1..Len(s) : s[i] \in Range(s)
    BY RangeOf
  <2>2. Head(s) \in Range(s)
    BY <1>2, <2>1
  <2>3. ASSUME NEW q \in Range(t) PROVE q \in Range(s)
    <3>1. PICK j \in 1..Len(t) : t[j] = q
      BY <1>3, RangeOf
    <3> QED
      BY <1>4, <2>1, <3>1
  <2> QED
    BY <2>2, <2>3
<1>6. ASSUME NEW p, NEW q, Behind(t, p, q) PROVE Behind(s, p, q)
  <2>1. PICK i, j \in 1..Len(t) : i < j /\ t[i] = p /\ t[j] = q
    BY <1>6 DEF Behind
  <2>2. i + 1 < j + 1
    BY <2>1, <1>2, <1>3
  <2> QED
    BY <2>1, <2>2, <1>4 DEF Behind
<1>7. ASSUME NEW q \in Range(t) PROVE Behind(s, Head(s), q)
  <2>1. PICK j \in 1..Len(t) : t[j] = q
    BY <1>3, RangeOf
  <2>2. 1 \in 1..Len(s) /\ j + 1 \in 1..Len(s) /\ 1 < j + 1
    BY <1>2, <1>3
  <2> QED
    BY <2>1, <2>2, <1>2, <1>4 DEF Behind
<1> QED
  BY <1>1, <1>5, <1>6, <1>7 DEF t

LEMMA OfConcat ==
  ASSUME NEW S, NEW s \in Seq(S), NEW t \in Seq(S)
  PROVE  /\ s \o t \in Seq(S) /\ Len(s \o t) = Len(s) + Len(t)
         /\ Range(s \o t) = Range(s) \union Range(t)
         /\ \A p, q : Behind(s \o t, p, q) =>
              \/ Behind(s, p, q) \/ Behind(t, p, q)
              \/ p \in Range(s) /\ q \in Range(t)
<1> DEFINE w == s \o t
<1>1. /\ w \in Seq(S) /\ Len(w) = Len(s) + Len(t)
      /\ \A i \in 1..(Len(s) + Len(t)) : w[i] = IF i <= Len(s) THEN s[i] ELSE t[i - Len(s)]
  BY ConcatProperties
<1>2. Range(w) = Range(s) \union Range(t)
  BY RangeConcatenation
<1> HIDE DEF w
<1>3. Len(s) \in Nat /\ Len(t) \in Nat
  BY RangeOf
<1>4. ASSUME NEW p, NEW q, Behind(w, p, q)
      PROVE  \/ Behind(s, p, q) \/ Behind(t, p, q)
             \/ p \in Range(s) /\ q \in Range(t)
  <2>1. PICK i, j \in 1..Len(w) : i < j /\ w[i] = p /\ w[j] = q
    BY <1>4 DEF Behind
  <2>2. CASE j <= Len(s)
    <3>1. i \in 1..Len(s) /\ j \in 1..Len(s) /\ w[i] = s[i] /\ w[j] = s[j]
      BY <2>1, <2>2, <1>1, <1>3
    <3> QED
      BY <2>1, <3>1 DEF Behind
  <2>3. CASE i > Len(s)
    <3>1. /\ i - Len(s) \in 1..Len(t) /\ j - Len(s) \in 1..Len(t) /\ i - Len(s) < j - Len(s)
          /\ w[i] = t[i - Len(s)] /\ w[j] = t[j - Len(s)]
      BY <2>1, <2>3, <1>1, <1>3
    <3> QED
      BY <2>1, <3>1 DEF Behind
  <2>4. CASE i <= Len(s) /\ j > Len(s)
    <3>1. /\ i \in 1..Len(s) /\ j - Len(s) \in 1..Len(t)
          /\ w[i] = s[i] /\ w[j] = t[j - Len(s)]
      BY <2>1, <2>4, <1>1, <1>3
    <3> QED
      BY <2>1, <3>1, RangeOf
  <2> QED
    BY <2>2, <2>3, <2>4, <1>1, <1>3
<1> QED
  BY <1>1, <1>2, <1>4 DEF w

LEMMA OfOne ==
  ASSUME NEW S, NEW x \in S
  PROVE  <<x>> \in Seq(S) /\ Len(<<x>>) = 1 /\ Range(<<x>>) = {x} /\ \A p, q : ~Behind(<<x>>, p, q)
<1>1. <<x>> \in Seq(S) /\ Len(<<x>>) = 1 /\ <<x>>[1] = x
  OBVIOUS
<1>2. Range(<<x>>) = {<<x>>[i] : i \in 1..Len(<<x>>)}
  BY <1>1, RangeEquality
<1>3. 1..1 = {1}
  OBVIOUS
<1> QED
  BY <1>1, <1>2, <1>3 DEF Behind

LEMMA OfAppend ==
  ASSUME NEW S, NEW s \in Seq(S), NEW x \in S
  PROVE  /\ Append(s, x) \in Seq(S) /\ Len(Append(s, x)) = Len(s) + 1
         /\ Range(Append(s, x)) = Range(s) \union {x}
         /\ \A p, q : Behind(Append(s, x), p, q) => Behind(s, p, q) \/ (q = x /\ p \in Range(s))
<1> DEFINE t == <<x>>
<1>1. t \in Seq(S) /\ Len(t) = 1 /\ Range(t) = {x} /\ \A p, q : ~Behind(t, p, q)
  BY OfOne
<1>2. Append(s, x) = s \o t
  BY AppendIsConcat
<1> HIDE DEF t
<1> QED
  BY <1>1, <1>2, OfConcat

LEMMA RemoveAtPlaces ==
  ASSUME NEW S, NEW s \in Seq(S), NEW i \in 1..Len(s)
  PROVE  /\ RemoveAt(s, i) \in Seq(S) /\ Len(RemoveAt(s, i)) = Len(s) - 1
         /\ \A k \in 1..(Len(s) - 1) : RemoveAt(s, i)[k] = IF k < i THEN s[k] ELSE s[k + 1]
<1> DEFINE A == SubSeq(s, 1, i - 1)
           B == SubSeq(s, i + 1, Len(s))
<1>1. Len(s) \in Nat /\ \A k \in 1..Len(s) : s[k] \in S
  BY RangeOf
<1>2. A \in Seq(S) /\ Len(A) = i - 1 /\ \A k \in 1..(i - 1) : A[k] = s[k]
  <2>1. \A k \in 1..(i - 1) : s[k] \in S
    BY <1>1
  <2>2. /\ A \in Seq(S) /\ Len(A) = IF 1 <= i - 1 THEN (i - 1) - 1 + 1 ELSE 0
        /\ \A k \in 1..((i - 1) - 1 + 1) : A[k] = s[1 + k - 1]
    BY <1>1, <2>1, SubSeqProperties
  <2> HIDE DEF A
  <2> QED
    BY <1>1, <2>2
<1>3. /\ B \in Seq(S) /\ Len(B) = Len(s) - i
      /\ \A k \in 1..(Len(s) - i) : B[k] = s[i + k]
  <2>1. \A k \in (i + 1)..Len(s) : s[k] \in S
    BY <1>1
  <2>2. /\ B \in Seq(S) /\ Len(B) = IF i + 1 <= Len(s) THEN Len(s) - (i + 1) + 1 ELSE 0
        /\ \A k \in 1..(Len(s) - (i + 1) + 1) : B[k] = s[(i + 1) + k - 1]
    BY <1>1, <2>1, SubSeqProperties
  <2> HIDE DEF B
  <2> QED
    BY <1>1, <2>2
<1>4. RemoveAt(s, i) = A \o B
  BY DEF RemoveAt
<1> HIDE DEF A, B
<1> DEFINE w == A \o B
<1>5. /\ w \in Seq(S) /\ Len(w) = Len(A) + Len(B)
      /\ \A k \in 1..(Len(A) + Len(B)) : w[k] = IF k <= Len(A) THEN A[k] ELSE B[k - Len(A)]
  BY <1>2, <1>3, ConcatProperties
<1> HIDE DEF w
<1>6. Len(w) = Len(s) - 1
  BY <1>1, <1>2, <1>3, <1>5
<1>7. ASSUME NEW k \in 1..(Len(s) - 1)
      PROVE  w[k] = IF k < i THEN s[k] ELSE s[k + 1]
  <2>0. w[k] = IF k <= i - 1 THEN A[k] ELSE B[k - (i - 1)]
    <3>1. Len(A) + Len(B) = Len(s) - 1
      BY <1>1, <1>2, <1>3
    <3> QED
      BY <3>1, <1>2, <1>5
  <2>1. CASE k < i
    <3>1. k <= i - 1 /\ k \in 1..(i - 1)
      BY <1>1, <2>1
    <3> QED
      BY <3>1, <2>0, <2>1, <1>2
  <2>2. CASE ~(k < i)
    <3>1. ~(k <= i - 1) /\ k - (i - 1) \in 1..(Len(s) - i) /\ i + (k - (i - 1)) = k + 1
      BY <1>1, <2>2
    <3> DEFINE j == k - (i - 1)
    <3>2. w[k] = B[j] /\ j \in 1..(Len(s) - i) /\ i + j = k + 1
      BY <2>0, <3>1
    <3> HIDE DEF j
    <3> QED
      BY <3>2, <2>2, <1>3
  <2> QED
    BY <2>1, <2>2
<1> QED
  BY <1>4, <1>5, <1>6, <1>7 DEF w

(* What is left of s without its i-th element comes from other places.     *)
IsWithout(t, s, i) ==
  /\ \A k, l \in 1..Len(t) :
       \E a, b \in 1..Len(s) \ {i} : t[k] = s[a] /\ t[l] = s[b] /\ (k # l => a # b)
  /\ \A a \in 1..Len(s) \ {i} : \E k \in 1..Len(t) : t[k] = s[a]

LEMMA OfRemoveAt ==
  ASSUME NEW S, NEW s \in Seq(S), NEW i \in 1..Len(s)
  PROVE  RemoveAt(s, i) \in Seq(S) /\ IsWithout(RemoveAt(s, i), s, i)
<1> DEFINE t == RemoveAt(s, i)
<1> DEFINE old(k) == IF k < i THEN k ELSE k + 1
<1>1. /\ t \in Seq(S) /\ Len(t) = Len(s) - 1
      /\ \A k \in 1..(Len(s) - 1) : t[k] = IF k < i THEN s[k] ELSE s[k + 1]
  BY RemoveAtPlaces
<1>2. Len(s) \in Nat
  BY RangeOf
<1> HIDE DEF t
<1>3. \A k \in 1..Len(t) : old(k) \in 1..Len(s) \ {i} /\ t[k] = s[old(k)]
  BY <1>1, <1>2
<1>4. \A k, l \in 1..Len(t) : k # l => old(k) # old(l)
  BY <1>1, <1>2
<1>5. ASSUME NEW a \in 1..Len(s) \ {i} PROVE \E k \in 1..Len(t) : t[k] = s[a]
  <2>1. CASE a < i
    <3>1. a \in 1..Len(t) /\ old(a) = a
      BY <1>1, <1>2, <2>1
    <3> QED
      BY <3>1, <1>3
  <2>2. CASE a > i
    <3>1. a - 1 \in 1..Len(t) /\ old(a - 1) = a
      BY <1>1, <1>2, <2>2
    <3> QED
      BY <3>1, <1>3
  <2> QED
    BY <1>2, <2>1, <2>2
<1> HIDE DEF old
<1>6. ASSUME NEW k \in 1..Len(t), NEW l \in 1..Len(t)
      PROVE  \E a, b \in 1..Len(s) \ {i} : t[k] = s[a] /\ t[l] = s[b] /\ (k # l => a # b)
  <2>1. /\ old(k) \in 1..Len(s) \ {i} /\ old(l) \in 1..Len(s) \ {i}
        /\ t[k] = s[old(k)] /\ t[l] = s[old(l)] /\ (k # l => old(k) # old(l))
    BY <1>3, <1>4
  <2> QED
    BY <2>1, Zenon
<1>7. IsWithout(t, s, i)
  BY <1>5, <1>6, Zenon DEF IsWithout
<1> QED
  BY <1>1, <1>7 DEF t

(* What packets may hold.                                                  *)
Payloads == UpMsgs \union DownMsgs \union Topics \union {None, "granted", "refused"}
PacketTypes == AckTypes \union
  {"BAD", "PINGREQ", "PINGRESP", "CONNECT", "CONNACK", "DISCONNECT", "PUBLISH", "SUBSCRIBE",
   "UNSUBSCRIBE"}
Ids == 0..MaxPacketId
Packets == [type : PacketTypes, id : Ids, m : Payloads]
UpPackets == {p \in Packets : p.type = "PUBLISH" => p.m \in UpMsgs}
DownPackets == {p \in Packets : p.type = "PUBLISH" => p.m \in DownMsgs /\ p.id = BrokerId[p.m]}
UserPackets == {p \in UpPackets : p.type \in {"SUBSCRIBE", "UNSUBSCRIBE"} => p.m \in Topics}
Entries ==
  {e \in [type : AckTypes, id : Ids, payload : UpPackets, handler : Objects \union {None}] :
     e.type \in SubTypes <=> e.handler \in Objects}

(* No entry of an ack list is there twice.                                 *)
Unique(s) == \A i, j \in 1..Len(s) : s[i].type = s[j].type /\ s[i].id = s[j].id => i = j

(* An entry waits for that answer.                                         *)
Holds(s, type, id) == \E x \in Range(s) : x.type = type /\ x.id = id

LEMMA UniqueInRange ==
  ASSUME NEW s \in Seq(Entries), Unique(s), NEW x \in Range(s), NEW y \in Range(s),
         x.type = y.type, x.id = y.id
  PROVE  x = y
<1>1. PICK i, j \in 1..Len(s) : s[i] = x /\ s[j] = y
  BY RangeOf
<1> QED
  BY <1>1 DEF Unique

LEMMA OfRecorded ==
  ASSUME NEW s \in Seq(Entries), Unique(s), NEW e \in Entries
  PROVE  /\ Recorded(s, e) \in Seq(Entries) /\ Unique(Recorded(s, e))
         /\ Holds(s, e.type, e.id) => Recorded(s, e) = s
         /\ ~Holds(s, e.type, e.id) => Range(Recorded(s, e)) = Range(s) \union {e}
<1>1. CASE \E i \in 1..Len(s) : s[i].type = e.type /\ s[i].id = e.id
  BY <1>1, RangeOf DEF Recorded, Holds
<1>2. CASE ~ \E i \in 1..Len(s) : s[i].type = e.type /\ s[i].id = e.id
  <2> DEFINE t == Append(s, e)
  <2>1. Recorded(s, e) = t
    BY <1>2 DEF Recorded
  <2>2. t \in Seq(Entries) /\ Len(t) = Len(s) + 1 /\ Range(t) = Range(s) \union {e}
    BY OfAppend
  <2>3. /\ \A i \in 1..Len(s) : t[i] = s[i]
        /\ t[Len(s) + 1] = e
    BY AppendProperties
  <2> HIDE DEF t
  <2>4. ~Holds(s, e.type, e.id)
    BY <1>2, RangeOf DEF Holds
  <2>5. Len(s) \in Nat
    BY RangeOf
  <2>6. ASSUME NEW i \in 1..Len(t), NEW j \in 1..Len(t), t[i].type = t[j].type, t[i].id = t[j].id
        PROVE  i = j
    <3>1. CASE i \in 1..Len(s) /\ j \in 1..Len(s)
      BY <2>3, <2>6, <3>1 DEF Unique
    <3>2. CASE i = Len(s) + 1 /\ j \in 1..Len(s)
      BY <1>2, <2>3, <2>6, <3>2
    <3>3. CASE i \in 1..Len(s) /\ j = Len(s) + 1
      BY <1>2, <2>3, <2>6, <3>3
    <3> QED
      BY <2>2, <2>5, <3>1, <3>2, <3>3
  <2> QED
    BY <2>1, <2>2, <2>4, <2>6 DEF Unique
<1> QED
  BY <1>1, <1>2

LEMMA OfEntryRemoved ==
  ASSUME NEW s \in Seq(Entries), Unique(s), NEW i \in 1..Len(s)
  PROVE  /\ RemoveAt(s, i) \in Seq(Entries) /\ Unique(RemoveAt(s, i))
         /\ Range(RemoveAt(s, i)) = Range(s) \ {s[i]}
<1>0. PICK t : t = RemoveAt(s, i)
  OBVIOUS
<1>1. t \in Seq(Entries) /\ IsWithout(t, s, i)
  BY <1>0, OfRemoveAt
<1>2. ASSUME NEW k \in 1..Len(t), NEW l \in 1..Len(t), t[k].type = t[l].type, t[k].id = t[l].id
      PROVE  k = l
  <2>1. PICK a, b \in 1..Len(s) \ {i} : t[k] = s[a] /\ t[l] = s[b] /\ (k # l => a # b)
    BY <1>1 DEF IsWithout
  <2> QED
    BY <1>2, <2>1 DEF Unique
<1>3. ASSUME NEW x \in Range(t) PROVE x \in Range(s) \ {s[i]}
  <2>1. PICK k \in 1..Len(t) : t[k] = x
    BY <1>1, RangeOf
  <2>2. PICK a \in 1..Len(s) \ {i} : t[k] = s[a]
    BY <1>1 DEF IsWithout
  <2> QED
    BY <2>1, <2>2, RangeOf DEF Unique
<1>4. ASSUME NEW x \in Range(s) \ {s[i]} PROVE x \in Range(t)
  <2>1. PICK a \in 1..Len(s) : s[a] = x
    BY RangeOf
  <2>2. PICK k \in 1..Len(t) : t[k] = s[a]
    BY <1>1, <2>1 DEF IsWithout
  <2> QED
    BY <1>1, <2>1, <2>2, RangeOf
<1> QED
  BY <1>0, <1>1, <1>2, <1>3, <1>4 DEF Unique

(* mqtt_ack_list_unrecord.                                                 *)
LEMMA OfUnrecorded ==
  ASSUME NEW s \in Seq(Entries), Unique(s), NEW type, NEW id
  PROVE  /\ Unrecorded(s, type, id) \in Seq(Entries) /\ Unique(Unrecorded(s, type, id))
         /\ Range(Unrecorded(s, type, id)) = {x \in Range(s) : x.type # type \/ x.id # id}
<1>1. CASE \E i \in 1..Len(s) : s[i].type = type /\ s[i].id = id
  <2>1. PICK i \in 1..Len(s) : s[i].type = type /\ s[i].id = id
    BY <1>1
  <2>2. {k \in 1..Len(s) : s[k].type = type /\ s[k].id = id} = {i}
    BY <2>1 DEF Unique
  <2>3. Min({i}) = i
    BY DEF Min
  <2>4. Unrecorded(s, type, id) = RemoveAt(s, i)
    BY <2>1, <2>2, <2>3 DEF Unrecorded, RemoveFirstMatch, SelectInSeq
  <2>5. {x \in Range(s) : x.type # type \/ x.id # id} = Range(s) \ {s[i]}
    BY <2>1, UniqueInRange, RangeOf
  <2> QED
    BY <2>4, <2>5, OfEntryRemoved
<1>2. CASE ~ \E i \in 1..Len(s) : s[i].type = type /\ s[i].id = id
  <2>1. Unrecorded(s, type, id) = s
    BY <1>2 DEF Unrecorded, RemoveFirstMatch, SelectInSeq
  <2> QED
    BY <1>2, <2>1, RangeOf
<1> QED
  BY <1>1, <1>2

(* A list of handlers without one of them.                                 *)
Once(s) == \A i, j \in 1..Len(s) : s[i] = s[j] => i = j

LEMMA OfHandlerRemoved ==
  ASSUME NEW s \in Seq(Objects), Once(s), NEW o
  PROVE  /\ RemoveFirst(s, o) \in Seq(Objects) /\ Once(RemoveFirst(s, o))
         /\ Range(RemoveFirst(s, o)) = Range(s) \ {o}
<1>1. CASE \E i \in 1..Len(s) : s[i] = o
  <2>1. PICK i \in 1..Len(s) : s[i] = o
    BY <1>1
  <2>2. {k \in 1..Len(s) : s[k] = o} = {i}
    BY <2>1 DEF Once
  <2>3. Min({i}) = i
    BY DEF Min
  <2>4. RemoveFirst(s, o) = RemoveAt(s, i)
    BY <2>1, <2>2, <2>3 DEF RemoveFirst, SelectInSeq
  <2>5. PICK t : t = RemoveAt(s, i)
    OBVIOUS
  <2>6. t \in Seq(Objects) /\ IsWithout(t, s, i)
    BY <2>5, OfRemoveAt
  <2>7. ASSUME NEW k \in 1..Len(t), NEW l \in 1..Len(t), t[k] = t[l] PROVE k = l
    <3>1. PICK a, b \in 1..Len(s) \ {i} : t[k] = s[a] /\ t[l] = s[b] /\ (k # l => a # b)
      BY <2>6 DEF IsWithout
    <3> QED
      BY <2>7, <3>1 DEF Once
  <2>8. ASSUME NEW x \in Range(t) PROVE x \in Range(s) \ {o}
    <3>1. PICK k \in 1..Len(t) : t[k] = x
      BY <2>6, RangeOf
    <3>2. PICK a \in 1..Len(s) \ {i} : t[k] = s[a]
      BY <2>6 DEF IsWithout
    <3> QED
      BY <2>1, <3>1, <3>2, RangeOf DEF Once
  <2>9. ASSUME NEW x \in Range(s) \ {o} PROVE x \in Range(t)
    <3>1. PICK a \in 1..Len(s) : s[a] = x
      BY RangeOf
    <3>2. PICK k \in 1..Len(t) : t[k] = s[a]
      BY <2>1, <2>6, <3>1 DEF IsWithout
    <3> QED
      BY <2>6, <3>1, <3>2, RangeOf
  <2> QED
    BY <2>4, <2>5, <2>6, <2>7, <2>8, <2>9 DEF Once
<1>2. CASE ~ \E i \in 1..Len(s) : s[i] = o
  <2>1. RemoveFirst(s, o) = s
    BY <1>2 DEF RemoveFirst, SelectInSeq
  <2> QED
    BY <1>2, <2>1, RangeOf
<1> QED
  BY <1>1, <1>2

Connecting == {"conlock", "connack", "conok", "confail"}
UserPlaces ==
  Connecting \union {"idle", "lock", "send", "record", "toomuch", "clean", "closed", "crashed"}
YieldPlaces ==
  Connecting \union {"none", "loop", "resub", "scanall", "scan", "read", "alive", "record", "ping",
                     "drop", "ended", "crashed"}

(* The values of the variables.                                            *)
Values ==
  /\ cstate \in {"initialized", "connected", "disconnected", "clean_session", "invalid"}
  /\ packetId \in 1..MaxPacketId
  /\ wlock \in Threads \union {None} /\ wbuf \in Packets
  /\ pc \in [Threads -> UserPlaces \union YieldPlaces] /\ mine \in [Threads -> Packets]
  /\ cursor \in Nat /\ last \in Int
  /\ link \in {"none", "tcp", "mqtt", "dead"}
  /\ rel \in SUBSET Ids
  /\ out \in [DownMsgs -> {"new", "sent", "released", "done"}]
  /\ faults \in Nat /\ faults <= MaxFaults
  /\ delivered \in [UpMsgs -> Nat] /\ received \in [DownMsgs -> Nat]
  /\ accepted \in [UpMsgs -> Ids]

Wires ==
  /\ up \in Seq(UpPackets) /\ Len(up) <= MaxWire
  /\ down \in Seq(DownPackets)

(* No entry is recorded twice, and what is installed is not freed and is   *)
(* about topics of its own.                                                *)
Lists ==
  /\ acks \in Seq(Entries) /\ Unique(acks)
  /\ installed \in Seq(Objects) /\ Once(installed)
  /\ topicOf \in [Objects -> Topics \union {None}]
  /\ \A o \in Range(installed) : topicOf[o] # None
  /\ \A o, p \in Range(installed) : topicOf[o] = topicOf[p] => o = p

(* Where the threads are, what they hold then, and who has the lock.       *)
UserControl(u) ==
  /\ pc[u] \in UserPlaces
  /\ mine[u] \in UserPackets
  /\ pc[u] \in {"send", "record", "connack"} => wlock = u
  /\ wlock = u => pc[u] \in {"send", "record", "connack", "crashed"}
  /\ pc[u] \in Connecting \union {"idle"} => mine[u] = Bad
  /\ pc[u] = "lock" => mine[u].id = 0
  /\ pc[u] \in {"lock", "send", "record"} =>
       mine[u].type \in {"PUBLISH", "SUBSCRIBE", "UNSUBSCRIBE", "DISCONNECT"}
  /\ pc[u] = "record" => mine[u].type # "DISCONNECT"
  /\ pc[u] \in Connecting => /\ pc[Yield] = "none"
                             /\ \A v \in Users \ {u} : pc[v] = "idle"
  /\ pc[Yield] = "none" => pc[u] \in Connecting \union {"idle"}

YieldControl ==
  /\ pc[Yield] \in YieldPlaces
  /\ mine[Yield] \in DownPackets
  /\ pc[Yield] = "none" => cstate = "initialized"
  /\ pc[Yield] = "record" => mine[Yield].type = "PUBLISH" /\ QosOf[mine[Yield].m] = 2
  /\ pc[Yield] = "connack" => wlock = Yield
  /\ pc[Yield] \in {"resub", "scanall"} => cursor > 0

Control == (\A u \in Users : UserControl(u)) /\ YieldControl

Core == Values /\ Wires /\ Lists /\ Control

-----------------------------------------------------------------------------
(* Packets and entries.                                                    *)

LEMMA PacketFields ==
  /\ \A t, id, m : /\ Packet(t, id, m).type = t /\ Packet(t, id, m).id = id /\ Packet(t, id, m).m = m
                   /\ Ack(t, id).type = t /\ Ack(t, id).id = id /\ Ack(t, id).m = None
  /\ \A p \in Packets : /\ p.type \in PacketTypes /\ p.id \in Ids /\ p.m \in Payloads
                        /\ p = Packet(p.type, p.id, p.m)
  /\ \A t \in PacketTypes, id \in Ids, m \in Payloads : Packet(t, id, m) \in Packets
  /\ \A t \in PacketTypes, id \in Ids : Ack(t, id) \in Packets
BY DEF Packet, Ack, Packets, Payloads

LEMMA AckTypesOf ==
  ASSUME NEW t \in PacketTypes \ {"PUBLISH"}, NEW id \in Ids
  PROVE  /\ Ack(t, id) \in UpPackets /\ Ack(t, id) \in DownPackets
         /\ t \notin {"SUBSCRIBE", "UNSUBSCRIBE"} => Ack(t, id) \in UserPackets
BY PacketFields DEF UpPackets, DownPackets, UserPackets

LEMMA PacketsAre ==
  /\ UpPackets \subseteq Packets /\ DownPackets \subseteq Packets /\ UserPackets \subseteq UpPackets
  /\ \A p \in UpPackets : p.type = "PUBLISH" => p.m \in UpMsgs
  /\ \A p \in DownPackets : p.type = "PUBLISH" => p.m \in DownMsgs /\ p.id = BrokerId[p.m]
  /\ \A p \in UserPackets : /\ p.type = "PUBLISH" => p.m \in UpMsgs
                            /\ p.type \in {"SUBSCRIBE", "UNSUBSCRIBE"} => p.m \in Topics
  /\ Bad \in UserPackets /\ Bad \in DownPackets
  /\ Bad.type = "BAD" /\ Bad.id = 0 /\ Bad.m = None
<1>1. "BAD" \in PacketTypes \ {"PUBLISH"} /\ 0 \in Ids
  BY BoundsAssumption DEF PacketTypes, Ids
<1>2. Bad = Ack("BAD", 0)
  BY DEF Bad
<1> QED
  BY <1>1, <1>2, AckTypesOf, PacketFields DEF UpPackets, DownPackets, UserPackets

LEMMA EntryFields ==
  /\ \A t, id, p, h : /\ Entry(t, id, p, h).type = t /\ Entry(t, id, p, h).id = id
                      /\ Entry(t, id, p, h).payload = p /\ Entry(t, id, p, h).handler = h
  /\ \A e \in Entries : /\ e.type \in AckTypes /\ e.id \in Ids /\ e.payload \in UpPackets
                        /\ e.handler \in Objects \union {None}
                        /\ e.type \in SubTypes <=> e.handler \in Objects
  /\ \A t \in AckTypes \ SubTypes, id \in Ids, p \in UpPackets : Entry(t, id, p, None) \in Entries
  /\ \A t \in SubTypes, id \in Ids, p \in UpPackets, h \in Objects : Entry(t, id, p, h) \in Entries
<1>1. SubTypes \subseteq AckTypes
  BY DEF SubTypes, AckTypes
<1> QED
  BY <1>1, SetsAssumption DEF Entry, Entries

LEMMA ExistsIs ==
  ASSUME acks \in Seq(Entries), NEW type, NEW id
  PROVE  Exists(type, id) <=> Holds(acks, type, id)
BY RangeOf DEF Exists, Holds

LEMMA BufferedIs == \A p : Buffered(p) \in {p, Bad}
BY DEF Buffered

LEMMA NextIdType == packetId \in 1..MaxPacketId => NextId \in 1..MaxPacketId /\ NextId \in Ids /\ NextId # 0
BY BoundsAssumption DEF NextId, Ids

LEMMA SentIs ==
  ASSUME NEW p \in UpPackets, up \in Seq(UpPackets), Len(up) <= MaxWire, Sent(p) \/ NotSent
  PROVE  /\ up' \in Seq(UpPackets) /\ Len(up') <= MaxWire
         /\ Range(up') \subseteq Range(up) \union {p}
         /\ \A x, y : Behind(up', x, y) => Behind(up, x, y) \/ (x \in Range(up) /\ y = p)
<1>1. CASE up' = up
  BY <1>1
<1>2. CASE Len(up) < MaxWire /\ up' = Append(up, p)
  <2> Len(up) \in Nat
    BY RangeOf
  <2> QED
    BY <1>2, OfAppend, BoundsAssumption
<1> QED
  BY <1>1, <1>2 DEF Sent, NotSent

-----------------------------------------------------------------------------
(* What every step keeps of Core.                                          *)

USE DEF lists, threads, buffer, wires, broker, history, Threads, Go, Y
USE DEF Core, Values, Control, UserControl, YieldControl, UserPlaces, YieldPlaces, Connecting
USE DEF Call, Return, Release, Crash, Fault, Packs, BrokerReads, BrokerSends

LEMMA WiresEmpty ==
  ASSUME up' = <<>>, down' = <<>>
  PROVE  Wires'
BY OfNothing, BoundsAssumption DEF Wires

LEMMA WiresKept ==
  ASSUME Wires, NEW p \in UpPackets, Sent(p) \/ NotSent \/ up' = up,
         down' = down \/ (down # <<>> /\ down' = Tail(down))
  PROVE  Wires'
<1>1. up' \in Seq(UpPackets) /\ Len(up') <= MaxWire
  BY SentIs DEF Wires
<1>2. down' \in Seq(DownPackets)
  BY OfTail DEF Wires
<1> QED
  BY <1>1, <1>2 DEF Wires

LEMMA WiresOfBroker ==
  ASSUME Wires, NEW ps \in Seq(DownPackets), down' = down \o ps,
         up' = up \/ (up # <<>> /\ up' = Tail(up))
  PROVE  Wires'
<1>1. up' \in Seq(UpPackets) /\ Len(up') <= MaxWire
  <2>1. Len(up) \in Nat /\ MaxWire \in Nat
    BY RangeOf, BoundsAssumption DEF Wires
  <2>2. CASE up # <<>> /\ up' = Tail(up)
    <3> DEFINE t == Tail(up)
    <3>1. t \in Seq(UpPackets) /\ Len(t) = Len(up) - 1 /\ up' = t
      BY <2>2, OfTail DEF Wires
    <3> HIDE DEF t
    <3>2. Len(t) <= MaxWire
      BY <2>1, <3>1 DEF Wires
    <3> QED
      BY <3>1, <3>2
  <2> QED
    BY <2>2 DEF Wires
<1>2. down' \in Seq(DownPackets)
  BY OfConcat DEF Wires
<1> QED
  BY <1>1, <1>2 DEF Wires

LEMMA WiresHeads ==
  ASSUME Wires
  PROVE  /\ up # <<>> => Head(up) \in UpPackets /\ Head(up) \in Range(up)
         /\ down # <<>> => Head(down) \in DownPackets /\ Head(down) \in Range(down)
BY OfTail DEF Wires

LEMMA ListsKept ==
  ASSUME Lists, UNCHANGED <<acks, installed, topicOf>>
  PROVE  Lists'
BY DEF Lists, Unique, Once

LEMMA ListsAcks ==
  ASSUME Lists, acks' \in Seq(Entries), Unique(acks'), UNCHANGED <<installed, topicOf>>
  PROVE  Lists'
BY DEF Lists, Once

LEMMA FoundHandler ==
  ASSUME Lists, NEW t, HandlersOf(t) # {}
  PROVE  \E i \in 1..Len(installed) :
           /\ HandlersOf(t) = {i} /\ Min(HandlersOf(t)) = i
           /\ installed[i] \in Objects /\ installed[i] \in Range(installed)
<1>1. PICK i \in HandlersOf(t) : TRUE
  OBVIOUS
<1>2. i \in 1..Len(installed) /\ topicOf[installed[i]] = t
  BY DEF HandlersOf
<1>3. installed[i] \in Objects /\ installed[i] \in Range(installed)
  BY <1>2, RangeOf DEF Lists
<1>4. ASSUME NEW j \in HandlersOf(t) PROVE j = i
  <2>1. j \in 1..Len(installed) /\ topicOf[installed[j]] = t
    BY DEF HandlersOf
  <2>2. installed[j] = installed[i]
    BY <1>2, <1>3, <2>1, RangeOf DEF Lists
  <2> QED
    BY <1>2, <2>1, <2>2 DEF Lists, Once
<1>5. HandlersOf(t) = {i}
  BY <1>4
<1>6. Min({i}) = i
  BY DEF Min
<1> QED
  BY <1>2, <1>3, <1>5, <1>6

(* A free block becomes the handler of a topic.                            *)
LEMMA ListsAllocated ==
  ASSUME Lists, acks' \in Seq(Entries), Unique(acks'), UNCHANGED installed,
         NEW o \in Free, NEW t \in Topics, topicOf' = [topicOf EXCEPT ![o] = t]
  PROVE  Lists'
<1>1. o \notin Range(installed) /\ o \in Objects
  BY DEF Lists, Free
<1>2. Range(installed) \subseteq Objects
  BY RangeOf DEF Lists
<1>3. \A x \in Range(installed) : topicOf'[x] = topicOf[x]
  BY <1>1, <1>2 DEF Lists
<1>4. topicOf' \in [Objects -> Topics \union {None}]
  BY DEF Lists
<1> QED
  BY <1>3, <1>4 DEF Lists, Once

LEMMA ListsDestroyed ==
  ASSUME Lists, acks' \in Seq(Entries), Unique(acks'), NEW o \in Objects, Destroy(o)
  PROVE  Lists' /\ Range(installed') = Range(installed) \ {o}
<1>1. /\ installed' \in Seq(Objects) /\ Once(installed')
      /\ Range(installed') = Range(installed) \ {o}
  BY OfHandlerRemoved DEF Lists, Destroy
<1>2. Range(installed) \subseteq Objects
  BY RangeOf DEF Lists
<1>3. /\ topicOf' \in [Objects -> Topics \union {None}]
      /\ \A x \in Objects \ {o} : topicOf'[x] = topicOf[x]
  BY DEF Lists, Destroy
<1> QED
  BY <1>1, <1>2, <1>3 DEF Lists

LEMMA ListsInstalled ==
  ASSUME Lists, acks' \in Seq(Entries), Unique(acks'), UNCHANGED topicOf,
         NEW o \in Objects, topicOf[o] # None, HandlersOf(topicOf[o]) = {},
         installed' = Append(installed, o)
  PROVE  Lists'
<1>1. \A x \in Range(installed) : topicOf[x] # topicOf[o]
  BY RangeOf DEF Lists, HandlersOf
<1>2. Len(installed) \in Nat
  BY RangeOf DEF Lists
<1>3. installed \in Seq(Objects)
  BY DEF Lists
<1>4. /\ installed' \in Seq(Objects) /\ Len(installed') = Len(installed) + 1
      /\ Range(installed') = Range(installed) \union {o}
  BY <1>3, OfAppend
<1>5. /\ \A i \in 1..Len(installed) : installed'[i] = installed[i] /\ installed[i] # o
      /\ installed'[Len(installed) + 1] = o
  BY <1>1, <1>3, AppendProperties, RangeOf
<1>6. Once(installed')
  BY <1>2, <1>4, <1>5 DEF Lists, Once
<1> QED
  BY <1>1, <1>4, <1>6 DEF Lists

-----------------------------------------------------------------------------
LEMMA CallCore ==
  ASSUME Core, NEW u \in Users, NEW p \in UserPackets, p.id = 0,
         p.type \in {"PUBLISH", "SUBSCRIBE", "UNSUBSCRIBE"}, Call(u, p.type, p.m)
  PROVE  Core'
<1>1. p = Packet(p.type, 0, p.m) /\ p \in Packets
  BY PacketFields, PacketsAre
<1>2. Values'
  BY <1>1
<1>3. Control'
  BY <1>1, SetsAssumption
<1> QED
  BY <1>2, <1>3, ListsKept DEF Wires

LEMMA UserCallsCore ==
  ASSUME Core, NEW u \in Users
  PROVE  /\ \A m \in UpMsgs : CallPublish(u, m) => Core'
         /\ \A t \in Topics : CallSubscribe(u, t) \/ CallUnsubscribe(u, t) => Core'
         /\ CallDisconnect(u) => Core'
<1>1. ASSUME NEW t \in {"PUBLISH", "SUBSCRIBE", "UNSUBSCRIBE"}, NEW m \in UpMsgs \union Topics,
             t = "PUBLISH" => m \in UpMsgs, t # "PUBLISH" => m \in Topics, Call(u, t, m)
      PROVE  Core'
  <2> DEFINE p == Packet(t, 0, m)
  <2>1. p.type = t /\ p.id = 0 /\ p.m = m
    BY PacketFields
  <2>2. p \in UserPackets
    <3>1. t \in PacketTypes /\ 0 \in Ids /\ m \in Payloads
      BY <1>1, BoundsAssumption DEF PacketTypes, Ids, Payloads
    <3>2. p \in Packets
      BY <3>1, PacketFields
    <3> QED
      BY <1>1, <2>1, <3>2 DEF UserPackets, UpPackets
  <2> HIDE DEF p
  <2> QED
    BY <1>1, <2>1, <2>2, CallCore
<1>2. ASSUME CallDisconnect(u) PROVE Core'
  <2>1. Ack("DISCONNECT", 0) \in UserPackets
    <3>1. "DISCONNECT" \in PacketTypes \ {"PUBLISH"} /\ 0 \in Ids
      BY BoundsAssumption DEF PacketTypes, Ids
    <3> QED
      BY <3>1, AckTypesOf
  <2>2. Ack("DISCONNECT", 0).id = 0 /\ Ack("DISCONNECT", 0).type = "DISCONNECT"
    BY PacketFields
  <2>3. Ack("DISCONNECT", 0) \in Packets
    BY <2>1, PacketsAre
  <2>4. Values'
    BY <1>2, <2>3 DEF CallDisconnect
  <2>5. Control'
    BY <1>2, <2>1, <2>2, SetsAssumption DEF CallDisconnect
  <2> QED
    BY <1>2, <2>4, <2>5, ListsKept DEF Wires, CallDisconnect
<1> QED
  BY <1>1, <1>2 DEF CallPublish, CallSubscribe, CallUnsubscribe

LEMMA SerializeCore ==
  ASSUME Core, NEW u \in Users, Serialize(u)
  PROVE  Core'
<1> DEFINE p == IF HasId(mine[u]) THEN [mine[u] EXCEPT !.id = NextId] ELSE mine[u]
<1>1. p \in UserPackets /\ p.type = mine[u].type
  <2>1. mine[u] \in UserPackets
    OBVIOUS
  <2>2. NextId \in Ids
    BY NextIdType
  <2> QED
    BY <2>1, <2>2 DEF UserPackets, UpPackets, Packets
<1>2. p \in Packets
  BY <1>1, PacketsAre
<1>3. \/ /\ pc' = [pc EXCEPT ![u] = "toomuch"]
         /\ UNCHANGED <<mine, buffer, packetId>>
      \/ /\ pc' = [pc EXCEPT ![u] = "send"]
         /\ mine' = [mine EXCEPT ![u] = p]
         /\ packetId' = IF HasId(p) THEN NextId ELSE packetId
         /\ wbuf' = p
         /\ wlock' = u
  BY DEF Serialize
<1> HIDE DEF p
<1>4. Values'
  <2>1. CASE pc' = [pc EXCEPT ![u] = "toomuch"] /\ UNCHANGED <<mine, buffer, packetId>>
    BY <2>1 DEF Serialize
  <2>2. CASE wbuf' = p /\ wlock' = u
    <3>1. packetId' \in 1..MaxPacketId
      BY <1>3, NextIdType
    <3>2. pc' \in [Threads -> UserPlaces \union YieldPlaces] /\ mine' \in [Threads -> Packets]
      BY <1>2, <1>3
    <3> QED
      BY <1>2, <2>2, <3>1, <3>2 DEF Serialize
  <2> QED
    BY <1>3, <2>1, <2>2
<1>5. Control'
  BY <1>1, <1>3, SetsAssumption DEF Serialize
<1> QED
  BY <1>4, <1>5, ListsKept DEF Wires, Serialize

LEMMA TooMuchCore ==
  ASSUME Core, NEW u \in Users, TooMuch(u)
  PROVE  Core'
<1>1. Values'
  BY PacketsAre DEF TooMuch
<1>2. Control'
  BY PacketsAre, SetsAssumption DEF TooMuch
<1> QED
  BY <1>1, <1>2, WiresEmpty, ListsKept DEF TooMuch

LEMMA SendCore ==
  ASSUME Core, NEW u \in Users, Send(u)
  PROVE  Core'
<1>1. Values'
  BY PacketsAre DEF Send
<1>2. Control'
  BY PacketsAre, SetsAssumption DEF Send
<1>3. Buffered(mine[u]) \in UpPackets
  BY PacketsAre, BufferedIs
<1>4. Wires'
  BY <1>3, WiresKept DEF Send
<1> QED
  BY <1>1, <1>2, <1>4, ListsKept DEF Send

LEMMA SetCleanSessionCore ==
  ASSUME Core, NEW u \in Users, SetCleanSession(u)
  PROVE  Core'
<1>1. Values'
  BY DEF SetCleanSession
<1>2. Control'
  BY SetsAssumption DEF SetCleanSession
<1> QED
  BY <1>1, <1>2, ListsKept DEF Wires, SetCleanSession

LEMMA RecordPublishCore ==
  ASSUME Core, NEW u \in Users, RecordPublish(u)
  PROVE  Core'
<1> DEFINE p == mine[u]
           e == Entry(IF QosOf[p.m] = 1 THEN "PUBACK" ELSE "PUBREC", p.id, Buffered(p), None)
<1>1. /\ acks' = IF HasId(p) THEN Recorded(acks, e) ELSE acks
      /\ accepted' = IF HasId(p) /\ ~Exists(e.type, p.id)
                       THEN [accepted EXCEPT ![p.m] = p.id] ELSE accepted
  BY DEF RecordPublish
<1>2. p \in UserPackets /\ p.id \in Ids
  BY PacketsAre, PacketFields
<1>3. e \in Entries
  <2>1. Buffered(p) \in UpPackets
    BY <1>2, PacketsAre, BufferedIs
  <2>2. {"PUBACK", "PUBREC"} \subseteq AckTypes \ SubTypes
    BY DEF AckTypes, SubTypes
  <2> QED
    BY <1>2, <2>1, <2>2, EntryFields
<1> HIDE DEF e
<1>4. Lists'
  BY <1>1, <1>3, OfRecorded, ListsAcks DEF RecordPublish, Lists
<1>5. accepted' \in [UpMsgs -> Ids]
  BY <1>1, <1>2
<1> HIDE DEF p
<1>6. Values'
  BY <1>5, PacketsAre DEF RecordPublish
<1>7. Control'
  BY PacketsAre, SetsAssumption DEF RecordPublish
<1> QED
  BY <1>4, <1>6, <1>7 DEF RecordPublish, Wires

LEMMA RecordSubscribeCore ==
  ASSUME Core, NEW u \in Users, RecordSubscribe(u)
  PROVE  Core'
<1>1. Values'
  BY PacketsAre DEF RecordSubscribe
<1>2. Control'
  BY PacketsAre, SetsAssumption DEF RecordSubscribe
<1>3. ASSUME NEW o \in Free, topicOf' = [topicOf EXCEPT ![o] = mine[u].m],
             acks' = Recorded(acks, Entry("SUBACK", mine[u].id, mine[u], o))
      PROVE  Lists'
  <2> DEFINE e == Entry("SUBACK", mine[u].id, mine[u], o)
  <2>1. mine[u] \in UserPackets /\ mine[u].type = "SUBSCRIBE"
    BY DEF RecordSubscribe
  <2>2. mine[u].m \in Topics /\ mine[u] \in UpPackets /\ mine[u].id \in Ids
    BY <2>1, PacketsAre, PacketFields
  <2>3. o \in Objects /\ "SUBACK" \in SubTypes
    BY DEF Free, SubTypes
  <2>4. e \in Entries
    BY <2>2, <2>3, EntryFields
  <2> HIDE DEF e
  <2>5. acks' \in Seq(Entries) /\ Unique(acks')
    BY <1>3, <2>4, OfRecorded DEF Lists, e
  <2> QED
    BY <1>3, <2>2, <2>5, ListsAllocated DEF RecordSubscribe
<1> QED
  BY <1>1, <1>2, <1>3, ListsKept DEF RecordSubscribe, Wires

LEMMA RecordUnsubscribeCore ==
  ASSUME Core, NEW u \in Users, RecordUnsubscribe(u)
  PROVE  Core'
<1>1. Values'
  BY PacketsAre DEF RecordUnsubscribe
<1>2. Control'
  BY PacketsAre, SetsAssumption DEF RecordUnsubscribe
<1> DEFINE found == HandlersOf(mine[u].m)
           e == Entry("UNSUBACK", mine[u].id, mine[u], installed[Min(found)])
<1>3. CASE found # {}
  <2>1. acks' = Recorded(acks, e)
    BY <1>3 DEF RecordUnsubscribe
  <2>2. installed[Min(found)] \in Objects
    BY <1>3, FoundHandler
  <2>3. mine[u] \in UpPackets /\ mine[u].id \in Ids /\ "UNSUBACK" \in SubTypes
    BY PacketsAre, PacketFields DEF SubTypes
  <2>4. e \in Entries
    BY <2>2, <2>3, EntryFields
  <2> HIDE DEF e, found
  <2>5. acks' \in Seq(Entries) /\ Unique(acks')
    BY <2>1, <2>4, OfRecorded DEF Lists
  <2>6. Lists'
    BY <2>5, ListsAcks DEF RecordUnsubscribe
  <2> QED
    BY <1>1, <1>2, <2>6 DEF RecordUnsubscribe, Wires
<1> QED
  BY <1>1, <1>2, <1>3, ListsKept DEF RecordUnsubscribe, Wires
-----------------------------------------------------------------------------
LEMMA ConnectCore ==
  ASSUME Core, NEW t \in Threads, Connect(t)
  PROVE  Core'
<1>1. Values'
  BY DEF Connect
<1>2. Control'
  BY SetsAssumption DEF Connect
<1> QED
  BY <1>1, <1>2, ListsKept, WiresEmpty DEF Connect

LEMMA SendConnectCore ==
  ASSUME Core, NEW t \in Threads, SendConnect(t)
  PROVE  Core'
<1>1. Ack("CONNECT", 0) \in Packets /\ Ack("CONNECT", 0) \in UpPackets
  <2>1. "CONNECT" \in PacketTypes \ {"PUBLISH"} /\ 0 \in Ids
    BY BoundsAssumption DEF PacketTypes, Ids
  <2> QED
    BY <2>1, AckTypesOf, PacketsAre
<1>2. Values'
  BY <1>1 DEF SendConnect
<1>3. Control'
  BY SetsAssumption DEF SendConnect
<1>4. Wires'
  BY <1>1, WiresKept DEF SendConnect
<1> QED
  BY <1>2, <1>3, <1>4, ListsKept DEF SendConnect

LEMMA WaitConnackCore ==
  ASSUME Core, NEW t \in Threads, WaitConnack(t)
  PROVE  Core'
<1>1. Values'
  BY DEF WaitConnack
<1>2. Control'
  BY SetsAssumption DEF WaitConnack
<1>3. Wires'
  BY PacketsAre, WiresKept DEF WaitConnack
<1> QED
  BY <1>1, <1>2, <1>3, ListsKept DEF WaitConnack

LEMMA ConnectedCore ==
  ASSUME Core, NEW t \in Threads, Connected(t)
  PROVE  Core'
<1>1. Values'
  BY DEF Connected
<1>2. Control'
  BY SetsAssumption DEF Connected
<1> QED
  BY <1>1, <1>2, ListsKept DEF Connected, Wires

LEMMA ConnectFailedCore ==
  ASSUME Core, NEW t \in Threads, ConnectFailed(t)
  PROVE  Core'
<1>1. Values'
  BY DEF ConnectFailed
<1>2. Control'
  BY SetsAssumption DEF ConnectFailed
<1> QED
  BY <1>1, <1>2, ListsKept, WiresEmpty DEF ConnectFailed
-----------------------------------------------------------------------------
(* The steps of the yield thread that change neither the lists nor what is *)
(* on its way, and the ends of connections.                                *)
LEMMA YieldMovesCore ==
  ASSUME Core
  PROVE  /\ ResubscribeDone \/ ScanAllDone \/ ScanDone \/ Read \/ ReadNothing \/ AliveNothingDue
              \/ Disconnected => Core'
         /\ HandleNotConnected \/ HandlePingresp => Core'
         /\ PingDue \/ SendPing => Core'
         /\ PingUnanswered \/ LoseLink \/ BrokerCloses => Core'
<1>1. ASSUME ResubscribeDone \/ ScanAllDone \/ ScanDone \/ Read \/ ReadNothing \/ AliveNothingDue
               \/ Disconnected
      PROVE  Core'
  <2>1. UNCHANGED <<acks, installed, topicOf, up, down>>
    BY <1>1 DEF ResubscribeDone, ScanAllDone, ScanDone, Read, ReadNothing, AliveNothingDue,
                Disconnected
  <2>2. Values'
    BY <1>1, RangeOf DEF ResubscribeDone, ScanAllDone, ScanDone, Read, ReadNothing,
                AliveNothingDue, Disconnected, Lists
  <2>3. Control'
    BY <1>1, SetsAssumption DEF ResubscribeDone, ScanAllDone, ScanDone, Read, ReadNothing,
                AliveNothingDue, Disconnected
  <2> QED
    BY <2>1, <2>2, <2>3, ListsKept DEF Wires
<1>2. ASSUME HandleNotConnected \/ HandlePingresp
      PROVE  Core'
  <2>1. Values'
    BY <1>2 DEF HandleNotConnected, HandlePingresp
  <2>2. pc[Yield] = "read" /\ pc' \in {[pc EXCEPT ![Yield] = "loop"], [pc EXCEPT ![Yield] = "alive"]}
    BY <1>2 DEF HandleNotConnected, HandlePingresp
  <2>3. UNCHANGED <<cstate, mine, wlock, cursor>>
    BY <1>2 DEF HandleNotConnected, HandlePingresp
  <2>4. Control'
    BY <2>2, <2>3, SetsAssumption
  <2>5. Wires'
    BY <1>2, PacketsAre, WiresKept DEF HandleNotConnected, HandlePingresp
  <2> QED
    BY <1>2, <2>1, <2>4, <2>5, ListsKept DEF HandleNotConnected, HandlePingresp
<1>3. ASSUME PingDue \/ SendPing
      PROVE  Core'
  <2>1. PingReq \in Packets /\ PingReq \in UpPackets
    <3>1. "PINGREQ" \in PacketTypes \ {"PUBLISH"} /\ 0 \in Ids
      BY BoundsAssumption DEF PacketTypes, Ids
    <3> QED
      BY <3>1, AckTypesOf, PacketsAre DEF PingReq
  <2>2. Values'
    BY <1>3, <2>1, BoundsAssumption DEF PingDue, SendPing
  <2>3. Control'
    BY <1>3, SetsAssumption DEF PingDue, SendPing
  <2>4. Buffered(PingReq) \in UpPackets
    BY <2>1, BufferedIs, PacketsAre
  <2>5. Wires'
    BY <1>3, <2>4, WiresKept DEF PingDue, SendPing, Wires
  <2> QED
    BY <1>3, <2>2, <2>3, <2>5, ListsKept DEF PingDue, SendPing
<1>4. ASSUME PingUnanswered \/ LoseLink \/ BrokerCloses
      PROVE  Core'
  <2>1. Values'
    BY <1>4, BoundsAssumption DEF PingUnanswered, LoseLink, BrokerCloses
  <2>2. Control'
    BY <1>4, SetsAssumption DEF PingUnanswered, LoseLink, BrokerCloses
  <2> QED
    BY <1>4, <2>1, <2>2, ListsKept, WiresEmpty DEF PingUnanswered, LoseLink, BrokerCloses
<1> QED
  BY <1>1, <1>2, <1>3, <1>4

-----------------------------------------------------------------------------
LEMMA ResubscribeCore ==
  ASSUME Core, Resubscribe
  PROVE  Core'
<1> DEFINE t == topicOf[installed[cursor]]
           p == Packet("SUBSCRIBE", NextId, t)
<1>1. cursor \in 1..Len(installed)
  BY RangeOf DEF Resubscribe, Lists
<1>2. t \in Topics
  <2>1. installed[cursor] \in Range(installed) /\ installed[cursor] \in Objects
    BY <1>1, RangeOf DEF Lists
  <2> QED
    BY <2>1 DEF Lists
<1>3. p \in UpPackets /\ p \in Packets /\ p.id = NextId /\ p.m = t /\ NextId \in Ids
  <2>1. "SUBSCRIBE" \in PacketTypes /\ NextId \in Ids /\ t \in Payloads
    BY <1>2, NextIdType DEF PacketTypes, Payloads
  <2> QED
    BY <2>1, PacketFields DEF UpPackets
<1>4. /\ pc[Yield] = "resub" /\ cursor' = cursor + 1
      /\ \/ UNCHANGED <<acks, topicOf, packetId, wbuf, up, garbled>>
         \/ /\ packetId' = NextId /\ wbuf' = p
            /\ \/ /\ Sent(p)
                  /\ \/ UNCHANGED <<acks, topicOf>>
                     \/ \E o \in Free : /\ topicOf' = [topicOf EXCEPT ![o] = p.m]
                                        /\ acks' = Recorded(acks, Entry("SUBACK", p.id, p, o))
               \/ NotSent /\ UNCHANGED <<acks, topicOf>>
      /\ UNCHANGED <<cstate, installed, ping, wlock, pc, mine, last, link, down, broker, faults,
                     received, accepted>>
  BY DEF Resubscribe
<1> HIDE DEF p
<1>5. Values'
  <2>1. packetId' \in 1..MaxPacketId /\ wbuf' \in Packets /\ cursor' \in Nat
    BY <1>3, <1>4, NextIdType
  <2> QED
    BY <1>4, <2>1
<1>6. Control'
  BY <1>4, SetsAssumption
<1>7. Wires'
  BY <1>3, <1>4, WiresKept
<1>8. ASSUME NEW o \in Free, topicOf' = [topicOf EXCEPT ![o] = p.m],
             acks' = Recorded(acks, Entry("SUBACK", p.id, p, o))
      PROVE  Lists'
  <2> DEFINE e == Entry("SUBACK", p.id, p, o)
  <2>1. o \in Objects /\ "SUBACK" \in SubTypes
    BY DEF Free, SubTypes
  <2>2. e \in Entries
    BY <1>3, <2>1, EntryFields
  <2> HIDE DEF e
  <2>3. acks' \in Seq(Entries) /\ Unique(acks')
    BY <1>8, <2>2, OfRecorded DEF Lists, e
  <2> QED
    BY <1>2, <1>3, <1>4, <1>8, <2>3, ListsAllocated
<1> QED
  BY <1>4, <1>5, <1>6, <1>7, <1>8, ListsKept

LEMMA AcksAre ==
  ASSUME Lists, NEW i \in 1..Len(acks)
  PROVE  /\ acks[i] \in Entries /\ acks[i] \in Range(acks)
         /\ acks[i].payload \in UpPackets /\ acks[i].payload \in Packets
         /\ acks[i].type \in SubTypes => acks[i].handler \in Objects
<1>1. acks[i] \in Entries /\ acks[i] \in Range(acks)
  BY RangeOf DEF Lists
<1> QED
  BY <1>1, EntryFields, PacketsAre

LEMMA ResendCore ==
  ASSUME Core, NEW i \in 1..Len(acks), Resend(acks[i]), UNCHANGED down
  PROVE  wbuf' \in Packets /\ Wires' /\ Lists'
BY AcksAre, WiresKept, ListsKept DEF Resend

LEMMA ExpireCore ==
  ASSUME Core, NEW i \in 1..Len(acks), Expire(i), UNCHANGED down
  PROVE  wbuf' = wbuf /\ Wires' /\ Lists'
<1>1. acks' \in Seq(Entries) /\ Unique(acks')
  BY OfEntryRemoved DEF Lists, Expire
<1>2. acks[i].handler \in Objects
  BY AcksAre DEF Expire
<1> QED
  BY <1>1, <1>2, ListsDestroyed DEF Expire, Wires

LEMMA ScanAllCore ==
  ASSUME Core, ScanAll
  PROVE  Core'
<1>1. cursor \in 1..Len(acks)
  BY RangeOf DEF ScanAll, Lists
<1>2. wbuf' \in Packets /\ Wires' /\ Lists'
  BY <1>1, ResendCore, ExpireCore, ListsKept DEF ScanAll, Wires
<1>3. Values'
  BY <1>2 DEF ScanAll
<1>4. Control'
  BY SetsAssumption DEF ScanAll
<1> QED
  BY <1>2, <1>3, <1>4

LEMMA ScanCore ==
  ASSUME Core, Scan
  PROVE  Core'
<1>1. PICK i \in 1..Len(acks) :
        \/ (Resend(acks[i]) \/ Expire(i)) /\ Y("scan", "loop")
        \/ Crash /\ UNCHANGED <<lists, wbuf, up, garbled>>
  BY DEF Scan
<1>2. wbuf' \in Packets /\ Wires' /\ Lists'
  <2>1. UNCHANGED down /\ wbuf \in Packets
    BY DEF Scan
  <2>2. CASE Crash /\ UNCHANGED <<lists, wbuf, up, garbled>>
    BY <2>1, <2>2, ListsKept DEF Wires
  <2> HIDE DEF Core, Crash
  <2> QED
    BY <1>1, <2>1, <2>2, ResendCore, ExpireCore
<1>3. Values'
  BY <1>1, <1>2, BoundsAssumption DEF Scan
<1>4. Control'
  BY <1>1, SetsAssumption DEF Scan
<1> QED
  BY <1>2, <1>3, <1>4

LEMMA CleanSessionCore ==
  ASSUME Core, CleanSession
  PROVE  Core'
<1>1. Values'
  BY DEF CleanSession
<1>2. Control'
  BY SetsAssumption DEF CleanSession
<1>3. acks' = <<>> /\ installed' = <<>> /\ topicOf' \in [Objects -> Topics \union {None}]
  BY DEF CleanSession, Lists
<1>4. Lists'
  <2>1. /\ acks' \in Seq(Entries) /\ installed' \in Seq(Objects)
        /\ Len(acks') = 0 /\ Len(installed') = 0 /\ Range(installed') = {}
    BY <1>3, OfNothing
  <2> QED
    BY <1>3, <2>1 DEF Lists, Unique, Once
<1> QED
  BY <1>1, <1>2, <1>4, WiresEmpty DEF CleanSession
-----------------------------------------------------------------------------
LEMMA HandlePubackPubcompCore ==
  ASSUME Core, HandlePubackPubcomp
  PROVE  Core'
<1>1. Values'
  BY DEF HandlePubackPubcomp
<1>2. Control'
  BY SetsAssumption DEF HandlePubackPubcomp
<1>3. Wires'
  BY WiresKept, PacketsAre DEF HandlePubackPubcomp
<1>4. Lists'
  BY OfUnrecorded, ListsAcks DEF HandlePubackPubcomp, Lists
<1> QED
  BY <1>1, <1>2, <1>3, <1>4

LEMMA HandleSubackCore ==
  ASSUME Core, HandleSuback
  PROVE  Core'
<1>1. Values'
  BY DEF HandleSuback
<1>2. Control'
  BY SetsAssumption DEF HandleSuback
<1>3. Wires'
  BY WiresKept, PacketsAre DEF HandleSuback
<1>4. acks' \in Seq(Entries) /\ Unique(acks')
  BY OfUnrecorded DEF HandleSuback, Lists
<1>5. ASSUME NEW i \in 1..Len(acks), acks[i].type = "SUBACK", topicOf[acks[i].handler] # None,
             \/ Destroy(acks[i].handler)
             \/ /\ HandlersOf(topicOf[acks[i].handler]) = {}
                /\ installed' = Append(installed, acks[i].handler) /\ UNCHANGED topicOf
      PROVE  Lists'
  <2>1. acks[i].handler \in Objects
    BY <1>5, AcksAre DEF SubTypes
  <2> QED
    BY <1>4, <1>5, <2>1, ListsDestroyed, ListsInstalled
<1>6. \/ UNCHANGED <<installed, topicOf>>
      \/ \E i \in 1..Len(acks) :
           /\ acks[i].type = "SUBACK" /\ topicOf[acks[i].handler] # None
           /\ \/ Destroy(acks[i].handler)
              \/ /\ HandlersOf(topicOf[acks[i].handler]) = {}
                 /\ installed' = Append(installed, acks[i].handler) /\ UNCHANGED topicOf
  BY DEF HandleSuback
<1> QED
  BY <1>1, <1>2, <1>3, <1>4, <1>5, <1>6, ListsAcks

LEMMA HandleUnsubackCore ==
  ASSUME Core, HandleUnsuback
  PROVE  Core'
<1>1. Values'
  BY DEF HandleUnsuback
<1>2. Control'
  BY SetsAssumption DEF HandleUnsuback
<1>3. Wires'
  BY WiresKept, PacketsAre DEF HandleUnsuback
<1>4. acks' \in Seq(Entries) /\ Unique(acks')
  BY OfUnrecorded DEF HandleUnsuback, Lists
<1>5. \/ UNCHANGED <<installed, topicOf>>
      \/ \E i \in 1..Len(acks) : acks[i].type = "UNSUBACK" /\ Destroy(acks[i].handler)
  BY DEF HandleUnsuback
<1>6. ASSUME NEW i \in 1..Len(acks), acks[i].type = "UNSUBACK", Destroy(acks[i].handler)
      PROVE  Lists'
  <2>1. acks[i].handler \in Objects
    BY <1>6, AcksAre DEF SubTypes
  <2> QED
    BY <1>4, <1>6, <2>1, ListsDestroyed
<1> QED
  BY <1>1, <1>2, <1>3, <1>4, <1>5, <1>6, ListsAcks

LEMMA AnswersAre ==
  ASSUME NEW id \in Ids, NEW t \in AckTypes
  PROVE  Ack(t, id) \in UpPackets /\ Ack(t, id) \in DownPackets /\ Ack(t, id) \in Packets
<1>1. t \in PacketTypes \ {"PUBLISH"}
  BY DEF AckTypes, PacketTypes
<1> QED
  BY <1>1, AckTypesOf, PacketsAre

LEMMA HandlePublishCore ==
  ASSUME Core, HandlePublish
  PROVE  Core'
<1> DEFINE p == Head(down)
           answer == Ack(IF QosOf[p.m] = 1 THEN "PUBACK" ELSE "PUBREC", p.id)
<1>1. p \in DownPackets /\ p \in Packets /\ p.type = "PUBLISH" /\ p.m \in DownMsgs /\ p.id \in Ids
  BY WiresHeads, PacketsAre, PacketFields DEF HandlePublish
<1>2. answer \in UpPackets /\ answer \in Packets
  BY <1>1, AnswersAre DEF AckTypes
<1>3. QosOf[p.m] \in 0..2
  BY <1>1, MessagesAssumption
<1>4. /\ pc[Yield] = "read" /\ down # <<>> /\ down' = Tail(down)
      /\ \/ /\ QosOf[p.m] = 0 /\ Y("read", "alive") /\ received' = Received(p.m)
            /\ UNCHANGED <<wbuf, mine, up>>
         \/ /\ QosOf[p.m] # 0 /\ wbuf' = answer
            /\ \/ /\ Sent(answer)
                  /\ Y("read", IF QosOf[p.m] = 1 THEN "alive" ELSE "record")
                  /\ received' = IF QosOf[p.m] = 1 THEN Received(p.m) ELSE received
                  /\ mine' = [mine EXCEPT ![Yield] = p]
               \/ NotSent /\ Y("read", "alive") /\ UNCHANGED <<received, mine>>
      /\ UNCHANGED <<cstate, lists, ping, packetId, wlock, cursor, last, link, broker, faults, accepted>>
  BY DEF HandlePublish
<1> HIDE DEF p, answer
<1>5. received' \in [DownMsgs -> Nat]
  BY <1>1, <1>4 DEF Received
<1>6. Values'
  BY <1>1, <1>2, <1>4, <1>5
<1>7. Control'
  BY <1>1, <1>3, <1>4, SetsAssumption
<1>8. Wires'
  BY <1>2, <1>4, PacketsAre, WiresKept
<1> QED
  BY <1>4, <1>6, <1>7, <1>8, ListsKept

LEMMA RecordReleaseCore ==
  ASSUME Core, RecordRelease
  PROVE  Core'
<1> DEFINE p == mine[Yield]
           e == Entry("PUBREL", p.id, Buffered(Ack("PUBREC", p.id)), None)
<1>1. p \in DownPackets /\ p.type = "PUBLISH" /\ p.m \in DownMsgs /\ p.id \in Ids
  BY PacketsAre, PacketFields DEF RecordRelease
<1>2. e \in Entries
  <2>1. Buffered(Ack("PUBREC", p.id)) \in UpPackets
    BY <1>1, AnswersAre, BufferedIs, PacketsAre DEF AckTypes
  <2>2. "PUBREL" \in AckTypes \ SubTypes
    BY DEF AckTypes, SubTypes
  <2> QED
    BY <1>1, <2>1, <2>2, EntryFields
<1>3. acks' = Recorded(acks, e) /\ received' \in {received, Received(p.m)}
  BY DEF RecordRelease
<1> HIDE DEF e
<1>4. Lists'
  BY <1>2, <1>3, OfRecorded, ListsAcks DEF Lists, RecordRelease
<1>5. received' \in [DownMsgs -> Nat]
  BY <1>1, <1>3 DEF Received
<1> HIDE DEF p
<1>6. Values'
  BY <1>5, PacketsAre DEF RecordRelease
<1>7. Control'
  BY PacketsAre, SetsAssumption DEF RecordRelease
<1> QED
  BY <1>4, <1>6, <1>7 DEF RecordRelease, Wires

LEMMA HandlePubrecCore ==
  ASSUME Core, HandlePubrec
  PROVE  Core'
<1> DEFINE id == Head(down).id
           release == Ack("PUBREL", id)
           e == Entry("PUBCOMP", id, release, None)
<1>1. id \in Ids
  BY WiresHeads, PacketsAre, PacketFields DEF HandlePubrec
<1>2. release \in UpPackets /\ release \in Packets
  BY <1>1, AnswersAre DEF AckTypes
<1>3. e \in Entries
  <2>1. "PUBCOMP" \in AckTypes \ SubTypes
    BY DEF AckTypes, SubTypes
  <2> QED
    BY <1>1, <1>2, <2>1, EntryFields
<1>4. /\ acks' = Unrecorded(Recorded(acks, e), "PUBREC", id)
      /\ wbuf' = release /\ (UNCHANGED up \/ Sent(release) \/ NotSent)
  BY DEF HandlePubrec
<1> HIDE DEF e, release
<1>5. Lists'
  <2>1. Recorded(acks, e) \in Seq(Entries) /\ Unique(Recorded(acks, e))
    BY <1>3, OfRecorded DEF Lists
  <2>2. acks' \in Seq(Entries) /\ Unique(acks')
    BY <1>4, <2>1, OfUnrecorded
  <2> QED
    BY <2>2, ListsAcks DEF HandlePubrec
<1>6. Values'
  BY <1>2, <1>4 DEF HandlePubrec
<1>7. Control'
  BY SetsAssumption DEF HandlePubrec
<1>8. Wires'
  BY <1>2, <1>4, WiresKept DEF HandlePubrec
<1> QED
  BY <1>5, <1>6, <1>7, <1>8

LEMMA HandlePubrelCore ==
  ASSUME Core, HandlePubrel
  PROVE  Core'
<1> DEFINE answer == Ack("PUBCOMP", Head(down).id)
<1>1. Head(down).id \in Ids
  BY WiresHeads, PacketsAre, PacketFields DEF HandlePubrel
<1>2. answer \in UpPackets /\ answer \in Packets
  BY <1>1, AnswersAre DEF AckTypes
<1>3. wbuf' = answer /\ (Sent(answer) \/ NotSent)
  BY DEF HandlePubrel
<1> HIDE DEF answer
<1>4. Lists'
  BY OfUnrecorded, ListsAcks DEF HandlePubrel, Lists
<1>5. Values'
  BY <1>2, <1>3 DEF HandlePubrel
<1>6. Control'
  BY SetsAssumption DEF HandlePubrel
<1>7. Wires'
  BY <1>2, <1>3, WiresKept DEF HandlePubrel
<1> QED
  BY <1>4, <1>5, <1>6, <1>7
-----------------------------------------------------------------------------
(* What the broker sends again to a client that connects.                  *)
Unanswered == {m \in DownMsgs : out[m] \in {"sent", "released"}}
Again(m) == IF out[m] = "sent" THEN Packet("PUBLISH", BrokerId[m], m) ELSE Ack("PUBREL", BrokerId[m])
AllAgain == [i \in 1..Len(SetToSeq(Unanswered)) |-> Again(SetToSeq(Unanswered)[i])]

LEMMA BrokerPacketsAre ==
  ASSUME NEW m \in DownMsgs
  PROVE  /\ Packet("PUBLISH", BrokerId[m], m) \in DownPackets
         /\ Ack("PUBREL", BrokerId[m]) \in DownPackets
         /\ BrokerId[m] \in Ids
<1>1. BrokerId[m] \in Ids /\ m \in Payloads /\ "PUBLISH" \in PacketTypes
  BY MessagesAssumption DEF Ids, Payloads, PacketTypes
<1>2. Packet("PUBLISH", BrokerId[m], m) \in DownPackets
  BY <1>1, PacketFields DEF DownPackets
<1> QED
  BY <1>1, <1>2, AnswersAre DEF AckTypes

LEMMA SetToSeqIs ==
  ASSUME NEW S, IsFiniteSet(S)
  PROVE  SetToSeq(S) \in Seq(S)
<1>1. PICK n \in Nat : ExistsBijection(1..n, S)
  BY FS_NatBijection
<1>2. Cardinality(S) = n
  BY <1>1, FS_CountingElements
<1>3. PICK f : f \in Bijection(1..n, S)
  BY <1>1 DEF ExistsBijection
<1>4. f \in [1..Cardinality(S) -> S] /\ IsInjective(f)
  BY <1>2, <1>3 DEF Bijection, Injection
<1>5. SetToSeq(S) \in [1..n -> S]
  BY <1>2, <1>4 DEF SetToSeq
<1> QED
  BY <1>5

LEMMA AllAgainIs ==
  /\ AllAgain \in Seq(DownPackets)
  /\ \A p \in Range(AllAgain) : \E m \in Unanswered : p = Again(m)
<1> DEFINE ms == SetToSeq(Unanswered)
<1>1. ms \in Seq(Unanswered)
  <2>1. IsFiniteSet(DownMsgs) /\ Unanswered \subseteq DownMsgs
    BY SetsAssumption DEF Unanswered
  <2>2. IsFiniteSet(Unanswered)
    BY <2>1, FS_Subset
  <2> QED
    BY <2>2, SetToSeqIs
<1>2. Len(ms) \in Nat /\ \A i \in 1..Len(ms) : ms[i] \in Unanswered
  BY <1>1, RangeOf
<1>3. AllAgain = [i \in 1..Len(ms) |-> Again(ms[i])]
  BY DEF AllAgain
<1> HIDE DEF ms
<1>4. \A m \in Unanswered : Again(m) \in DownPackets
  BY BrokerPacketsAre DEF Again, Unanswered
<1>5. AllAgain \in Seq(DownPackets) /\ Len(AllAgain) = Len(ms)
  BY <1>2, <1>3, <1>4
<1>6. ASSUME NEW p \in Range(AllAgain) PROVE \E m \in Unanswered : p = Again(m)
  <2>1. PICK i \in 1..Len(AllAgain) : AllAgain[i] = p
    BY <1>5, RangeOf
  <2> QED
    BY <1>2, <1>3, <1>5, <2>1
<1> QED
  BY <1>5, <1>6

LEMMA BrokerConnectsIs ==
  ASSUME BrokerConnects
  PROVE  down' = down \o (<<Ack("CONNACK", 0)>> \o AllAgain)
BY DEF BrokerConnects, AllAgain, Again, Unanswered

LEMMA BrokerConnectsCore ==
  ASSUME Core, BrokerConnects
  PROVE  Core'
<1> DEFINE c == Ack("CONNACK", 0)
           ps == <<c>> \o AllAgain
<1>1. c \in DownPackets
  <2>1. "CONNACK" \in PacketTypes \ {"PUBLISH"} /\ 0 \in Ids
    BY BoundsAssumption DEF PacketTypes, Ids
  <2> QED
    BY <2>1, AckTypesOf
<1> HIDE DEF c
<1>2. ps \in Seq(DownPackets)
  BY <1>1, OfOne, OfConcat, AllAgainIs
<1>3. down' = down \o ps
  BY BrokerConnectsIs DEF c
<1> HIDE DEF ps
<1>4. Wires'
  BY <1>2, <1>3, WiresOfBroker DEF BrokerConnects
<1>5. Values'
  BY DEF BrokerConnects
<1>6. Control'
  BY DEF BrokerConnects
<1> QED
  BY <1>4, <1>5, <1>6, ListsKept DEF BrokerConnects

LEMMA BrokerTakesPublishIs ==
  ASSUME Core, BrokerTakesPublish
  PROVE  /\ Head(up) \in UpPackets /\ Head(up) \in Range(up)
         /\ Head(up).type = "PUBLISH" /\ Head(up).m \in UpMsgs /\ Head(up).id \in Ids
         /\ \/ QosOf[Head(up).m] = 0 /\ down' = down \o <<>>
            \/ QosOf[Head(up).m] = 1 /\ down' = down \o <<Ack("PUBACK", Head(up).id)>>
            \/ QosOf[Head(up).m] = 2 /\ down' = down \o <<Ack("PUBREC", Head(up).id)>>
<1>1. /\ Head(up) \in UpPackets /\ Head(up) \in Range(up)
      /\ Head(up).type = "PUBLISH" /\ Head(up).m \in UpMsgs /\ Head(up).id \in Ids
  BY WiresHeads, PacketsAre, PacketFields DEF BrokerTakesPublish
<1>2. QosOf[Head(up).m] \in {0, 1, 2}
  BY <1>1, MessagesAssumption
<1>3. CASE QosOf[Head(up).m] = 0
  BY <1>1, <1>3 DEF BrokerTakesPublish
<1>4. CASE QosOf[Head(up).m] = 1
  BY <1>1, <1>4 DEF BrokerTakesPublish
<1>5. CASE QosOf[Head(up).m] = 2
  BY <1>1, <1>5 DEF BrokerTakesPublish
<1> HIDE DEF Core
<1> QED
  BY <1>2, <1>3, <1>4, <1>5

LEMMA BrokerTakesPublishCore ==
  ASSUME Core, BrokerTakesPublish
  PROVE  Core'
<1> DEFINE p == Head(up)
<1>1. p.m \in UpMsgs /\ p.id \in Ids
  BY BrokerTakesPublishIs
<1>2. \A t \in {"PUBACK", "PUBREC"} : <<Ack(t, p.id)>> \in Seq(DownPackets)
  BY <1>1, AnswersAre, OfOne DEF AckTypes
<1>3. PICK ps \in Seq(DownPackets) : down' = down \o ps
  <2>1. <<>> \in Seq(DownPackets)
    BY OfNothing
  <2> HIDE DEF Core
  <2> QED
    BY <1>2, <2>1, BrokerTakesPublishIs
<1>4. Wires'
  BY <1>3, WiresOfBroker DEF BrokerTakesPublish
<1>5. Values'
  BY <1>1 DEF BrokerTakesPublish, Delivered
<1>6. Control'
  BY DEF BrokerTakesPublish
<1> QED
  BY <1>4, <1>5, <1>6, ListsKept DEF BrokerTakesPublish

LEMMA BrokerReleasesCore ==
  ASSUME Core, BrokerReleases
  PROVE  Core'
<1>1. Head(up).id \in Ids
  BY WiresHeads, PacketsAre, PacketFields DEF BrokerReleases
<1>2. Ack("PUBCOMP", Head(up).id) \in DownPackets
  BY <1>1, AnswersAre DEF AckTypes
<1>3. <<Ack("PUBCOMP", Head(up).id)>> \in Seq(DownPackets)
  BY <1>2, OfOne
<1>4. Wires'
  BY <1>3, WiresOfBroker DEF BrokerReleases
<1>5. Values'
  BY DEF BrokerReleases
<1>6. Control'
  BY DEF BrokerReleases
<1> QED
  BY <1>4, <1>5, <1>6, ListsKept DEF BrokerReleases

LEMMA BrokerTakesAckCore ==
  ASSUME Core, BrokerTakesAck
  PROVE  Core'
<1>1. Head(up).id \in Ids
  BY WiresHeads, PacketsAre, PacketFields DEF BrokerTakesAck
<1>2. Ack("PUBREL", Head(up).id) \in DownPackets
  BY <1>1, AnswersAre DEF AckTypes
<1>3. PICK ps \in Seq(DownPackets) : down' = down \o ps
  <2>1. <<Ack("PUBREL", Head(up).id)>> \in Seq(DownPackets) /\ <<>> \in Seq(DownPackets)
    BY <1>2, OfOne, OfNothing
  <2>2. \/ down' = down \o <<Ack("PUBREL", Head(up).id)>>
        \/ down' = down \o <<>>
    BY DEF BrokerTakesAck
  <2> QED
    BY <2>1, <2>2
<1>4. Wires'
  BY <1>3, WiresOfBroker DEF BrokerTakesAck
<1>5. out' \in [DownMsgs -> {"new", "sent", "released", "done"}]
  BY DEF BrokerTakesAck
<1>6. Values'
  BY <1>5 DEF BrokerTakesAck
<1>7. Control'
  BY DEF BrokerTakesAck
<1> QED
  BY <1>4, <1>6, <1>7, ListsKept DEF BrokerTakesAck

LEMMA BrokerAnswersCore ==
  ASSUME Core, BrokerAnswers
  PROVE  Core'
<1> DEFINE id == Head(up).id
<1>1. id \in Ids
  BY WiresHeads, PacketsAre, PacketFields DEF BrokerAnswers
<1>2. PICK q \in DownPackets : down' = down \o <<q>>
  <2>1. \A r \in {"granted", "refused"} : Packet("SUBACK", id, r) \in DownPackets
    BY <1>1, PacketFields DEF DownPackets, PacketTypes, AckTypes, Payloads
  <2>2. Ack("UNSUBACK", id) \in DownPackets /\ Ack("PINGRESP", 0) \in DownPackets
    <3>1. {"UNSUBACK", "PINGRESP"} \subseteq PacketTypes \ {"PUBLISH"} /\ 0 \in Ids
      BY BoundsAssumption DEF PacketTypes, AckTypes, Ids
    <3> QED
      BY <1>1, <3>1, AckTypesOf
  <2>3. \/ \E r \in {"granted", "refused"} : down' = down \o <<Packet("SUBACK", id, r)>>
        \/ down' = down \o <<Ack("UNSUBACK", id)>>
        \/ down' = down \o <<Ack("PINGRESP", 0)>>
    BY DEF BrokerAnswers
  <2> QED
    BY <2>1, <2>2, <2>3
<1>3. <<q>> \in Seq(DownPackets)
  BY OfOne
<1>4. Wires'
  BY <1>2, <1>3, WiresOfBroker DEF BrokerAnswers
<1>5. Values'
  BY DEF BrokerAnswers
<1>6. Control'
  BY DEF BrokerAnswers
<1> QED
  BY <1>4, <1>5, <1>6, ListsKept DEF BrokerAnswers

LEMMA BrokerPublishesCore ==
  ASSUME Core, NEW m \in DownMsgs, BrokerPublishes(m)
  PROVE  Core'
<1>1. <<Packet("PUBLISH", BrokerId[m], m)>> \in Seq(DownPackets)
  BY BrokerPacketsAre, OfOne
<1>2. Wires'
  BY <1>1, WiresOfBroker DEF BrokerPublishes
<1>3. Values'
  BY DEF BrokerPublishes
<1>4. Control'
  BY DEF BrokerPublishes
<1> QED
  BY <1>2, <1>3, <1>4, ListsKept DEF BrokerPublishes
-----------------------------------------------------------------------------
LEMMA CoreInit == Init => Core
<1> SUFFICES ASSUME Init PROVE Core
  OBVIOUS
<1>1. Lists
  <2>1. /\ acks \in Seq(Entries) /\ installed \in Seq(Objects)
        /\ Len(acks) = 0 /\ Len(installed) = 0 /\ Range(installed) = {}
    BY OfNothing DEF Init
  <2> QED
    BY <2>1 DEF Lists, Unique, Once, Init
<1>2. Wires
  BY OfNothing, BoundsAssumption DEF Wires, Init
<1>3. Bad \in Packets
  BY PacketsAre
<1>4. Values
  BY <1>3, BoundsAssumption DEF Init, Ids
<1>5. Control
  BY PacketsAre, SetsAssumption DEF Init
<1> QED
  BY <1>1, <1>2, <1>4, <1>5

LEMMA CoreStep == Core /\ [Next]_vars => Core'
<1> SUFFICES ASSUME Core, [Next]_vars PROVE Core'
  OBVIOUS
<1>1. CASE UNCHANGED vars
  <2>1. Values' /\ Control'
    BY <1>1 DEF vars, history
  <2> QED
    BY <1>1, <2>1, ListsKept DEF vars, Wires
<1>2. ASSUME NEW u \in Users,
             \/ \E m \in UpMsgs : CallPublish(u, m)
             \/ \E t \in Topics : CallSubscribe(u, t) \/ CallUnsubscribe(u, t)
             \/ CallDisconnect(u) \/ Connect(u)
             \/ UserStep(u) \/ ConnectStep(u)
      PROVE  Core'
  <2>1. u \in Threads
    OBVIOUS
  <2> HIDE DEF Core, Threads
  <2> QED
    BY <1>2, <2>1, UserCallsCore, ConnectCore, SerializeCore, TooMuchCore, SendCore,
       RecordPublishCore, RecordSubscribeCore, RecordUnsubscribeCore, SetCleanSessionCore,
       SendConnectCore, WaitConnackCore, ConnectedCore, ConnectFailedCore
       DEF UserStep, ConnectStep
<1>3. ASSUME YieldStep PROVE Core'
  <2>1. Yield \in Threads
    OBVIOUS
  <2> HIDE DEF Core, Threads
  <2> QED
    BY <1>3, <2>1, ConnectCore, SendConnectCore, WaitConnackCore, ConnectedCore,
       ConnectFailedCore, ResubscribeCore, ScanAllCore, ScanCore, CleanSessionCore,
       HandlePubackPubcompCore, HandleSubackCore, HandleUnsubackCore, HandlePublishCore,
       RecordReleaseCore, HandlePubrecCore, HandlePubrelCore, YieldMovesCore
       DEF YieldStep, ConnectStep
<1>4. CASE LoseLink \/ BrokerStep
  <2> HIDE DEF Core
  <2> QED
    BY <1>4, YieldMovesCore, BrokerConnectsCore, BrokerTakesPublishCore, BrokerReleasesCore,
       BrokerTakesAckCore, BrokerAnswersCore DEF BrokerStep
<1>5. CASE \E m \in DownMsgs : BrokerPublishes(m)
  BY <1>5, BrokerPublishesCore
<1> QED
  BY <1>1, <1>2, <1>3, <1>4, <1>5 DEF Next

HIDE DEF Core, Values, Control, UserControl, YieldControl, UserPlaces, YieldPlaces, Connecting
HIDE DEF Call, Return, Release, Crash, Fault, Packs, BrokerReads, BrokerSends
-----------------------------------------------------------------------------
(* The QoS 2 handshake for message m of the broker.                        *)

Dead == pc[Yield] \in {"ended", "crashed"}
Waits(m) == Holds(acks, "PUBREL", BrokerId[m])
AtHand(m) == pc[Yield] = "record" /\ mine[Yield].m = m
IsRelease(p, m) == p.type = "PUBREL" /\ p.id = BrokerId[m]
Carries(p, m) == p.type = "PUBLISH" /\ p.m = m

Handshake(m) ==
  /\ \A p \in Range(down) : /\ Carries(p, m) => out[m] # "new"
                            /\ IsRelease(p, m) => out[m] \in {"released", "done"}
  /\ \A p \in Range(up) : p.type = "PUBREC" /\ p.id = BrokerId[m] => out[m] # "new"
  /\ Waits(m) \/ AtHand(m) => out[m] # "new"
  /\ \A p, q \in Range(down) : IsRelease(p, m) /\ Carries(q, m) => ~Behind(down, p, q)
  /\ received[m] <= 1
  /\ received[m] # 0 =>
       /\ out[m] # "new"
       /\ \/ Waits(m)
          \/ Dead
          \/ /\ out[m] \in {"released", "done"} /\ ~AtHand(m)
             /\ \A p \in Range(down) : ~Carries(p, m)

SavedAnswers ==
  \A e \in Range(acks) : e.payload.type = "PUBREC" => e.type = "PUBREL" /\ e.payload.id = e.id

Handshakes ==
  /\ \A m \in DownMsgs : out[m] = "released" => QosOf[m] = 2
  /\ SavedAnswers
  /\ \A m \in DownMsgs : QosOf[m] = 2 => Handshake(m)

(* Most steps neither deliver nor answer a message, and forget no PUBREL   *)
(* that is waited for while the thread lives.                              *)
DownQuiet ==
  /\ \A p \in Range(down') : p.type \in {"PUBLISH", "PUBREL"} => p \in Range(down)
  /\ \A p, q : p.type = "PUBREL" /\ q.type = "PUBLISH" /\ Behind(down', p, q) => Behind(down, p, q)
UpQuiet ==
  \A p \in Range(up') : p.type = "PUBREC" =>
    p \in Range(up) \/ Holds(acks, "PUBREL", p.id)
AcksQuiet ==
  /\ \A e \in Range(acks') : e.type = "PUBREL" \/ e.payload.type = "PUBREC" => e \in Range(acks)
  /\ Dead' \/ \A e \in Range(acks) : e.type = "PUBREL" => e \in Range(acks')
YieldQuiet ==
  /\ pc'[Yield] = "record" => pc[Yield] = "record" /\ mine'[Yield] = mine[Yield]
  /\ Dead => Dead'

LEMMA HandshakeQuiet ==
  ASSUME NEW m \in DownMsgs, Handshake(m), UNCHANGED out, received'[m] = received[m],
         DownQuiet, UpQuiet, AcksQuiet, YieldQuiet
  PROVE  Handshake(m)'
<1>1. Waits(m)' => Waits(m)
  BY DEF AcksQuiet, Waits, Holds
<1>2. AtHand(m)' => AtHand(m)
  BY DEF YieldQuiet, AtHand
<1>3. \A p \in Range(down') : Carries(p, m) \/ IsRelease(p, m) => p \in Range(down)
  BY DEF DownQuiet, Carries, IsRelease
<1>4. \A p \in Range(up') : p.type = "PUBREC" /\ p.id = BrokerId[m] => p \in Range(up) \/ Waits(m)
  BY DEF UpQuiet, Waits
<1>5. \A p, q : IsRelease(p, m) /\ Carries(q, m) /\ Behind(down', p, q) => Behind(down, p, q)
  BY DEF DownQuiet, Carries, IsRelease
<1>6. Waits(m) => Waits(m)' \/ Dead'
  BY DEF AcksQuiet, Waits, Holds
<1>7. Dead => Dead'
  BY DEF YieldQuiet
<1>8. \A p : (Carries(p, m)' <=> Carries(p, m)) /\ (IsRelease(p, m)' <=> IsRelease(p, m))
  BY DEF Carries, IsRelease
<1>9. /\ \A p \in Range(down)' : /\ Carries(p, m) => out'[m] # "new"
                                 /\ IsRelease(p, m) => out'[m] \in {"released", "done"}
      /\ \A p \in Range(up)' : p.type = "PUBREC" /\ p.id = BrokerId[m] => out'[m] # "new"
      /\ Waits(m)' \/ AtHand(m)' => out'[m] # "new"
  BY <1>1, <1>2, <1>3, <1>4 DEF Handshake
<1>10. \A p, q \in Range(down)' : IsRelease(p, m) /\ Carries(q, m) => ~Behind(down', p, q)
  BY <1>3, <1>5 DEF Handshake
<1>11. /\ received'[m] <= 1
       /\ received'[m] # 0 =>
            /\ out'[m] # "new"
            /\ \/ Waits(m)' \/ Dead'
               \/ /\ out'[m] \in {"released", "done"} /\ ~AtHand(m)'
                  /\ \A p \in Range(down)' : ~Carries(p, m)
  BY <1>2, <1>3, <1>6, <1>7 DEF Handshake
<1> QED
  BY <1>8, <1>9, <1>10, <1>11 DEF Handshake

LEMMA HandshakesQuiet ==
  ASSUME Handshakes, UNCHANGED <<out, received>>, DownQuiet, UpQuiet, AcksQuiet, YieldQuiet
  PROVE  Handshakes'
<1>1. SavedAnswers'
  BY DEF Handshakes, SavedAnswers, AcksQuiet
<1> QED
  BY <1>1, HandshakeQuiet DEF Handshakes

LEMMA DownIsQuiet ==
  ASSUME Wires
  PROVE  /\ down' = down \/ down' = <<>> \/ (down # <<>> /\ down' = Tail(down)) => DownQuiet
         /\ \A ps \in Seq(DownPackets) :
              /\ down' = down \o ps
              /\ \A p \in Range(ps) : p.type \notin {"PUBLISH", "PUBREL"}
              => DownQuiet
<1>1. down \in Seq(DownPackets)
  BY DEF Wires
<1>2. down' = <<>> => DownQuiet
  BY OfNothing DEF DownQuiet
<1>3. down # <<>> /\ down' = Tail(down) => DownQuiet
  BY <1>1, OfTail DEF DownQuiet
<1>4. ASSUME NEW ps \in Seq(DownPackets), down' = down \o ps,
             \A p \in Range(ps) : p.type \notin {"PUBLISH", "PUBREL"}
      PROVE  DownQuiet
  <2> DEFINE w == down \o ps
  <2>1. /\ Range(w) = Range(down) \union Range(ps)
        /\ \A p, q : Behind(w, p, q) =>
             Behind(down, p, q) \/ Behind(ps, p, q) \/ (p \in Range(down) /\ q \in Range(ps))
    BY <1>1, OfConcat
  <2>2. \A p, q : Behind(ps, p, q) => q \in Range(ps)
    BY RangeOf DEF Behind
  <2> HIDE DEF w
  <2>3. down' = w
    BY <1>4 DEF w
  <2> QED
    BY <1>4, <2>1, <2>2, <2>3 DEF DownQuiet
<1> QED
  BY <1>2, <1>3, <1>4 DEF DownQuiet

LEMMA UpIsQuiet ==
  ASSUME Wires
  PROVE  /\ up' = up \/ up' = <<>> \/ (up # <<>> /\ up' = Tail(up)) => UpQuiet
         /\ \A p \in UpPackets : p.type # "PUBREC" /\ (Sent(p) \/ NotSent) => UpQuiet
<1>1. up \in Seq(UpPackets) /\ Len(up) <= MaxWire
  BY DEF Wires
<1>2. up' = <<>> => UpQuiet
  BY OfNothing DEF UpQuiet
<1>3. up # <<>> /\ up' = Tail(up) => UpQuiet
  BY <1>1, OfTail DEF UpQuiet
<1>4. \A p \in UpPackets : p.type # "PUBREC" /\ (Sent(p) \/ NotSent) => UpQuiet
  BY <1>1, SentIs DEF UpQuiet
<1> QED
  BY <1>2, <1>3, <1>4 DEF UpQuiet

LEMMA AcksAreQuiet ==
  ASSUME Lists
  PROVE  /\ acks' = acks => AcksQuiet
         /\ \A e \in Entries : /\ acks' = Recorded(acks, e)
                               /\ e.type # "PUBREL" /\ e.payload.type # "PUBREC"
                               => AcksQuiet
         /\ \A t, id : acks' = Unrecorded(acks, t, id) /\ t # "PUBREL" => AcksQuiet
         /\ \A i \in 1..Len(acks) :
              acks' = RemoveAt(acks, i) /\ acks[i].type # "PUBREL" => AcksQuiet
<1>1. acks \in Seq(Entries) /\ Unique(acks)
  BY DEF Lists
<1>2. ASSUME NEW e \in Entries, acks' = Recorded(acks, e),
             e.type # "PUBREL" /\ e.payload.type # "PUBREC"
      PROVE  AcksQuiet
  <2>1. acks' = acks \/ Range(acks') = Range(acks) \union {e}
    BY <1>1, <1>2, OfRecorded
  <2> QED
    BY <1>2, <2>1 DEF AcksQuiet
<1>3. ASSUME NEW t, NEW id, acks' = Unrecorded(acks, t, id), t # "PUBREL"
      PROVE  AcksQuiet
  <2>1. Range(acks') = {x \in Range(acks) : x.type # t \/ x.id # id}
    BY <1>1, <1>3, OfUnrecorded
  <2> QED
    BY <1>3, <2>1 DEF AcksQuiet
<1>4. ASSUME NEW i \in 1..Len(acks), acks' = RemoveAt(acks, i), acks[i].type # "PUBREL"
      PROVE  AcksQuiet
  <2>1. Range(acks') = Range(acks) \ {acks[i]}
    BY <1>1, <1>4, OfEntryRemoved
  <2> QED
    BY <1>4, <2>1 DEF AcksQuiet
<1> QED
  BY <1>2, <1>3, <1>4 DEF AcksQuiet

USE DEF Core, Values, Control, UserControl, YieldControl, UserPlaces, YieldPlaces, Connecting
USE DEF Return, Release, Crash, Fault, Packs, BrokerReads, BrokerSends

LEMMA MineIsNoAnswer ==
  ASSUME Core, NEW u \in Users, pc[u] \in {"send", "record"}
  PROVE  /\ mine[u] \in UpPackets /\ Buffered(mine[u]) \in UpPackets
         /\ mine[u].type # "PUBREC" /\ Buffered(mine[u]).type # "PUBREC"
<1>1. mine[u] \in UpPackets /\ mine[u].type # "PUBREC"
  BY PacketsAre
<1> QED
  BY <1>1, PacketsAre, BufferedIs

LEMMA HandshakesUser ==
  ASSUME Core, Handshakes, NEW u \in Users
  PROVE  /\ \A m \in UpMsgs : CallPublish(u, m) => Handshakes'
         /\ \A t \in Topics : CallSubscribe(u, t) \/ CallUnsubscribe(u, t) => Handshakes'
         /\ CallDisconnect(u) => Handshakes'
         /\ UserStep(u) => Handshakes'
<1>1. ASSUME NEW t, NEW m, Call(u, t, m) PROVE Handshakes'
  <2>1. YieldQuiet
    BY <1>1, SetsAssumption DEF Call, YieldQuiet, Dead
  <2> QED
    BY <1>1, <2>1, DownIsQuiet, UpIsQuiet, AcksAreQuiet, HandshakesQuiet DEF Call
<1>2. ASSUME CallDisconnect(u) PROVE Handshakes'
  <2>1. YieldQuiet
    BY <1>2, SetsAssumption DEF YieldQuiet, Dead, CallDisconnect
  <2> QED
    BY <1>2, <2>1, DownIsQuiet, UpIsQuiet, AcksAreQuiet, HandshakesQuiet DEF CallDisconnect
<1>3. ASSUME Serialize(u) \/ TooMuch(u) \/ SetCleanSession(u) PROVE Handshakes'
  <2>1. YieldQuiet
    BY <1>3, SetsAssumption DEF YieldQuiet, Dead, Serialize, TooMuch, SetCleanSession
  <2> QED
    BY <1>3, <2>1, DownIsQuiet, UpIsQuiet, AcksAreQuiet, HandshakesQuiet
       DEF Serialize, TooMuch, SetCleanSession
<1>4. ASSUME Send(u) PROVE Handshakes'
  <2>1. YieldQuiet
    BY <1>4, SetsAssumption DEF YieldQuiet, Dead, Send
  <2>2. UpQuiet
    BY <1>4, MineIsNoAnswer, UpIsQuiet DEF Send
  <2> QED
    BY <1>4, <2>1, <2>2, DownIsQuiet, AcksAreQuiet, HandshakesQuiet DEF Send
<1>5. ASSUME RecordPublish(u) PROVE Handshakes'
  <2> DEFINE p == mine[u]
             e == Entry(IF QosOf[p.m] = 1 THEN "PUBACK" ELSE "PUBREC", p.id, Buffered(p), None)
  <2>1. YieldQuiet
    BY <1>5, SetsAssumption DEF YieldQuiet, Dead, RecordPublish
  <2>2. /\ p \in UpPackets /\ p.id \in Ids /\ Buffered(p) \in UpPackets
        /\ Buffered(p).type # "PUBREC"
    BY <1>5, MineIsNoAnswer, PacketsAre, PacketFields DEF RecordPublish
  <2>3. e \in Entries /\ e.type # "PUBREL" /\ e.payload.type # "PUBREC"
    <3>1. {"PUBACK", "PUBREC"} \subseteq AckTypes \ SubTypes
      BY DEF AckTypes, SubTypes
    <3> QED
      BY <2>2, <3>1, EntryFields
  <2>4. acks' = acks \/ acks' = Recorded(acks, e)
    BY <1>5 DEF RecordPublish
  <2> HIDE DEF e
  <2>5. AcksQuiet
    BY <2>3, <2>4, AcksAreQuiet
  <2> QED
    BY <1>5, <2>1, <2>5, DownIsQuiet, UpIsQuiet, HandshakesQuiet DEF RecordPublish
<1>6. ASSUME RecordSubscribe(u) \/ RecordUnsubscribe(u) PROVE Handshakes'
  <2>1. YieldQuiet
    BY <1>6, SetsAssumption DEF YieldQuiet, Dead, RecordSubscribe, RecordUnsubscribe
  <2>2. /\ mine[u] \in UpPackets /\ mine[u].id \in Ids /\ mine[u].type # "PUBREC"
    BY <1>6, MineIsNoAnswer, PacketsAre, PacketFields DEF RecordSubscribe, RecordUnsubscribe
  <2>3. acks' = acks \/ \E t \in SubTypes, o \in Objects :
                          acks' = Recorded(acks, Entry(t, mine[u].id, mine[u], o))
    <3>1. CASE RecordSubscribe(u)
      BY <3>1 DEF RecordSubscribe, Free, SubTypes
    <3>2. CASE RecordUnsubscribe(u)
      <4> DEFINE found == HandlersOf(mine[u].m)
      <4>1. found # {} => installed[Min(found)] \in Objects
        BY FoundHandler
      <4>2. \/ acks' = acks
            \/ /\ found # {}
               /\ acks' = Recorded(acks, Entry("UNSUBACK", mine[u].id, mine[u], installed[Min(found)]))
        BY <3>2 DEF RecordUnsubscribe
      <4> HIDE DEF found
      <4> QED
        BY <4>1, <4>2 DEF SubTypes
    <3> QED
      BY <1>6, <3>1, <3>2
  <2>4. AcksQuiet
    <3>1. ASSUME NEW t \in SubTypes, NEW o \in Objects,
                 acks' = Recorded(acks, Entry(t, mine[u].id, mine[u], o))
          PROVE  AcksQuiet
      <4> DEFINE e == Entry(t, mine[u].id, mine[u], o)
      <4>1. e \in Entries /\ e.type # "PUBREL" /\ e.payload.type # "PUBREC"
        BY <2>2, EntryFields DEF SubTypes
      <4> HIDE DEF e
      <4> QED
        BY <3>1, <4>1, AcksAreQuiet DEF e
    <3> QED
      BY <2>3, <3>1, AcksAreQuiet
  <2> QED
    BY <1>6, <2>1, <2>4, DownIsQuiet, UpIsQuiet, HandshakesQuiet
       DEF RecordSubscribe, RecordUnsubscribe
<1> QED
  BY <1>1, <1>2, <1>3, <1>4, <1>5, <1>6
     DEF CallPublish, CallSubscribe, CallUnsubscribe, UserStep

LEMMA HandshakesConnect ==
  ASSUME Core, Handshakes, NEW t \in Threads, Connect(t) \/ ConnectStep(t)
  PROVE  Handshakes'
<1>1. YieldQuiet
  BY SetsAssumption DEF YieldQuiet, Dead, Connect, ConnectStep, SendConnect, WaitConnack, Connected,
     ConnectFailed
<1>2. Ack("CONNECT", 0) \in UpPackets /\ Ack("CONNECT", 0).type # "PUBREC"
  <2>1. "CONNECT" \in PacketTypes \ {"PUBLISH"} /\ 0 \in Ids
    BY BoundsAssumption DEF PacketTypes, Ids
  <2> HIDE DEF Core
  <2> QED
    BY <2>1, AckTypesOf, PacketFields
<1>3. CASE Connect(t)
  BY <1>1, <1>3, DownIsQuiet, UpIsQuiet, AcksAreQuiet, HandshakesQuiet DEF Connect
<1>4. CASE SendConnect(t)
  BY <1>1, <1>2, <1>4, DownIsQuiet, UpIsQuiet, AcksAreQuiet, HandshakesQuiet DEF SendConnect
<1>5. CASE WaitConnack(t) \/ Connected(t) \/ ConnectFailed(t)
  BY <1>1, <1>5, DownIsQuiet, UpIsQuiet, AcksAreQuiet, HandshakesQuiet
     DEF WaitConnack, Connected, ConnectFailed
<1> QED
  BY <1>3, <1>4, <1>5 DEF ConnectStep

(* Steps of the yield thread, and breaking connections, that have to do    *)
(* with no QoS 2 message of the broker.                                    *)
LEMMA HandshakesYieldMoves ==
  ASSUME Core, Handshakes,
         \/ ResubscribeDone \/ ScanAllDone \/ ScanDone \/ Read \/ ReadNothing
         \/ HandleNotConnected \/ HandlePingresp
         \/ AliveNothingDue \/ PingDue \/ SendPing \/ PingUnanswered \/ Disconnected
         \/ LoseLink \/ BrokerCloses
  PROVE  Handshakes'
<1>1. YieldQuiet
  BY DEF YieldQuiet, Dead, ResubscribeDone, ScanAllDone, ScanDone, Read, ReadNothing,
     HandleNotConnected, HandlePingresp, AliveNothingDue, PingDue, SendPing, PingUnanswered,
     Disconnected, LoseLink, BrokerCloses
<1>2. UNCHANGED <<acks, out, received>>
  BY DEF ResubscribeDone, ScanAllDone, ScanDone, Read, ReadNothing,
     HandleNotConnected, HandlePingresp, AliveNothingDue, PingDue, SendPing, PingUnanswered,
     Disconnected, LoseLink, BrokerCloses
<1>3. down' = down \/ down' = <<>> \/ (down # <<>> /\ down' = Tail(down))
  BY DEF ResubscribeDone, ScanAllDone, ScanDone, Read, ReadNothing,
     HandleNotConnected, HandlePingresp, AliveNothingDue, PingDue, SendPing, PingUnanswered,
     Disconnected, LoseLink, BrokerCloses
<1>4. UpQuiet
  <2>1. Buffered(PingReq) \in UpPackets /\ Buffered(PingReq).type # "PUBREC"
    <3>1. "PINGREQ" \in PacketTypes \ {"PUBLISH"} /\ 0 \in Ids
      BY BoundsAssumption DEF PacketTypes, Ids
    <3> HIDE DEF Core
    <3>2. PingReq \in UpPackets /\ PingReq.type # "PUBREC"
      BY <3>1, AckTypesOf, PacketFields DEF PingReq
    <3> QED
      BY <3>2, BufferedIs, PacketsAre
  <2>2. up' = up \/ up' = <<>> \/ Sent(Buffered(PingReq)) \/ NotSent
    BY DEF ResubscribeDone, ScanAllDone, ScanDone, Read, ReadNothing,
     HandleNotConnected, HandlePingresp, AliveNothingDue, PingDue, SendPing, PingUnanswered,
     Disconnected, LoseLink, BrokerCloses
  <2> QED
    BY <2>1, <2>2, UpIsQuiet
<1> QED
  BY <1>1, <1>2, <1>3, <1>4, DownIsQuiet, AcksAreQuiet, HandshakesQuiet

LEMMA HandshakesResubscribe ==
  ASSUME Core, Handshakes, Resubscribe
  PROVE  Handshakes'
<1> DEFINE p == Packet("SUBSCRIBE", NextId, topicOf[installed[cursor]])
<1>1. p \in UpPackets /\ p.type = "SUBSCRIBE" /\ p.id \in Ids
  <2>1. cursor \in 1..Len(installed)
    BY RangeOf DEF Resubscribe, Lists
  <2>2. topicOf[installed[cursor]] \in Topics
    BY <2>1, RangeOf DEF Lists
  <2>3. "SUBSCRIBE" \in PacketTypes /\ NextId \in Ids /\ topicOf[installed[cursor]] \in Payloads
    BY <2>2, NextIdType DEF PacketTypes, Payloads
  <2> QED
    BY <2>3, PacketFields DEF UpPackets
<1>2. /\ up' = up \/ Sent(p) \/ NotSent
      /\ acks' = acks \/ \E o \in Objects : acks' = Recorded(acks, Entry("SUBACK", p.id, p, o))
  BY DEF Resubscribe, Free
<1> HIDE DEF p
<1>3. UpQuiet
  BY <1>1, <1>2, UpIsQuiet
<1>4. AcksQuiet
  <2>1. ASSUME NEW o \in Objects, acks' = Recorded(acks, Entry("SUBACK", p.id, p, o))
        PROVE  AcksQuiet
    <3> DEFINE e == Entry("SUBACK", p.id, p, o)
    <3>1. e \in Entries /\ e.type # "PUBREL" /\ e.payload.type # "PUBREC"
      BY <1>1, EntryFields DEF SubTypes
    <3> HIDE DEF e
    <3> QED
      BY <2>1, <3>1, AcksAreQuiet DEF e
  <2> QED
    BY <1>2, <2>1, AcksAreQuiet
<1>5. YieldQuiet
  BY DEF YieldQuiet, Dead, Resubscribe
<1> QED
  BY <1>3, <1>4, <1>5, DownIsQuiet, HandshakesQuiet DEF Resubscribe

(* A saved PUBREC goes out only while its PUBREL is waited for.            *)
LEMMA HandshakesScans ==
  ASSUME Core, Handshakes, ScanAll \/ Scan
  PROVE  Handshakes'
<1>1. \/ \E i \in 1..Len(acks) : Resend(acks[i]) \/ Expire(i)
      \/ UNCHANGED <<acks, up>>
  <2>1. CASE ScanAll
    <3>1. cursor \in 1..Len(acks)
      BY <2>1, RangeOf DEF ScanAll, Lists
    <3> QED
      BY <2>1, <3>1 DEF ScanAll
  <2>2. CASE Scan
    BY <2>2 DEF Scan
  <2> QED
    BY <2>1, <2>2
<1>2. YieldQuiet
  BY DEF YieldQuiet, Dead, ScanAll, Scan
<1>3. DownQuiet
  BY DownIsQuiet DEF ScanAll, Scan
<1>4. UNCHANGED <<out, received>>
  BY DEF ScanAll, Scan
<1>5. ASSUME NEW i \in 1..Len(acks), Resend(acks[i])
      PROVE  UpQuiet /\ AcksQuiet
  <2> DEFINE p == acks[i].payload
  <2>1. p \in UpPackets /\ acks[i] \in Range(acks)
    BY AcksAre
  <2>2. p.type = "PUBREC" => acks[i].type = "PUBREL" /\ p.id = acks[i].id
    BY <2>1 DEF Handshakes, SavedAnswers
  <2>3. Range(up') \subseteq Range(up) \union {p}
    BY <1>5, <2>1, SentIs DEF Wires, Resend
  <2>4. UpQuiet
    BY <2>1, <2>2, <2>3 DEF UpQuiet, Holds
  <2> QED
    BY <1>5, <2>4, AcksAreQuiet DEF Resend
<1>6. ASSUME NEW i \in 1..Len(acks), Expire(i)
      PROVE  UpQuiet /\ AcksQuiet
  BY <1>6, UpIsQuiet, AcksAreQuiet DEF Expire, SubTypes
<1>7. UpQuiet /\ AcksQuiet
  BY <1>1, <1>5, <1>6, UpIsQuiet, AcksAreQuiet
<1> QED
  BY <1>2, <1>3, <1>4, <1>7, HandshakesQuiet

LEMMA HandshakesCleanSession ==
  ASSUME Core, Handshakes, CleanSession
  PROVE  Handshakes'
<1>1. Range(acks') = {}
  BY OfNothing DEF CleanSession
<1>2. Dead' /\ YieldQuiet
  BY SetsAssumption DEF CleanSession, Dead, YieldQuiet
<1>3. AcksQuiet
  BY <1>1, <1>2 DEF AcksQuiet
<1> QED
  BY <1>2, <1>3, DownIsQuiet, UpIsQuiet, HandshakesQuiet DEF CleanSession

LEMMA HandshakesAnswers ==
  ASSUME Core, Handshakes,
         HandlePubackPubcomp \/ HandleSuback \/ HandleUnsuback \/ HandlePubrec
  PROVE  Handshakes'
<1>1. YieldQuiet
  BY DEF YieldQuiet, Dead, HandlePubackPubcomp, HandleSuback, HandleUnsuback, HandlePubrec
<1>2. DownQuiet
  BY DownIsQuiet DEF HandlePubackPubcomp, HandleSuback, HandleUnsuback, HandlePubrec
<1>3. UNCHANGED <<out, received>>
  BY DEF HandlePubackPubcomp, HandleSuback, HandleUnsuback, HandlePubrec
<1>4. CASE HandlePubackPubcomp \/ HandleSuback \/ HandleUnsuback
  <2>1. up' = up
    BY <1>4 DEF HandlePubackPubcomp, HandleSuback, HandleUnsuback
  <2>2. \E t \in {"PUBACK", "PUBCOMP", "SUBACK", "UNSUBACK"} :
          acks' = Unrecorded(acks, t, Head(down).id)
    BY <1>4 DEF HandlePubackPubcomp, HandleSuback, HandleUnsuback
  <2>3. AcksQuiet
    BY <2>2, AcksAreQuiet
  <2> QED
    BY <1>1, <1>2, <1>3, <2>1, <2>3, UpIsQuiet, HandshakesQuiet
<1>5. CASE HandlePubrec
  <2> DEFINE id == Head(down).id
             release == Ack("PUBREL", id)
             e == Entry("PUBCOMP", id, release, None)
             mid == Recorded(acks, e)
  <2>1. id \in Ids
    BY <1>5, WiresHeads, PacketsAre, PacketFields DEF HandlePubrec
  <2>2. release \in UpPackets /\ release.type = "PUBREL"
    BY <2>1, AnswersAre, PacketFields DEF AckTypes
  <2>3. e \in Entries /\ e.type = "PUBCOMP" /\ e.payload = release
    <3>1. "PUBCOMP" \in AckTypes \ SubTypes
      BY DEF AckTypes, SubTypes
    <3> QED
      BY <2>1, <2>2, <3>1, EntryFields
  <2>4. acks' = Unrecorded(mid, "PUBREC", id) /\ (up' = up \/ Sent(release) \/ NotSent)
    BY <1>5 DEF HandlePubrec
  <2> HIDE DEF release, e
  <2>5. /\ mid \in Seq(Entries) /\ Unique(mid)
        /\ Range(mid) = Range(acks) \/ Range(mid) = Range(acks) \union {e}
    <3>1. acks \in Seq(Entries) /\ Unique(acks)
      BY DEF Lists
    <3> HIDE DEF Core
    <3>2. /\ mid \in Seq(Entries) /\ Unique(mid)
          /\ mid = acks \/ Range(mid) = Range(acks) \union {e}
      BY <2>3, <3>1, OfRecorded
    <3> QED
      BY <3>2
  <2> HIDE DEF mid
  <2>6. Range(acks') = {x \in Range(mid) : x.type # "PUBREC" \/ x.id # id}
    BY <2>4, <2>5, OfUnrecorded
  <2>7. AcksQuiet
    BY <2>2, <2>3, <2>5, <2>6 DEF AcksQuiet
  <2> QED
    BY <1>1, <1>2, <1>3, <2>2, <2>4, <2>7, UpIsQuiet, HandshakesQuiet
<1> QED
  BY <1>4, <1>5

LEMMA HandshakesBrokerReplies ==
  ASSUME Core, Handshakes, BrokerTakesPublish \/ BrokerReleases \/ BrokerAnswers
  PROVE  Handshakes'
<1>1. /\ UNCHANGED <<acks, out, received, pc, mine>>
      /\ up # <<>> /\ up' = Tail(up)
  BY DEF BrokerTakesPublish, BrokerReleases, BrokerAnswers
<1> DEFINE id == Head(up).id
<1>2. Head(up) \in UpPackets /\ id \in Ids
  BY <1>1, WiresHeads, PacketsAre, PacketFields
<1>3. \/ down' = down \o <<>>
      \/ \E q \in DownPackets : q.type \notin {"PUBLISH", "PUBREL"} /\ down' = down \o <<q>>
  <2>1. \A r \in {"granted", "refused"} : /\ Packet("SUBACK", id, r) \in DownPackets
                                          /\ Packet("SUBACK", id, r).type = "SUBACK"
    BY <1>2, PacketFields DEF DownPackets, PacketTypes, AckTypes, Payloads
  <2>2. \A t \in {"UNSUBACK", "PUBACK", "PUBREC", "PUBCOMP"} :
          Ack(t, id) \in DownPackets /\ Ack(t, id).type = t
    BY <1>2, AnswersAre, PacketFields DEF AckTypes
  <2>3. Ack("PINGRESP", 0) \in DownPackets /\ Ack("PINGRESP", 0).type = "PINGRESP"
    <3>1. "PINGRESP" \in PacketTypes \ {"PUBLISH"} /\ 0 \in Ids
      BY BoundsAssumption DEF PacketTypes, Ids
    <3> HIDE DEF Core
    <3> QED
      BY <3>1, AckTypesOf, PacketFields
  <2>4. \/ \E r \in {"granted", "refused"} : down' = down \o <<Packet("SUBACK", id, r)>>
        \/ \E t \in {"UNSUBACK", "PUBACK", "PUBREC", "PUBCOMP"} : down' = down \o <<Ack(t, id)>>
        \/ down' = down \o <<Ack("PINGRESP", 0)>>
        \/ down' = down \o <<>>
    <3> HIDE DEF Core
    <3>1. CASE BrokerTakesPublish
      BY <3>1, BrokerTakesPublishIs
    <3>2. CASE BrokerReleases \/ BrokerAnswers
      BY <3>2 DEF BrokerReleases, BrokerAnswers
    <3> QED
      BY <3>1, <3>2
  <2> QED
    BY <2>1, <2>2, <2>3, <2>4
<1>4. DownQuiet
  <2>1. CASE down' = down \o <<>>
    <3>1. <<>> \in Seq(DownPackets) /\ Range(<<>>) = {}
      BY OfNothing
    <3> QED
      BY <2>1, <3>1, DownIsQuiet
  <2>2. ASSUME NEW q \in DownPackets, q.type \notin {"PUBLISH", "PUBREL"}, down' = down \o <<q>>
        PROVE  DownQuiet
    <3> DEFINE ps == <<q>>
    <3>1. ps \in Seq(DownPackets) /\ Range(ps) = {q} /\ down' = down \o ps
      BY <2>2, OfOne
    <3> HIDE DEF ps
    <3> QED
      BY <2>2, <3>1, DownIsQuiet
  <2> QED
    BY <1>3, <2>1, <2>2
<1>5. YieldQuiet
  BY <1>1 DEF YieldQuiet, Dead
<1> QED
  BY <1>1, <1>4, <1>5, UpIsQuiet, AcksAreQuiet, HandshakesQuiet

LEMMA SameId ==
  ASSUME NEW m \in DownMsgs, NEW n \in DownMsgs, QosOf[m] = 2, QosOf[n] = 2,
         BrokerId[m] = BrokerId[n]
  PROVE  m = n
BY BrokerIdsAssumption

(* A QoS 2 message is at hand when its PUBREC is out, and not before.      *)
LEMMA HandshakesPublish ==
  ASSUME Core, Handshakes, HandlePublish
  PROVE  Handshakes'
<1> DEFINE p == Head(down)
           answer == Ack(IF QosOf[p.m] = 1 THEN "PUBACK" ELSE "PUBREC", p.id)
<1>1. /\ p \in DownPackets /\ p \in Range(down) /\ p.type = "PUBLISH" /\ p.m \in DownMsgs
      /\ p.id = BrokerId[p.m] /\ p.id \in Ids
  BY WiresHeads, PacketsAre, PacketFields DEF HandlePublish
<1>2. answer \in UpPackets /\ answer.id = p.id
  BY <1>1, AnswersAre, PacketFields DEF AckTypes
<1>3. UNCHANGED <<acks, out>> /\ pc[Yield] = "read" /\ down # <<>> /\ down' = Tail(down)
  BY DEF HandlePublish
<1>4. SavedAnswers'
  BY <1>3 DEF Handshakes, SavedAnswers
<1>5. DownQuiet /\ AcksQuiet
  BY <1>3, DownIsQuiet, AcksAreQuiet
<1>6. CASE QosOf[p.m] # 2
  <2>1. YieldQuiet
    BY <1>1, <1>6, MessagesAssumption DEF HandlePublish, YieldQuiet, Dead
  <2>2. answer.type = "PUBACK" \/ up' = up
    BY <1>1, <1>6, PacketFields, MessagesAssumption DEF HandlePublish
  <2>3. up' = up \/ Sent(answer) \/ NotSent
    BY DEF HandlePublish
  <2>4. UpQuiet
    BY <1>2, <2>2, <2>3, UpIsQuiet
  <2>5. \A m \in DownMsgs : QosOf[m] = 2 => received'[m] = received[m]
    BY <1>1, <1>6 DEF HandlePublish, Received
  <2>6. ASSUME NEW m \in DownMsgs, QosOf[m] = 2 PROVE Handshake(m)'
    <3>1. Handshake(m) /\ received'[m] = received[m]
      BY <2>5, <2>6 DEF Handshakes
    <3> QED
      BY <1>3, <1>5, <2>1, <2>4, <3>1, HandshakeQuiet
  <2> QED
    BY <1>3, <1>4, <2>6 DEF Handshakes
<1>7. CASE QosOf[p.m] = 2
  <2>1. UNCHANGED received
    BY <1>7 DEF HandlePublish
  <2>2. Range(up') \subseteq Range(up) \union {answer}
    BY <1>2, <1>7, SentIs DEF HandlePublish, Wires
  <2>3. ~Dead /\ ~(pc[Yield] = "record")
    BY <1>3 DEF Dead
  <2>4. pc'[Yield] = "record" => mine'[Yield] = p
    BY <1>3, <1>7 DEF HandlePublish
  <2> HIDE DEF p, answer
  <2>5. ASSUME NEW m \in DownMsgs, QosOf[m] = 2 PROVE Handshake(m)'
    <3>1. Handshake(m)
      BY <2>5 DEF Handshakes
    <3>2. Waits(m)' <=> Waits(m)
      BY <1>3 DEF Waits
    <3>3. AtHand(m)' => Carries(p, m)
      BY <1>1, <2>4 DEF AtHand, Carries
    <3>4. BrokerId[m] = p.id => Carries(p, m)
      BY <1>1, <1>7, <2>5, SameId DEF Carries
    <3>5. Carries(p, m) => out[m] # "new"
      BY <1>1, <3>1 DEF Handshake
    <3>6. \A q \in Range(up') : q.type = "PUBREC" /\ q.id = BrokerId[m] => out[m] # "new"
      BY <1>2, <2>2, <3>1, <3>4, <3>5 DEF Handshake
    <3>7. \A q \in Range(down') : Carries(q, m) \/ IsRelease(q, m) => q \in Range(down)
      BY <1>5 DEF DownQuiet, Carries, IsRelease
    <3>8. \A q, r : IsRelease(q, m) /\ Carries(r, m) /\ Behind(down', q, r) => Behind(down, q, r)
      BY <1>5 DEF DownQuiet, Carries, IsRelease
    <3>9. received[m] # 0 =>
            /\ out[m] # "new"
            /\ \/ Waits(m)
               \/ /\ out[m] \in {"released", "done"} /\ ~Carries(p, m)
                  /\ \A q \in Range(down) : ~Carries(q, m)
      BY <1>1, <2>3, <3>1 DEF Handshake
    <3>10. /\ \A q \in Range(down)' : /\ Carries(q, m) => out'[m] # "new"
                                      /\ IsRelease(q, m) => out'[m] \in {"released", "done"}
           /\ \A q \in Range(up)' : q.type = "PUBREC" /\ q.id = BrokerId[m] => out'[m] # "new"
           /\ Waits(m)' \/ AtHand(m)' => out'[m] # "new"
      BY <1>3, <3>1, <3>2, <3>3, <3>5, <3>6, <3>7 DEF Handshake
    <3>11. \A q, r \in Range(down)' : IsRelease(q, m) /\ Carries(r, m) => ~Behind(down', q, r)
      BY <3>1, <3>7, <3>8 DEF Handshake
    <3>12. /\ received'[m] <= 1
           /\ received'[m] # 0 =>
                /\ out'[m] # "new"
                /\ \/ Waits(m)'
                   \/ /\ out'[m] \in {"released", "done"} /\ ~AtHand(m)'
                      /\ \A q \in Range(down)' : ~Carries(q, m)
      BY <1>3, <2>1, <3>1, <3>2, <3>3, <3>7, <3>9 DEF Handshake
    <3>13. \A q : (Carries(q, m)' <=> Carries(q, m)) /\ (IsRelease(q, m)' <=> IsRelease(q, m))
      BY DEF Carries, IsRelease
    <3> QED
      BY <3>10, <3>11, <3>12, <3>13 DEF Handshake
  <2> QED
    BY <1>3, <1>4, <2>5 DEF Handshakes
<1> QED
  BY <1>6, <1>7

(* The message is passed on only when its PUBREL was not waited for yet.   *)
LEMMA HandshakesRecord ==
  ASSUME Core, Handshakes, RecordRelease
  PROVE  Handshakes'
<1> DEFINE p == mine[Yield]
           saved == Buffered(Ack("PUBREC", p.id))
           e == Entry("PUBREL", p.id, saved, None)
<1>1. /\ p \in DownPackets /\ p.type = "PUBLISH" /\ p.m \in DownMsgs /\ QosOf[p.m] = 2
      /\ p.id = BrokerId[p.m] /\ p.id \in Ids
  BY PacketsAre, PacketFields DEF RecordRelease
<1>2. /\ saved \in UpPackets
      /\ saved.type = "PUBREC" => saved.id = p.id
  <2> DEFINE a == Ack("PUBREC", p.id)
  <2>1. a \in UpPackets /\ a.id = p.id
    BY <1>1, AnswersAre, PacketFields DEF AckTypes
  <2>2. saved \in {a, Bad}
    BY BufferedIs
  <2> HIDE DEF a, saved
  <2> QED
    BY <2>1, <2>2, PacketsAre
<1>3. /\ e \in Entries /\ e.type = "PUBREL" /\ e.id = p.id /\ e.payload = saved
  <2>1. "PUBREL" \in AckTypes \ SubTypes
    BY DEF AckTypes, SubTypes
  <2> QED
    BY <1>1, <1>2, <2>1, EntryFields
<1>4. /\ acks' = Recorded(acks, e) /\ UNCHANGED <<up, down, out>>
      /\ pc[Yield] = "record" /\ pc'[Yield] = "alive"
      /\ received' = IF Exists("PUBREL", p.id) THEN received ELSE Received(p.m)
  BY DEF RecordRelease
<1> HIDE DEF e, saved
<1>5. acks \in Seq(Entries) /\ Unique(acks)
  BY DEF Lists
<1>6. \/ /\ Waits(p.m) /\ acks' = acks /\ UNCHANGED received
      \/ /\ ~Waits(p.m) /\ Range(acks') = Range(acks) \union {e} /\ received' = Received(p.m)
  <2>1. Exists("PUBREL", p.id) <=> Waits(p.m)
    BY <1>1, <1>5, ExistsIs DEF Waits
  <2>2. \/ Waits(p.m) /\ acks' = acks
        \/ ~Waits(p.m) /\ Range(acks') = Range(acks) \union {e}
    <3>1. Waits(p.m) <=> Holds(acks, e.type, e.id)
      BY <1>1, <1>3 DEF Waits
    <3> QED
      BY <1>3, <1>4, <1>5, <3>1, OfRecorded
  <2> QED
    BY <1>4, <2>1, <2>2
<1> HIDE DEF p
<1>7. SavedAnswers'
  BY <1>2, <1>3, <1>6 DEF Handshakes, SavedAnswers
<1>8. ~Dead /\ pc'[Yield] # "record"
  BY <1>4 DEF Dead
<1>9. ASSUME NEW m \in DownMsgs, QosOf[m] = 2, m # p.m PROVE Handshake(m)'
  <2>1. Handshake(m) /\ BrokerId[m] # p.id
    BY <1>1, <1>9, SameId DEF Handshakes
  <2>2. Waits(m)' <=> Waits(m)
    BY <1>3, <1>6, <2>1 DEF Waits, Holds
  <2>3. received'[m] = received[m]
    BY <1>6, <1>9, <1>1 DEF Received
  <2>4. AtHand(m)' => AtHand(m)
    BY <1>8 DEF AtHand
  <2>5. UNCHANGED <<up, down, out>> /\ ~Dead
    BY <1>4, <1>8
  <2> QED
    BY <2>1, <2>2, <2>3, <2>4, <2>5 DEF Handshake, Carries, IsRelease
<1>10. ASSUME NEW m \in DownMsgs, m = p.m PROVE Handshake(m)'
  <2>1. Handshake(m) /\ AtHand(m)
    BY <1>1, <1>4, <1>10 DEF Handshakes, AtHand, p
  <2>2. Waits(m)'
    BY <1>1, <1>3, <1>6, <1>10 DEF Waits, Holds
  <2>3. out[m] # "new"
    BY <2>1 DEF Handshake
  <2>4. received'[m] <= 1
    <3>1. CASE Waits(m)
      BY <1>6, <1>10, <2>1, <3>1 DEF Handshake
    <3>2. CASE ~Waits(m)
      <4>1. received[m] = 0
        BY <1>8, <2>1, <3>2 DEF Handshake
      <4> QED
        BY <1>1, <1>6, <1>10, <3>2, <4>1 DEF Received
    <3> QED
      BY <3>1, <3>2
  <2>5. UNCHANGED <<up, down, out>>
    BY <1>4
  <2> QED
    BY <2>1, <2>2, <2>3, <2>4, <2>5 DEF Handshake, Carries, IsRelease
<1> QED
  BY <1>4, <1>7, <1>9, <1>10 DEF Handshakes

(* PUBREL comes last: no copy of the message is behind it.                 *)
LEMMA HandshakesPubrel ==
  ASSUME Core, Handshakes, HandlePubrel
  PROVE  Handshakes'
<1> DEFINE p == Head(down)
           answer == Ack("PUBCOMP", p.id)
<1>1. p \in Range(down) /\ p.type = "PUBREL" /\ p.id \in Ids
  BY WiresHeads, PacketsAre, PacketFields DEF HandlePubrel
<1>2. answer \in UpPackets /\ answer.type = "PUBCOMP"
  BY <1>1, AnswersAre, PacketFields DEF AckTypes
<1>3. /\ Sent(answer) \/ NotSent
      /\ UNCHANGED <<out, received>>
      /\ pc[Yield] = "read" /\ pc'[Yield] = "alive" /\ down # <<>> /\ down' = Tail(down)
      /\ acks' = Unrecorded(acks, "PUBREL", p.id)
  BY DEF HandlePubrel
<1> HIDE DEF answer
<1>4. DownQuiet /\ UpQuiet
  BY <1>2, <1>3, DownIsQuiet, UpIsQuiet
<1>5. \A q \in Range(down') : Behind(down, p, q)
  BY <1>3, OfTail DEF Wires
<1> HIDE DEF p
<1>6. Range(acks') = {x \in Range(acks) : x.type # "PUBREL" \/ x.id # p.id}
  BY <1>3, OfUnrecorded DEF Lists
<1>7. SavedAnswers'
  BY <1>6 DEF Handshakes, SavedAnswers
<1>8. ASSUME NEW m \in DownMsgs, QosOf[m] = 2 PROVE Handshake(m)'
  <2>1. Handshake(m) /\ ~Dead
    BY <1>3, <1>8 DEF Handshakes, Dead
  <2>2. Waits(m)' => Waits(m)
    BY <1>6 DEF Waits, Holds
  <2>3. ~AtHand(m)'
    BY <1>3 DEF AtHand
  <2>4. \A q \in Range(down') : Carries(q, m) \/ IsRelease(q, m) => q \in Range(down)
    BY <1>4 DEF DownQuiet, Carries, IsRelease
  <2>5. \A q, r : IsRelease(q, m) /\ Carries(r, m) /\ Behind(down', q, r) => Behind(down, q, r)
    BY <1>4 DEF DownQuiet, Carries, IsRelease
  <2>6. \A q \in Range(up') : q.type = "PUBREC" /\ q.id = BrokerId[m] => out[m] # "new"
    BY <1>4, <2>1 DEF UpQuiet, Handshake, Waits
  <2>7. Waits(m) => Waits(m)' \/ IsRelease(p, m)
    BY <1>1, <1>6 DEF Waits, Holds, IsRelease
  <2>8. IsRelease(p, m) => /\ out[m] \in {"released", "done"}
                           /\ \A q \in Range(down') : ~Carries(q, m)
    BY <1>1, <1>5, <2>1, <2>4 DEF Handshake
  <2>9. /\ \A q \in Range(down)' : /\ Carries(q, m) => out'[m] # "new"
                                   /\ IsRelease(q, m) => out'[m] \in {"released", "done"}
        /\ \A q \in Range(up)' : q.type = "PUBREC" /\ q.id = BrokerId[m] => out'[m] # "new"
        /\ Waits(m)' \/ AtHand(m)' => out'[m] # "new"
    BY <1>3, <2>1, <2>2, <2>3, <2>4, <2>6 DEF Handshake
  <2>10. \A q, r \in Range(down)' : IsRelease(q, m) /\ Carries(r, m) => ~Behind(down', q, r)
    BY <2>1, <2>4, <2>5 DEF Handshake
  <2>11. /\ received'[m] <= 1
         /\ received'[m] # 0 =>
              /\ out'[m] # "new"
              /\ \/ Waits(m)'
                 \/ /\ out'[m] \in {"released", "done"} /\ ~AtHand(m)'
                    /\ \A q \in Range(down)' : ~Carries(q, m)
    BY <1>3, <2>1, <2>3, <2>4, <2>7, <2>8 DEF Handshake
  <2>12. \A q : (Carries(q, m)' <=> Carries(q, m)) /\ (IsRelease(q, m)' <=> IsRelease(q, m))
    BY DEF Carries, IsRelease
  <2> QED
    BY <2>9, <2>10, <2>11, <2>12 DEF Handshake
<1> QED
  BY <1>3, <1>7, <1>8 DEF Handshakes

(* What the broker adds to the wire is behind all that was there.          *)
LEMMA HandshakeAdds ==
  ASSUME Core, NEW m \in DownMsgs, Handshake(m), NEW ps \in Seq(DownPackets), down' = down \o ps,
         UNCHANGED <<acks, received, pc, mine>>, up' = up \/ (up # <<>> /\ up' = Tail(up)),
         out[m] # "new" => out'[m] # "new",
         out[m] \in {"released", "done"} =>
           out'[m] \in {"released", "done"} /\ \A q \in Range(ps) : ~Carries(q, m),
         \A q \in Range(ps) : /\ Carries(q, m) => out'[m] # "new"
                              /\ IsRelease(q, m) => out'[m] \in {"released", "done"},
         \A q, r : IsRelease(q, m) /\ Carries(r, m) => ~Behind(ps, q, r)
  PROVE  Handshake(m)'
<1> DEFINE w == down \o ps
<1>1. /\ Range(w) = Range(down) \union Range(ps)
      /\ \A q, r : Behind(w, q, r) =>
           Behind(down, q, r) \/ Behind(ps, q, r) \/ (q \in Range(down) /\ r \in Range(ps))
  BY OfConcat DEF Wires
<1>2. \A s, q, r : s \in Seq(DownPackets) /\ Behind(s, q, r) => q \in Range(s) /\ r \in Range(s)
  BY RangeOf DEF Behind
<1>3. down' = w
  OBVIOUS
<1> HIDE DEF w
<1>4. Range(up') \subseteq Range(up)
  BY OfTail DEF Wires
<1>5. /\ \A q \in Range(down)' : /\ Carries(q, m) => out'[m] # "new"
                                 /\ IsRelease(q, m) => out'[m] \in {"released", "done"}
      /\ \A q \in Range(up)' : q.type = "PUBREC" /\ q.id = BrokerId[m] => out'[m] # "new"
      /\ Waits(m)' \/ AtHand(m)' => out'[m] # "new"
  BY <1>1, <1>3, <1>4 DEF Handshake, Waits, AtHand
<1>6. ASSUME NEW q \in Range(w), NEW r \in Range(w), IsRelease(q, m), Carries(r, m), Behind(w, q, r)
      PROVE  FALSE
  <2>1. CASE Behind(down, q, r)
    BY <1>2, <1>6, <2>1 DEF Handshake, Wires
  <2>2. CASE Behind(ps, q, r)
    BY <1>6, <2>2
  <2>3. CASE q \in Range(down) /\ r \in Range(ps)
    BY <1>6, <2>3 DEF Handshake
  <2> QED
    BY <1>1, <1>6, <2>1, <2>2, <2>3
<1>7. /\ received'[m] <= 1
      /\ received'[m] # 0 =>
           /\ out'[m] # "new"
           /\ \/ Waits(m)' \/ Dead'
              \/ /\ out'[m] \in {"released", "done"} /\ ~AtHand(m)'
                 /\ \A q \in Range(down)' : ~Carries(q, m)
  BY <1>1, <1>3 DEF Handshake, Waits, AtHand, Dead
<1>8. \A q : (Carries(q, m)' <=> Carries(q, m)) /\ (IsRelease(q, m)' <=> IsRelease(q, m))
  BY DEF Carries, IsRelease
<1> QED
  BY <1>3, <1>5, <1>6, <1>7, <1>8 DEF Handshake

LEMMA HandshakesBrokerConnects ==
  ASSUME Core, Handshakes, BrokerConnects
  PROVE  Handshakes'
<1> DEFINE c == Ack("CONNACK", 0)
           ps == <<c>> \o AllAgain
<1>1. c \in DownPackets /\ c.type = "CONNACK"
  <2>1. "CONNACK" \in PacketTypes \ {"PUBLISH"} /\ 0 \in Ids
    BY BoundsAssumption DEF PacketTypes, Ids
  <2> HIDE DEF Core
  <2> QED
    BY <2>1, AckTypesOf, PacketFields
<1>2. down' = down \o ps
  BY BrokerConnectsIs
<1> HIDE DEF c
<1>3. ps \in Seq(DownPackets) /\ Range(ps) = {c} \union Range(AllAgain)
  <2> DEFINE one == <<c>>
  <2>1. one \in Seq(DownPackets) /\ Range(one) = {c}
    BY <1>1, OfOne
  <2>2. AllAgain \in Seq(DownPackets)
    BY AllAgainIs
  <2> HIDE DEF one
  <2>3. /\ one \o AllAgain \in Seq(DownPackets)
        /\ Range(one \o AllAgain) = Range(one) \union Range(AllAgain)
    BY <2>1, <2>2, OfConcat
  <2> QED
    BY <2>1, <2>3 DEF one
<1> HIDE DEF ps
<1>4. \A q \in Range(ps) : q = c \/ \E n \in Unanswered : q = Again(n)
  BY <1>3, AllAgainIs
<1>5. UNCHANGED <<acks, out, received, pc, mine>> /\ up # <<>> /\ up' = Tail(up)
  BY DEF BrokerConnects
<1>6. ASSUME NEW m \in DownMsgs, QosOf[m] = 2, NEW q \in Range(ps)
      PROVE  /\ Carries(q, m) => out[m] = "sent"
             /\ IsRelease(q, m) => out[m] = "released"
  <2>1. CASE q = c
    BY <1>1, <2>1 DEF Carries, IsRelease
  <2>2. ASSUME NEW n \in Unanswered, q = Again(n)
        PROVE  /\ Carries(q, m) => out[m] = "sent"
               /\ IsRelease(q, m) => out[m] = "released"
    <3>1. n \in DownMsgs /\ out[n] \in {"sent", "released"}
      BY DEF Unanswered
    <3>2. CASE out[n] = "sent"
      BY <2>2, <3>2, PacketFields DEF Again, Carries, IsRelease
    <3>3. CASE out[n] = "released"
      <4>1. q.type = "PUBREL" /\ q.id = BrokerId[n]
        BY <2>2, <3>3, PacketFields DEF Again
      <4>2. QosOf[n] = 2
        BY <3>1, <3>3 DEF Handshakes
      <4>3. IsRelease(q, m) => BrokerId[n] = BrokerId[m]
        BY <4>1 DEF IsRelease
      <4>4. BrokerId[n] = BrokerId[m] => n = m
        BY <1>6, <3>1, <4>2, SameId
      <4> QED
        BY <3>3, <4>1, <4>3, <4>4 DEF Carries
    <3> QED
      BY <3>1, <3>2, <3>3
  <2> QED
    BY <1>4, <2>1, <2>2
<1>7. ASSUME NEW m \in DownMsgs, QosOf[m] = 2 PROVE Handshake(m)'
  <2>1. Handshake(m)
    BY <1>7 DEF Handshakes
  <2>2. \A q, r : IsRelease(q, m) /\ Carries(r, m) => ~Behind(ps, q, r)
    <3>1. \A q, r : Behind(ps, q, r) => q \in Range(ps) /\ r \in Range(ps)
      BY <1>3, RangeOf DEF Behind
    <3> QED
      BY <1>6, <1>7, <3>1
  <2> QED
    BY <1>2, <1>3, <1>5, <1>6, <1>7, <2>1, <2>2, HandshakeAdds
<1>8. SavedAnswers'
  BY <1>5 DEF Handshakes, SavedAnswers
<1> QED
  BY <1>5, <1>7, <1>8 DEF Handshakes

LEMMA HandshakesBrokerPublishes ==
  ASSUME Core, Handshakes, NEW n \in DownMsgs, BrokerPublishes(n)
  PROVE  Handshakes'
<1> DEFINE q == Packet("PUBLISH", BrokerId[n], n)
           ps == <<q>>
<1>1. q \in DownPackets /\ q.type = "PUBLISH" /\ q.m = n
  BY BrokerPacketsAre, PacketFields
<1>2. /\ down' = down \o ps /\ out[n] = "new"
      /\ out' = [out EXCEPT ![n] = IF QosOf[n] = 0 THEN "done" ELSE "sent"]
      /\ UNCHANGED <<acks, received, pc, mine, up>>
  BY DEF BrokerPublishes
<1> HIDE DEF q
<1>3. ps \in Seq(DownPackets) /\ Range(ps) = {q} /\ \A x, y : ~Behind(ps, x, y)
  BY <1>1, OfOne
<1> HIDE DEF ps
<1>4. ASSUME NEW m \in DownMsgs, QosOf[m] = 2 PROVE Handshake(m)'
  <2>1. Handshake(m)
    BY <1>4 DEF Handshakes
  <2>2. /\ out[m] # "new" => out'[m] = out[m] /\ m # n
        /\ m = n => out'[m] = "sent"
    BY <1>2, <1>4
  <2>3. \A x \in Range(ps) : (Carries(x, m) => m = n) /\ ~IsRelease(x, m)
    BY <1>1, <1>3 DEF Carries, IsRelease
  <2> QED
    BY <1>2, <1>3, <2>1, <2>2, <2>3, HandshakeAdds
<1>5. SavedAnswers'
  BY <1>2 DEF Handshakes, SavedAnswers
<1>6. \A m \in DownMsgs : out'[m] = "released" => QosOf[m] = 2
  BY <1>2 DEF Handshakes
<1> QED
  BY <1>4, <1>5, <1>6 DEF Handshakes

LEMMA HandshakesBrokerTakesAck ==
  ASSUME Core, Handshakes, BrokerTakesAck
  PROVE  Handshakes'
<1> DEFINE p == Head(up)
           q == Ack("PUBREL", p.id)
<1>1. p \in Range(up) /\ p.id \in Ids
  BY WiresHeads, PacketsAre, PacketFields DEF BrokerTakesAck
<1>2. q \in DownPackets /\ q.type = "PUBREL" /\ q.id = p.id
  BY <1>1, AnswersAre, PacketFields DEF AckTypes
<1>3. UNCHANGED <<acks, received, pc, mine>> /\ up # <<>> /\ up' = Tail(up)
  BY DEF BrokerTakesAck
<1>4. \A m \in DownMsgs :
        /\ out'[m] \in {out[m], "released", "done"}
        /\ out[m] \in {"released", "done"} => out'[m] \in {"released", "done"}
        /\ out'[m] = "released" => QosOf[m] = 2
        /\ QosOf[m] = 2 /\ BrokerId[m] = p.id /\ p.type = "PUBREC" /\ out[m] # "new" =>
             out'[m] \in {"released", "done"}
  BY DEF BrokerTakesAck, Handshakes
<1>5. \/ p.type = "PUBREC" /\ down' = down \o <<q>>
      \/ down' = down \o <<>>
  BY DEF BrokerTakesAck
<1> HIDE DEF q, p
<1>6. PICK ps \in Seq(DownPackets) :
        /\ down' = down \o ps
        /\ \A x \in Range(ps) : x = q /\ p.type = "PUBREC"
  <2>1. <<q>> \in Seq(DownPackets) /\ Range(<<q>>) = {q}
    BY <1>2, OfOne
  <2>2. <<>> \in Seq(DownPackets) /\ Range(<<>>) = {}
    BY OfNothing
  <2> QED
    BY <1>5, <2>1, <2>2
<1>7. ASSUME NEW m \in DownMsgs, QosOf[m] = 2 PROVE Handshake(m)'
  <2>1. Handshake(m)
    BY <1>7 DEF Handshakes
  <2>2. \A x \in Range(ps) : ~Carries(x, m)
    BY <1>2, <1>6 DEF Carries
  <2>3. \A x \in Range(ps) : IsRelease(x, m) => out'[m] \in {"released", "done"}
    BY <1>1, <1>2, <1>4, <1>6, <1>7, <2>1 DEF IsRelease, Handshake
  <2>4. \A x, y : Carries(y, m) => ~Behind(ps, x, y)
    BY <2>2, RangeOf DEF Behind
  <2>5. out[m] # "new" => out'[m] # "new"
    BY <1>4
  <2> QED
    BY <1>3, <1>4, <1>6, <2>1, <2>2, <2>3, <2>4, <2>5, HandshakeAdds
<1>8. SavedAnswers'
  BY <1>3 DEF Handshakes, SavedAnswers
<1> QED
  BY <1>4, <1>7, <1>8 DEF Handshakes

LEMMA HandshakesInit == Init => Handshakes
<1> SUFFICES ASSUME Init PROVE Handshakes
  OBVIOUS
<1>1. Range(up) = {} /\ Range(down) = {} /\ Range(acks) = {}
  BY OfNothing DEF Init
<1>2. \A m \in DownMsgs : out[m] = "new" /\ received[m] = 0
  BY DEF Init
<1>3. pc[Yield] = "none"
  BY DEF Init
<1> QED
  BY <1>1, <1>2, <1>3 DEF Handshakes, SavedAnswers, Handshake, Waits, Holds, AtHand

LEMMA HandshakesStep == Core /\ Handshakes /\ [Next]_vars => Handshakes'
<1> SUFFICES ASSUME Core, Handshakes, [Next]_vars PROVE Handshakes'
  OBVIOUS
<1>1. CASE UNCHANGED vars
  <2>1. DownQuiet /\ UpQuiet /\ AcksQuiet /\ YieldQuiet
    BY <1>1, DownIsQuiet, UpIsQuiet, AcksAreQuiet DEF vars, YieldQuiet, Dead
  <2> QED
    BY <1>1, <2>1, HandshakesQuiet DEF vars, history
<1>2. ASSUME NEW u \in Users,
             \/ \E m \in UpMsgs : CallPublish(u, m)
             \/ \E t \in Topics : CallSubscribe(u, t) \/ CallUnsubscribe(u, t)
             \/ CallDisconnect(u) \/ Connect(u)
             \/ UserStep(u) \/ ConnectStep(u)
      PROVE  Handshakes'
  <2>1. u \in Threads
    OBVIOUS
  <2> HIDE DEF Core, Threads
  <2> QED
    BY <1>2, <2>1, HandshakesUser, HandshakesConnect
<1>3. ASSUME YieldStep PROVE Handshakes'
  <2>1. Yield \in Threads
    OBVIOUS
  <2> HIDE DEF Core, Threads
  <2> QED
    BY <1>3, <2>1, HandshakesConnect, HandshakesYieldMoves, HandshakesResubscribe, HandshakesScans,
       HandshakesCleanSession, HandshakesAnswers, HandshakesPublish, HandshakesRecord,
       HandshakesPubrel DEF YieldStep
<1>4. CASE LoseLink \/ BrokerStep
  <2> HIDE DEF Core
  <2> QED
    BY <1>4, HandshakesYieldMoves, HandshakesBrokerConnects, HandshakesBrokerReplies,
       HandshakesBrokerTakesAck DEF BrokerStep
<1>5. CASE \E m \in DownMsgs : BrokerPublishes(m)
  <2> HIDE DEF Core
  <2> QED
    BY <1>5, HandshakesBrokerPublishes
<1> QED
  BY <1>1, <1>2, <1>3, <1>4, <1>5 DEF Next

(* The types, the lists of mqttclient.c and the places of the threads with *)
(* the lock: no entry is recorded twice, nothing installed is freed, and   *)
(* mqtt_write_lock is with the thread that builds, sends or records.       *)
THEOREM CoreHolds == Spec => []Core
<1> HIDE DEF Core
<1> QED
  BY CoreInit, CoreStep, PTL DEF Spec

(* A QoS 2 message of the broker that was delivered is not delivered       *)
(* again: its PUBREL is waited for, or the broker has had PUBREC and no    *)
(* PUBLISH of it is on its way any more.                                   *)
THEOREM HandshakesHold == Spec => []Handshakes
<1> HIDE DEF Core
<1> QED
  BY CoreHolds, HandshakesInit, HandshakesStep, PTL DEF Spec

(* mqtt_ping_outstanding is the one variable Core leaves out.              *)
LEMMA PingInit == Init => ping \in BOOLEAN
BY DEF Init
LEMMA PingStep == (ping \in BOOLEAN) /\ [Next]_vars => (ping \in BOOLEAN)'
<1> SUFFICES ASSUME ping \in BOOLEAN, [Next]_vars PROVE ping' \in BOOLEAN
  OBVIOUS
<1>1. ping' = ping \/ ping' \in BOOLEAN
  BY Zenon
  DEF Next, vars, UserStep, ConnectStep, YieldStep, BrokerStep, CallPublish, CallSubscribe,
    CallUnsubscribe, Call, CallDisconnect, Connect, Serialize, TooMuch, Send,
    RecordPublish, RecordSubscribe, RecordUnsubscribe, SetCleanSession, SendConnect,
    WaitConnack, Connected, ConnectFailed, Resubscribe, ResubscribeDone, ScanAll,
    ScanAllDone, Scan, ScanDone, CleanSession, Read, ReadNothing, HandleNotConnected,
    HandlePubackPubcomp, HandleSuback, HandleUnsuback, HandlePublish, RecordRelease,
    HandlePubrec, HandlePubrel, HandlePingresp, AliveNothingDue, PingDue, SendPing,
    PingUnanswered, Disconnected, LoseLink, BrokerCloses, BrokerConnects,
    BrokerTakesPublish, BrokerReleases, BrokerTakesAck, BrokerAnswers, BrokerPublishes
<1> QED
  BY <1>1

(* Every variable has its type, the ack list holds no entry twice, and one *)
(* that waits for SUBACK or UNSUBACK has a handler.                        *)
THEOREM TypeCorrect == Spec => []TypeOK
<1>1. Core /\ ping \in BOOLEAN => TypeOK
  <2> SUFFICES ASSUME Core, ping \in BOOLEAN PROVE TypeOK
    OBVIOUS
  <2>1. \A i \in 1..Len(acks) : acks[i] \in Entries
    BY AcksAre
  <2>2. \A i \in 1..Len(installed) : topicOf[installed[i]] \in Topics
    BY RangeOf DEF Lists
  <2>3. \A i, j \in 1..Len(acks) : acks[i].type = acks[j].type /\ acks[i].id = acks[j].id => i = j
    BY DEF Lists, Unique
  <2>4. \A i \in 1..Len(acks) : /\ acks[i].type \in AckTypes
                                /\ acks[i].type \in SubTypes <=> acks[i].handler \in Objects
    BY <2>1, EntryFields
  <2> QED
    BY <2>2, <2>3, <2>4 DEF TypeOK, Wires
<1> HIDE DEF Core
<1> QED
  BY <1>1, CoreHolds, PingInit, PingStep, PTL DEF Spec

(* One installed handler per topic, however often the yield thread         *)
(* subscribes to the installed topics again.                               *)
THEOREM TopicsHaveOneHandler == Spec => []OneHandlerPerTopic
<1>1. Core => OneHandlerPerTopic
  BY RangeOf DEF Lists, Once, OneHandlerPerTopic
<1> HIDE DEF Core
<1> QED
  BY <1>1, CoreHolds, PTL

(* A QoS 2 message goes to mqtt_deliver_message once at most, although the *)
(* broker sends it again on every new connection until it has PUBREC.      *)
THEOREM NothingIsReceivedTwice == Spec => []ReceivedOnce
<1>1. Handshakes => ReceivedOnce
  BY DEF Handshakes, Handshake, ReceivedOnce
<1> QED
  BY <1>1, HandshakesHold, PTL

-----------------------------------------------------------------------------
(* The messages of the users, as long as the packet ids have not come      *)
(* round: mqtt_get_next_packet_id (mqttclient.c:115) does not look whether *)
(* an id is in use.                                                        *)

IdsLast == packetId < MaxPacketId

(* The packet of the user that has the lock.                               *)
Held == IF wlock \in Users THEN mine[wlock] ELSE Bad
IsReliable(p) == p.type = "PUBLISH" /\ QosOf[p.m] # 0
IsPub(p, m, id) == p.type = "PUBLISH" /\ p.m = m /\ p.id = id

(* id is the packet id of message m.                                       *)
Owns(m, id) == id # 0 /\ (accepted[m] = id \/ IsPub(Held, m, id))
Answered(id) == \E p \in Range(down) : p.type \in {"PUBACK", "PUBREC"} /\ p.id = id
Released(id) ==
  \/ \E p \in Range(up) : p.type = "PUBREL" /\ p.id = id
  \/ \E e \in Range(acks) : e.payload.type = "PUBREL" /\ e.id = id
(* The broker may yet receive message m under this id.                     *)
MayCome(m, id) ==
  \/ \E p \in Range(up) : IsPub(p, m, id)
  \/ \E e \in Range(acks) : IsPub(e.payload, m, id)
  \/ IsPub(Held, m, id)

IdsUsed ==
  /\ \A p \in Range(up) : p.type = "PUBREL" \/ IsReliable(p) => p.id <= packetId
  /\ \A p \in Range(down) : p.type \in {"PUBACK", "PUBREC"} => p.id <= packetId
  /\ \A e \in Range(acks) : e.type # "PUBREL" => e.id <= packetId
  /\ \A m \in UpMsgs : accepted[m] <= packetId
  /\ \A id \in rel : id <= packetId
  /\ Held.id <= packetId

HeldIsNew ==
  Held.id # 0 =>
    /\ \A e \in Range(acks) : e.type # "PUBREL" => e.id # Held.id
    /\ \A m \in UpMsgs : accepted[m] # Held.id

Named ==
  /\ Held.type = "PUBLISH" => (Held.id # 0 <=> QosOf[Held.m] # 0)
  /\ \A m \in UpMsgs : accepted[m] # 0 => QosOf[m] # 0
  /\ \A m, n \in UpMsgs : accepted[m] # 0 /\ accepted[m] = accepted[n] => m = n

OneOwner ==
  \A u \in Users : IsReliable(mine[u]) =>
    /\ accepted[mine[u].m] = 0
    /\ \A v \in Users : mine[v].type = "PUBLISH" /\ mine[v].m = mine[u].m => v = u

Owned ==
  /\ \A p \in Range(up) : IsReliable(p) => Owns(p.m, p.id)
  /\ \A m \in UpMsgs : QosOf[m] # 0 /\ delivered[m] # 0 => \E id \in Ids : Owns(m, id)

SavedAs(e) ==
  /\ e.payload.type = "PUBLISH" =>
       /\ e.id # 0 /\ e.payload.id = e.id /\ accepted[e.payload.m] = e.id
       /\ e.type = IF QosOf[e.payload.m] = 1 THEN "PUBACK" ELSE "PUBREC"
  /\ e.payload.type = "PUBREL" => e.type = "PUBCOMP" /\ e.payload.id = e.id
Saved == \A e \in Range(acks) : SavedAs(e)

Unsent ==
  \A u \in Users : pc[u] = "send" /\ IsReliable(mine[u]) =>
    /\ delivered[mine[u].m] = 0
    /\ \A p \in Range(up) : p.type = "PUBLISH" => p.m # mine[u].m

Delivery(m, id) ==
  /\ Answered(id) \/ id \in rel => delivered[m] # 0
  /\ QosOf[m] = 2 /\ delivered[m] # 0 /\ MayCome(m, id) => id \in rel
Deliveries == \A m \in UpMsgs, id \in Ids : Owns(m, id) => Delivery(m, id)

Releases ==
  \A id \in Ids : Released(id) => ~Holds(acks, "PUBREC", id) /\ (Held.id # 0 => Held.id # id)

UpOrder ==
  \A p, q \in Range(up) :
    p.type = "PUBREL" /\ q.type = "PUBLISH" /\ QosOf[q.m] = 2 /\ p.id = q.id => ~Behind(up, p, q)

Kept ==
  \A m \in UpMsgs : accepted[m] # 0 /\ delivered[m] = 0 /\ ~Dead =>
    \E e \in Range(acks) : e.type \in {"PUBACK", "PUBREC"} /\ e.id = accepted[m]

Naming == IdsUsed /\ HeldIsNew /\ Named /\ OneOwner
Sending == Owned /\ Saved /\ Unsent /\ Releases /\ UpOrder
Publications == Naming /\ Sending /\ Deliveries /\ PublishedOnce /\ Kept

LEMMA HeldIs ==
  ASSUME Core
  PROVE  /\ Held \in UserPackets /\ Held \in Packets /\ Held.id \in Ids
         /\ Held.type = "PUBLISH" => Held.m \in UpMsgs
         /\ wlock \notin Users => Held = Bad
         /\ wlock \in Users => Held = mine[wlock]
         /\ \A u \in Users : pc[u] \in {"send", "record"} => wlock = u /\ Held = mine[u]
         /\ Bad.id = 0 /\ Bad.type = "BAD" /\ None \notin Users
<1>1. Held \in UserPackets
  BY PacketsAre DEF Held
<1>2. \A u \in Users : pc[u] \in {"send", "record"} => wlock = u
  OBVIOUS
<1>3. None \notin Users
  BY SetsAssumption
<1> HIDE DEF Core
<1>4. Held.type = "PUBLISH" => Held.m \in UpMsgs
  BY <1>1, PacketsAre
<1>5. Held \in Packets
  BY <1>1, PacketsAre DEF UserPackets
<1>6. Held.id \in Ids
  BY <1>5, PacketFields
<1> QED
  BY <1>1, <1>2, <1>3, <1>4, <1>5, <1>6, PacketsAre DEF Held

LEMMA OwnsOne ==
  ASSUME Core, Named, HeldIsNew, NEW m \in UpMsgs, NEW n \in UpMsgs, NEW id, Owns(m, id)
  PROVE  /\ QosOf[m] # 0 /\ id \in Ids /\ id # 0
         /\ Owns(n, id) => m = n
<1>1. accepted[m] \in Ids /\ accepted[n] \in Ids
  OBVIOUS
<1>2. Held.id \in Ids
  BY HeldIs
<1> HIDE DEF Core
<1> QED
  BY <1>1, <1>2 DEF Owns, Named, HeldIsNew, IsPub

HIDE DEF Core, Values, Control, UserControl, YieldControl, UserPlaces, YieldPlaces, Connecting
HIDE DEF Return, Release, Crash, Fault, Packs, BrokerReads, BrokerSends
-----------------------------------------------------------------------------
(* Most steps neither send nor answer a message of a user: they take       *)
(* packets from the wires, add others, give back the lock, and drop        *)
(* entries that are answered.                                              *)
UpCalm ==
  /\ \A p \in Range(up') : IsReliable(p) => p \in Range(up)
  /\ \A p \in Range(up') : p.type = "PUBREL" => Released(p.id)
  /\ \A p, q : p.type = "PUBREL" /\ IsReliable(q) /\ Behind(up', p, q) =>
       p \in Range(up) /\ Behind(up, p, q)
DownCalm == \A p \in Range(down') : p.type \in {"PUBACK", "PUBREC"} => p \in Range(down)
AcksCalm ==
  /\ \A e \in Range(acks') \ Range(acks) :
       /\ e.type = "PUBREL" \/ (e.id <= packetId' /\ Held'.id = 0)
       /\ e.type \notin {"PUBACK", "PUBREC"} /\ e.payload.type \notin {"PUBLISH", "PUBREL"}
  /\ Dead' \/ \A e \in Range(acks) \ Range(acks') : e.type \in {"PUBACK", "PUBREC"} => Answered(e.id)
HeldCalm ==
  /\ \/ Held' = Held
     \/ Held'.id = 0 /\ ~IsReliable(Held') /\ ~IsReliable(Held)
  /\ OneOwner'
  /\ \A u \in Users : pc'[u] = "send" /\ IsReliable(mine'[u]) => pc[u] = "send" /\ mine'[u] = mine[u]
Calm ==
  /\ UpCalm /\ DownCalm /\ AcksCalm /\ HeldCalm
  /\ Dead => Dead'
  /\ packetId <= packetId'
  /\ UNCHANGED <<rel, delivered, accepted>>

LEMMA OwnersAreCalm ==
  ASSUME OneOwner, UNCHANGED accepted,
         \A u \in Users : mine'[u] = mine[u] \/ ~IsReliable(mine'[u])
  PROVE  OneOwner'
<1> SUFFICES ASSUME NEW u \in Users, IsReliable(mine'[u])
             PROVE  /\ accepted'[mine'[u].m] = 0
                    /\ \A v \in Users : mine'[v].type = "PUBLISH" /\ mine'[v].m = mine'[u].m => v = u
  BY DEF OneOwner, IsReliable
<1>1. mine'[u] = mine[u]
  OBVIOUS
<1>2. \A v \in Users : mine'[v].type = "PUBLISH" /\ mine'[v].m = mine'[u].m => mine'[v] = mine[v]
  BY DEF IsReliable
<1> QED
  BY <1>1, <1>2 DEF OneOwner

LEMMA CalmOwns ==
  ASSUME Named, Calm, NEW m, NEW id
  PROVE  /\ Owns(m, id)' <=> Owns(m, id)
         /\ IsPub(Held', m, id) /\ id # 0 => IsPub(Held, m, id)
<1>1. IsPub(Held', m, id)  /\ id # 0 => Held' = Held
  BY DEF Calm, HeldCalm, IsPub
<1>2. IsPub(Held, m, id) /\ id # 0 => Held' = Held
  BY DEF Calm, HeldCalm, IsPub, IsReliable, Named
<1> QED
  BY <1>1, <1>2 DEF Owns, IsPub, Calm

LEMMA ReleasedIsUsed ==
  ASSUME Core, Naming, Saved, NEW id, Released(id)
  PROVE  id \in Ids /\ id <= packetId
<1>1. \A p \in Range(up) : p.id \in Ids
  BY RangeOf, PacketsAre, PacketFields DEF Core, Wires
<1>2. \A e \in Range(acks) : e.id \in Ids
  BY RangeOf, EntryFields DEF Core, Lists
<1> QED
  BY <1>1, <1>2 DEF Naming, IdsUsed, Saved, SavedAs, Released

LEMMA CalmNaming ==
  ASSUME Core, Core', Naming, Saved, Calm
  PROVE  Naming'
<1>1. /\ packetId \in Int /\ packetId' \in Int
      /\ \A p \in Range(up) : p.id \in Int
      /\ \A p \in Range(down) : p.id \in Int
      /\ \A e \in Range(acks) : e.id \in Int
      /\ \A m \in UpMsgs : accepted[m] \in Int
      /\ \A id \in rel : id \in Int
      /\ Held.id \in Int /\ Held'.id \in Int
  <2>1. Ids \subseteq Int
    BY DEF Ids
  <2>2. /\ \A p \in Range(up) : p \in Packets
        /\ \A p \in Range(down) : p \in Packets
        /\ \A e \in Range(acks) : e \in Entries
    BY RangeOf, PacketsAre DEF Core, Wires, Lists
  <2>3. Held.id \in Ids
    BY HeldIs
  <2>4. Held'.id \in Ids
    <3>1. Held' \in UserPackets
      BY PacketsAre DEF Held, Core, Control, UserControl
    <3> QED
      BY <3>1, PacketsAre, PacketFields
  <2>5. packetId \in Int /\ packetId' \in Int
    BY DEF Core, Values
  <2>6. (\A m \in UpMsgs : accepted[m] \in Ids) /\ (\A id \in rel : id \in Ids)
    BY DEF Core, Values
  <2>7. \A p \in Packets \union Entries : p.id \in Ids
    BY PacketFields, EntryFields
  <2> QED
    BY <2>1, <2>2, <2>3, <2>4, <2>5, <2>6, <2>7
<1>2. packetId <= packetId' /\ UNCHANGED <<rel, accepted>>
  BY DEF Calm
<1>3. IdsUsed'
  <2>1. \A p \in Range(up') : p.type = "PUBREL" \/ IsReliable(p) => p.id <= packetId'
    <3>1. \A p \in Range(up') : p.type = "PUBREL" => p.id \in Int /\ p.id <= packetId
      <4>1. \A p \in Range(up') : p.type = "PUBREL" => Released(p.id)
        BY DEF Calm, UpCalm
      <4>2. Ids \subseteq Int
        BY DEF Ids
      <4> QED
        BY <4>1, <4>2, ReleasedIsUsed
    <3>2. \A p \in Range(up') : IsReliable(p) => p.id \in Int /\ p.id <= packetId
      BY <1>1 DEF Calm, UpCalm, Naming, IdsUsed
    <3> QED
      BY <1>1, <1>2, <3>1, <3>2
  <2>2. \A p \in Range(down') : p.type \in {"PUBACK", "PUBREC"} => p.id <= packetId'
    BY <1>1, <1>2 DEF Calm, DownCalm, Naming, IdsUsed
  <2>3. \A e \in Range(acks') : e.type # "PUBREL" => e.id <= packetId'
    BY <1>1, <1>2 DEF Calm, AcksCalm, Naming, IdsUsed
  <2>4. /\ \A m \in UpMsgs : accepted'[m] <= packetId'
        /\ \A id \in rel' : id <= packetId'
    BY <1>1, <1>2 DEF Naming, IdsUsed
  <2>5. Held'.id <= packetId'
    <3>1. packetId' \in 1..MaxPacketId
      BY DEF Core, Values
    <3> QED
      BY <1>1, <1>2, <3>1 DEF Calm, HeldCalm, Naming, IdsUsed
  <2> QED
    BY <2>1, <2>2, <2>3, <2>4, <2>5 DEF IdsUsed, IsReliable
<1>4. HeldIsNew'
  <2> SUFFICES ASSUME Held'.id # 0
               PROVE  /\ \A e \in Range(acks') : e.type # "PUBREL" => e.id # Held'.id
                      /\ \A m \in UpMsgs : accepted'[m] # Held'.id
    BY DEF HeldIsNew
  <2>1. Held' = Held
    BY DEF Calm, HeldCalm
  <2> QED
    BY <1>2, <2>1 DEF Calm, AcksCalm, Naming, HeldIsNew
<1>5. Named'
  <2>1. Held'.type = "PUBLISH" => (Held'.id # 0 <=> QosOf[Held'.m] # 0)
    BY DEF Calm, HeldCalm, Naming, Named, IsReliable
  <2> QED
    BY <1>2, <2>1 DEF Naming, Named
<1>6. OneOwner'
  BY DEF Calm, HeldCalm
<1> QED
  BY <1>3, <1>4, <1>5, <1>6 DEF Naming

LEMMA CalmSending ==
  ASSUME Naming, Sending, Calm
  PROVE  Sending'
<1>1. Owned'
  <2>1. \A p \in Range(up') : IsReliable(p) => Owns(p.m, p.id)'
    BY CalmOwns DEF Calm, UpCalm, Naming, Sending, Owned
  <2>2. \A m \in UpMsgs : QosOf[m] # 0 /\ delivered'[m] # 0 => \E id \in Ids : Owns(m, id)'
    BY CalmOwns DEF Calm, Naming, Sending, Owned
  <2> QED
    BY <2>1, <2>2 DEF Owned, IsReliable
<1>2. Saved'
  <2>1. ASSUME NEW e \in Range(acks') PROVE SavedAs(e)'
    <3>1. CASE e \in Range(acks)
      BY <3>1 DEF Calm, Sending, Saved, SavedAs
    <3>2. CASE e \notin Range(acks)
      BY <2>1, <3>2 DEF Calm, AcksCalm, SavedAs
    <3> QED
      BY <3>1, <3>2
  <2> QED
    BY <2>1 DEF Saved
<1>3. Unsent'
  <2> SUFFICES ASSUME NEW u \in Users, pc'[u] = "send", IsReliable(mine'[u])
               PROVE  /\ delivered'[mine'[u].m] = 0
                      /\ \A p \in Range(up') : p.type = "PUBLISH" => p.m # mine'[u].m
    BY DEF Unsent, IsReliable
  <2>1. mine'[u] = mine[u] /\ pc[u] = "send"
    BY DEF Calm, HeldCalm
  <2>2. \A p \in Range(up') : p.type = "PUBLISH" /\ p.m = mine'[u].m => p \in Range(up)
    BY DEF Calm, UpCalm, IsReliable
  <2> QED
    BY <2>1, <2>2 DEF Calm, Sending, Unsent
<1>4. Releases'
  <2> SUFFICES ASSUME NEW id \in Ids, Released(id)'
               PROVE  ~Holds(acks', "PUBREC", id) /\ (Held'.id # 0 => Held'.id # id)
    BY DEF Releases, Holds
  <2>1. Released(id)
    BY DEF Calm, UpCalm, AcksCalm, Released
  <2>2. Holds(acks', "PUBREC", id) => Holds(acks, "PUBREC", id)
    BY DEF Calm, AcksCalm, Holds
  <2>3. Held'.id # 0 => Held' = Held
    BY DEF Calm, HeldCalm
  <2> QED
    BY <2>1, <2>2, <2>3 DEF Sending, Releases
<1>5. UpOrder'
  <2> SUFFICES ASSUME NEW p \in Range(up'), NEW q \in Range(up'), p.type = "PUBREL",
                      q.type = "PUBLISH", QosOf[q.m] = 2, p.id = q.id, Behind(up', p, q)
               PROVE  FALSE
    BY DEF UpOrder, Behind
  <2>1. IsReliable(q)
    BY DEF IsReliable
  <2>2. p \in Range(up) /\ q \in Range(up) /\ Behind(up, p, q)
    BY <2>1 DEF Calm, UpCalm
  <2> QED
    BY <2>2 DEF Sending, UpOrder
<1> QED
  BY <1>1, <1>2, <1>3, <1>4, <1>5 DEF Sending

LEMMA CalmPublications ==
  ASSUME Core, Core', Publications, Calm
  PROVE  Publications'
<1>1. Naming' /\ Sending'
  BY CalmNaming, CalmSending DEF Publications, Sending
<1>2. UNCHANGED <<rel, delivered, accepted>>
  BY DEF Calm
<1>3. ASSUME NEW m \in UpMsgs, NEW id \in Ids, Owns(m, id)'
      PROVE  Delivery(m, id)'
  <2>1. Owns(m, id) /\ Delivery(m, id) /\ id # 0
    BY <1>3, CalmOwns DEF Publications, Naming, Deliveries, Owns
  <2>2. Answered(id)' => Answered(id)
    BY DEF Calm, DownCalm, Answered
  <2>3. QosOf[m] = 2 /\ MayCome(m, id)' => MayCome(m, id)
    <3>1. QosOf[m] = 2 => \A p \in Range(up') : IsPub(p, m, id) => p \in Range(up)
      BY DEF Calm, UpCalm, IsPub, IsReliable
    <3>2. \A e \in Range(acks') : IsPub(e.payload, m, id) => e \in Range(acks)
      BY DEF Calm, AcksCalm, IsPub
    <3>3. IsPub(Held', m, id) => IsPub(Held, m, id)
      BY <2>1, CalmOwns DEF Publications, Naming
    <3> QED
      BY <3>1, <3>2, <3>3 DEF MayCome, IsPub
  <2> QED
    BY <1>2, <2>1, <2>2, <2>3 DEF Delivery
<1>4. Deliveries'
  BY <1>3 DEF Deliveries
<1>5. PublishedOnce'
  BY <1>2 DEF Publications, PublishedOnce
<1>6. Kept'
  <2> SUFFICES ASSUME NEW m \in UpMsgs, accepted'[m] # 0, delivered'[m] = 0, ~Dead'
               PROVE  \E e \in Range(acks') : e.type \in {"PUBACK", "PUBREC"} /\ e.id = accepted'[m]
    BY DEF Kept
  <2>1. PICK e \in Range(acks) : e.type \in {"PUBACK", "PUBREC"} /\ e.id = accepted[m]
    BY <1>2 DEF Publications, Kept, Calm
  <2>2. ~Answered(e.id)
    <3>1. accepted[m] \in Ids /\ Owns(m, accepted[m])
      BY <1>2 DEF Owns, Core, Values
    <3>2. ~Answered(accepted[m])
      BY <1>2, <3>1 DEF Publications, Deliveries, Delivery
    <3> QED
      BY <2>1, <3>2
  <2>3. e \in Range(acks')
    BY <2>1, <2>2 DEF Calm, AcksCalm
  <2> QED
    BY <1>2, <2>1, <2>3
<1> QED
  BY <1>1, <1>4, <1>5, <1>6 DEF Publications

LEMMA UpIsCalm ==
  ASSUME Wires
  PROVE  /\ up' = up \/ up' = <<>> \/ (up # <<>> /\ up' = Tail(up)) => UpCalm
         /\ \A p \in UpPackets :
              ~IsReliable(p) /\ (p.type = "PUBREL" => Released(p.id)) /\ (Sent(p) \/ NotSent) => UpCalm
<1>1. up \in Seq(UpPackets) /\ Len(up) <= MaxWire
  BY DEF Wires
<1>2. \A p \in Range(up) : p.type = "PUBREL" => Released(p.id)
  BY DEF Released
<1>3. \A p, q : Behind(up, p, q) => p \in Range(up)
  BY <1>1, RangeOf DEF Behind
<1>4. up' = up => UpCalm
  BY <1>2, <1>3 DEF UpCalm
<1>5. up' = <<>> => UpCalm
  BY OfNothing DEF UpCalm
<1>6. up # <<>> /\ up' = Tail(up) => UpCalm
  BY <1>1, <1>2, <1>3, OfTail DEF UpCalm
<1>7. ASSUME NEW p \in UpPackets, ~IsReliable(p), p.type = "PUBREL" => Released(p.id),
             Sent(p) \/ NotSent
      PROVE  UpCalm
  <2>1. /\ Range(up') \subseteq Range(up) \union {p}
        /\ \A x, y : Behind(up', x, y) => Behind(up, x, y) \/ (x \in Range(up) /\ y = p)
    BY <1>1, <1>7, SentIs
  <2> QED
    BY <1>2, <1>3, <1>7, <2>1 DEF UpCalm
<1> QED
  BY <1>4, <1>5, <1>6, <1>7

LEMMA DownIsCalm ==
  ASSUME Wires
  PROVE  /\ down' = down \/ down' = <<>> \/ (down # <<>> /\ down' = Tail(down)) => DownCalm
         /\ \A ps \in Seq(DownPackets) :
              /\ down' = down \o ps
              /\ \A p \in Range(ps) : p.type \notin {"PUBACK", "PUBREC"}
              => DownCalm
<1>1. down \in Seq(DownPackets)
  BY DEF Wires
<1>2. down' = <<>> => DownCalm
  BY OfNothing DEF DownCalm
<1>3. down # <<>> /\ down' = Tail(down) => DownCalm
  BY <1>1, OfTail DEF DownCalm
<1>4. ASSUME NEW ps \in Seq(DownPackets), down' = down \o ps,
             \A p \in Range(ps) : p.type \notin {"PUBACK", "PUBREC"}
      PROVE  DownCalm
  <2> DEFINE w == down \o ps
  <2>1. Range(w) = Range(down) \union Range(ps)
    BY <1>1, OfConcat
  <2> HIDE DEF w
  <2>2. down' = w
    BY <1>4 DEF w
  <2> QED
    BY <1>4, <2>1, <2>2 DEF DownCalm
<1> QED
  BY <1>2, <1>3, <1>4 DEF DownCalm

(* An entry that asks for no packet of a user's message.                   *)
IsOther(e) ==
  /\ e.type = "PUBREL" \/ (e.id <= packetId' /\ Held'.id = 0)
  /\ e.type \notin {"PUBACK", "PUBREC"} /\ e.payload.type \notin {"PUBLISH", "PUBREL"}

LEMMA AcksAreCalm ==
  ASSUME Lists
  PROVE  /\ acks' = acks => AcksCalm
         /\ acks' = <<>> /\ Dead' => AcksCalm
         /\ \A e \in Entries : acks' = Recorded(acks, e) /\ IsOther(e) => AcksCalm
         /\ \A t, id : acks' = Unrecorded(acks, t, id) /\ (t \notin {"PUBACK", "PUBREC"} \/ Answered(id))
                       => AcksCalm
         /\ \A i \in 1..Len(acks) :
              acks' = RemoveAt(acks, i) /\ acks[i].type \notin {"PUBACK", "PUBREC"} => AcksCalm
<1>1. acks \in Seq(Entries) /\ Unique(acks)
  BY DEF Lists
<1>2. acks' = <<>> /\ Dead' => AcksCalm
  BY OfNothing DEF AcksCalm
<1>3. ASSUME NEW e \in Entries, acks' = Recorded(acks, e), IsOther(e)
      PROVE  AcksCalm
  <2>1. acks' = acks \/ Range(acks') = Range(acks) \union {e}
    BY <1>1, <1>3, OfRecorded
  <2> QED
    BY <1>3, <2>1 DEF AcksCalm, IsOther
<1>4. ASSUME NEW t, NEW id, acks' = Unrecorded(acks, t, id),
             t \notin {"PUBACK", "PUBREC"} \/ Answered(id)
      PROVE  AcksCalm
  <2>1. Range(acks') = {x \in Range(acks) : x.type # t \/ x.id # id}
    BY <1>1, <1>4, OfUnrecorded
  <2> QED
    BY <1>4, <2>1 DEF AcksCalm
<1>5. ASSUME NEW i \in 1..Len(acks), acks' = RemoveAt(acks, i), acks[i].type \notin {"PUBACK", "PUBREC"}
      PROVE  AcksCalm
  <2>1. Range(acks') = Range(acks) \ {acks[i]}
    BY <1>1, <1>5, OfEntryRemoved
  <2> QED
    BY <1>5, <2>1 DEF AcksCalm
<1> QED
  BY <1>2, <1>3, <1>4, <1>5 DEF AcksCalm

(* The lock is given back by a user whose packet is no message that has an *)
(* id, or by another thread.                                               *)
LEMMA HeldIsCalm ==
  ASSUME Core
  PROVE  /\ UNCHANGED wlock /\ (\A u \in Users : mine'[u] = mine[u]) => Held' = Held
         /\ wlock' \notin Users => Held' = Bad
         /\ ~IsReliable(Bad) /\ Bad.id = 0
<1>1. Bad.id = 0 /\ Bad.type = "BAD"
  BY PacketsAre
<1> HIDE DEF Core
<1> QED
  BY <1>1 DEF Held, IsReliable

USE DEF Core, Values, Control, UserControl, YieldControl, UserPlaces, YieldPlaces, Connecting
USE DEF Return, Release, Crash, Fault, Packs, BrokerReads, BrokerSends

LEMMA PublicationsCall ==
  ASSUME Core, Core', Publications, NEW u \in Users
  PROVE  /\ \A m \in UpMsgs : CallPublish(u, m) => Publications'
         /\ \A t \in Topics : CallSubscribe(u, t) \/ CallUnsubscribe(u, t) => Publications'
         /\ CallDisconnect(u) => Publications'
<1>1. ASSUME NEW p, mine' = [mine EXCEPT ![u] = p], Go(u, "idle", "lock"),
             UNCHANGED <<acks, packetId, wlock, rel, delivered, accepted, up, down>>, OneOwner'
      PROVE  Publications'
  <2>1. wlock # u /\ u # Yield
    BY <1>1, SetsAssumption
  <2>2. Held' = Held
    BY <1>1, <2>1, HeldIs, HeldIsCalm DEF Held
  <2>3. HeldCalm
    BY <1>1, <2>2 DEF HeldCalm
  <2>4. packetId <= packetId' /\ (Dead => Dead')
    BY <1>1, <2>1 DEF Dead
  <2>5. UpCalm /\ DownCalm /\ AcksCalm
    BY <1>1, UpIsCalm, DownIsCalm, AcksAreCalm
  <2>6. Calm
    BY <1>1, <2>3, <2>4, <2>5 DEF Calm
  <2> HIDE DEF Core
  <2> QED
    BY <2>6, CalmPublications
<1>2. ASSUME NEW m \in UpMsgs, CallPublish(u, m)
      PROVE  Publications'
  <2> DEFINE p == Packet("PUBLISH", 0, m)
  <2>1. p.type = "PUBLISH" /\ p.m = m
    BY PacketFields
  <2>2. /\ mine' = [mine EXCEPT ![u] = p] /\ accepted' = accepted /\ accepted[m] = 0
        /\ \A v \in Users : mine[v].m # m
    BY <1>2 DEF CallPublish, Call
  <2> HIDE DEF p
  <2>3. \A v \in Users : mine'[v] = IF v = u THEN p ELSE mine[v]
    BY <2>2
  <2>4. OneOwner'
    BY <2>1, <2>2, <2>3 DEF Publications, Naming, OneOwner, IsReliable
  <2>5. /\ Go(u, "idle", "lock")
        /\ UNCHANGED <<acks, packetId, wlock, rel, delivered, accepted, up, down>>
    BY <1>2 DEF CallPublish, Call
  <2> HIDE DEF Go
  <2> QED
    BY <1>1, <2>2, <2>4, <2>5
<1>3. ASSUME NEW p, p.type # "PUBLISH", mine' = [mine EXCEPT ![u] = p], accepted' = accepted
      PROVE  OneOwner'
  <2>1. \A v \in Users : mine'[v] = IF v = u THEN p ELSE mine[v]
    BY <1>3
  <2> QED
    BY <1>3, <2>1, OwnersAreCalm DEF Publications, Naming, IsReliable
<1>4. ASSUME NEW t \in {"SUBSCRIBE", "UNSUBSCRIBE"}, NEW m, Call(u, t, m)
      PROVE  Publications'
  <2> DEFINE p == Packet(t, 0, m)
  <2>1. p.type # "PUBLISH"
    BY PacketFields
  <2>2. mine' = [mine EXCEPT ![u] = p]
    BY <1>4 DEF Call
  <2> HIDE DEF p
  <2>3. /\ Go(u, "idle", "lock")
        /\ UNCHANGED <<acks, packetId, wlock, rel, delivered, accepted, up, down>>
    BY <1>4 DEF Call
  <2> HIDE DEF Go
  <2> QED
    BY <1>1, <1>3, <2>1, <2>2, <2>3
<1>5. ASSUME CallDisconnect(u) PROVE Publications'
  <2> DEFINE p == Ack("DISCONNECT", 0)
  <2>1. p.type # "PUBLISH"
    BY PacketFields
  <2>2. mine' = [mine EXCEPT ![u] = p]
    BY <1>5 DEF CallDisconnect
  <2> HIDE DEF p
  <2> HIDE DEF Core
  <2> QED
    BY <1>1, <1>3, <1>5, <2>1, <2>2 DEF CallDisconnect
<1> QED
  BY <1>2, <1>4, <1>5 DEF CallSubscribe, CallUnsubscribe

(* Steps of a user that neither send nor record anything.                  *)
LEMMA PublicationsMoves ==
  ASSUME Core, Core', Publications, NEW t \in Threads,
         \/ t \in Users /\ (TooMuch(t) \/ SetCleanSession(t))
         \/ Connect(t) \/ SendConnect(t) \/ WaitConnack(t) \/ Connected(t) \/ ConnectFailed(t)
  PROVE  Publications'
<1>1. /\ UNCHANGED <<acks, packetId, rel, delivered, accepted>>
      /\ down' = down \/ down' = <<>> \/ (down # <<>> /\ down' = Tail(down))
  BY DEF TooMuch, SetCleanSession, Connect, SendConnect, WaitConnack, Connected, ConnectFailed
<1>2. Dead => Dead'
  BY SetsAssumption
     DEF Dead, TooMuch, SetCleanSession, Connect, SendConnect, WaitConnack, Connected, ConnectFailed
<1>3. UpCalm
  <2>1. Ack("CONNECT", 0) \in UpPackets /\ Ack("CONNECT", 0).type = "CONNECT"
    <3>1. "CONNECT" \in PacketTypes \ {"PUBLISH"} /\ 0 \in Ids
      BY BoundsAssumption DEF PacketTypes, Ids
    <3>2. Ack("CONNECT", 0) \in UpPackets
      BY <3>1, AckTypesOf
    <3> QED
      BY <3>2, PacketFields
  <2>2. up' = up \/ up' = <<>> \/ Sent(Ack("CONNECT", 0)) \/ NotSent
    BY DEF TooMuch, SetCleanSession, Connect, SendConnect, WaitConnack, Connected, ConnectFailed
  <2> QED
    BY <2>1, <2>2, UpIsCalm DEF IsReliable
<1>4. /\ \A u \in Users : mine'[u] = mine[u] \/ mine'[u] = Bad
      /\ \A u \in Users : pc'[u] = "send" => pc[u] = "send" /\ mine'[u] = mine[u]
  BY DEF TooMuch, SetCleanSession, Connect, SendConnect, WaitConnack, Connected, ConnectFailed
<1>5. Held' = Held
  <2>1. CASE TooMuch(t) \/ SetCleanSession(t) \/ Connect(t) \/ Connected(t) \/ ConnectFailed(t)
    <3>1. wlock' = wlock /\ (wlock \in Users => mine'[wlock] = mine[wlock])
      BY <2>1 DEF TooMuch, SetCleanSession, Connect, Connected, ConnectFailed
    <3> QED
      BY <3>1 DEF Held
  <2>2. CASE SendConnect(t) \/ WaitConnack(t)
    <3>1. /\ mine' = mine
          /\ wlock = None \/ (wlock = t /\ (t \in Users => mine[t] = Bad))
          /\ wlock' = None \/ (wlock' = t /\ (t \in Users => mine[t] = Bad))
      BY <2>2, SetsAssumption DEF SendConnect, WaitConnack
    <3> QED
      BY <3>1, HeldIs DEF Held
  <2> QED
    BY <2>1, <2>2
<1>6. OneOwner' /\ HeldCalm
  <2>1. OneOwner'
    BY <1>1, <1>4, OwnersAreCalm, HeldIsCalm DEF Publications, Naming
  <2> QED
    BY <1>4, <1>5, <2>1 DEF HeldCalm
<1>7. DownCalm /\ AcksCalm /\ packetId <= packetId'
  BY <1>1, DownIsCalm, AcksAreCalm
<1>8. Calm
  BY <1>1, <1>2, <1>3, <1>6, <1>7 DEF Calm
<1> HIDE DEF Core
<1> QED
  BY <1>8, CalmPublications

(* An entry for a packet that is no message, under the id the user got.    *)
LEMMA PublicationsSubscribe ==
  ASSUME Core, Core', Publications, NEW u \in Users, RecordSubscribe(u) \/ RecordUnsubscribe(u)
  PROVE  Publications'
<1>1. /\ UNCHANGED <<up, down, packetId, rel, delivered, accepted>>
      /\ pc[u] = "record" /\ mine[u].type \in {"SUBSCRIBE", "UNSUBSCRIBE"}
      /\ pc' = [pc EXCEPT ![u] = "idle"] /\ mine' = [mine EXCEPT ![u] = Bad] /\ wlock' = None
  BY DEF RecordSubscribe, RecordUnsubscribe
<1>2. Held = mine[u] /\ Held' = Bad /\ Held'.id = 0 /\ ~IsReliable(Held') /\ ~IsReliable(Held)
  BY <1>1, HeldIs, HeldIsCalm DEF IsReliable
<1>3. HeldCalm
  <2>1. \A v \in Users : mine'[v] = mine[v] \/ ~IsReliable(mine'[v])
    BY <1>1, HeldIsCalm
  <2>2. OneOwner'
    BY <1>1, <2>1, OwnersAreCalm DEF Publications, Naming
  <2>3. \A v \in Users : pc'[v] = "send" => pc[v] = "send" /\ mine'[v] = mine[v]
    BY <1>1
  <2> QED
    BY <1>2, <2>2, <2>3 DEF HeldCalm
<1>4. /\ mine[u] \in UpPackets /\ mine[u].id \in Ids
      /\ mine[u].id <= packetId'
  <2>1. mine[u] \in UserPackets
    OBVIOUS
  <2>2. Held.id <= packetId
    BY DEF Publications, Naming, IdsUsed
  <2> HIDE DEF Core
  <2> QED
    BY <1>1, <1>2, <2>1, <2>2, PacketsAre, PacketFields
<1>5. acks' = acks \/ \E t \in SubTypes, o \in Objects :
                        acks' = Recorded(acks, Entry(t, mine[u].id, mine[u], o))
  <2>1. CASE RecordSubscribe(u)
    BY <2>1 DEF RecordSubscribe, Free, SubTypes
  <2>2. CASE RecordUnsubscribe(u)
    <3> DEFINE found == HandlersOf(mine[u].m)
    <3>1. found # {} => installed[Min(found)] \in Objects
      BY FoundHandler
    <3>2. \/ acks' = acks
          \/ /\ found # {}
             /\ acks' = Recorded(acks, Entry("UNSUBACK", mine[u].id, mine[u], installed[Min(found)]))
      BY <2>2 DEF RecordUnsubscribe
    <3> HIDE DEF found
    <3> QED
      BY <3>1, <3>2 DEF SubTypes
  <2> QED
    BY <2>1, <2>2
<1>6. AcksCalm
  <2>1. ASSUME NEW t \in SubTypes, NEW o \in Objects,
               acks' = Recorded(acks, Entry(t, mine[u].id, mine[u], o))
        PROVE  AcksCalm
    <3> DEFINE e == Entry(t, mine[u].id, mine[u], o)
    <3>1. e \in Entries /\ e.type = t /\ e.id = mine[u].id /\ e.payload = mine[u]
      BY <1>4, EntryFields
    <3>2. t \notin {"PUBACK", "PUBREC"}
      BY DEF SubTypes
    <3> HIDE DEF e
    <3>3. IsOther(e)
      BY <1>1, <1>2, <1>4, <3>1, <3>2 DEF IsOther
    <3> QED
      BY <2>1, <3>1, <3>3, AcksAreCalm DEF e
  <2> QED
    BY <1>5, <2>1, AcksAreCalm
<1>7. UpCalm /\ DownCalm /\ packetId <= packetId'
  BY <1>1, UpIsCalm, DownIsCalm
<1>8. Dead => Dead'
  BY <1>1, SetsAssumption DEF Dead
<1>9. Calm
  BY <1>1, <1>3, <1>6, <1>7, <1>8 DEF Calm
<1> HIDE DEF Core
<1> QED
  BY <1>9, CalmPublications

(* A packet id that was never used before.                                 *)
LEMMA NextIdIsNew ==
  ASSUME Core, IdsLast
  PROVE  NextId = packetId + 1 /\ NextId \in Ids /\ NextId # 0 /\ packetId \in Nat
BY BoundsAssumption DEF IdsLast, NextId, Ids

LEMMA PublicationsSerialize ==
  ASSUME Core, Core', Publications, IdsLast, NEW u \in Users, Serialize(u)
  PROVE  Publications'
<1> DEFINE p == IF HasId(mine[u]) THEN [mine[u] EXCEPT !.id = NextId] ELSE mine[u]
<1>1. /\ UNCHANGED <<acks, up, down, rel, delivered, accepted>>
      /\ pc[u] = "lock" /\ wlock = None /\ mine[u].id = 0
      /\ mine[u].type \in {"PUBLISH", "SUBSCRIBE", "UNSUBSCRIBE", "DISCONNECT"}
      /\ u # Yield
  BY SetsAssumption DEF Serialize
<1>2. Held = Bad
  BY <1>1, HeldIs
<1>3. UpCalm /\ DownCalm /\ AcksCalm
  BY <1>1, UpIsCalm, DownIsCalm, AcksAreCalm
<1>4. mine[u] \in Packets /\ (mine[u].type = "PUBLISH" => mine[u].m \in UpMsgs)
  <2>1. mine[u] \in UserPackets
    OBVIOUS
  <2> HIDE DEF Core
  <2> QED
    BY <2>1, PacketsAre
<1>5. CASE pc' = [pc EXCEPT ![u] = "toomuch"] /\ UNCHANGED <<mine, buffer, packetId>>
  <2>1. Held' = Held
    BY <1>5 DEF Held
  <2>2. OneOwner'
    BY <1>1, <1>5, OwnersAreCalm DEF Publications, Naming
  <2>3. HeldCalm
    BY <1>5, <2>1, <2>2 DEF HeldCalm
  <2>4. packetId <= packetId' /\ (Dead => Dead')
    BY <1>1, <1>5 DEF Dead
  <2>5. Calm
    BY <1>1, <1>3, <2>3, <2>4 DEF Calm
  <2> HIDE DEF Core
  <2> QED
    BY <2>5, CalmPublications
<1>6. CASE /\ pc' = [pc EXCEPT ![u] = "send"] /\ mine' = [mine EXCEPT ![u] = p]
           /\ packetId' = IF HasId(p) THEN NextId ELSE packetId
           /\ wlock' = u
  <2>1. p.type = mine[u].type /\ p.m = mine[u].m /\ (HasId(p) <=> HasId(mine[u]))
    BY <1>4 DEF HasId, Packets
  <2>2. p.id = IF HasId(p) THEN NextId ELSE 0
    BY <1>1, <1>4, <2>1 DEF Packets
  <2> HIDE DEF p
  <2>3. \A v \in Users : mine'[v] = IF v = u THEN p ELSE mine[v]
    BY <1>6
  <2>4. Held' = p
    BY <1>6, <2>3 DEF Held
  <2>5. OneOwner'
    <3> SUFFICES ASSUME NEW v \in Users, IsReliable(mine'[v])
                 PROVE  /\ accepted'[mine'[v].m] = 0
                        /\ \A w \in Users : mine'[w].type = "PUBLISH" /\ mine'[w].m = mine'[v].m => w = v
      BY DEF OneOwner, IsReliable
    <3>1. \A w \in Users : mine'[w].type = mine[w].type /\ mine'[w].m = mine[w].m
      BY <2>1, <2>3
    <3> QED
      BY <1>1, <3>1 DEF Publications, Naming, OneOwner, IsReliable
  <2>6. \A v \in Users : pc'[v] = "send" => v = u
    BY <1>1, <1>6, HeldIs
  <2>7. Dead' <=> Dead
    BY <1>1, <1>6 DEF Dead
  <2>8. CASE ~HasId(p)
    <3>1. Held'.id = 0 /\ ~IsReliable(Held') /\ ~IsReliable(Held)
      <4>1. mine[u].type = "PUBLISH" => QosOf[mine[u].m] \in 0..2
        BY <1>4, MessagesAssumption
      <4>2. ~IsReliable(p)
        BY <2>1, <2>8, <4>1 DEF HasId, IsReliable
      <4> QED
        BY <1>2, <2>2, <2>4, <2>8, <4>2, HeldIsCalm
    <3>2. HeldCalm
      BY <2>3, <2>4, <2>5, <2>6, <3>1 DEF HeldCalm
    <3>3. packetId <= packetId'
      BY <1>6, <2>8
    <3>4. Calm
      BY <1>1, <1>3, <2>7, <3>2, <3>3 DEF Calm
    <3> HIDE DEF Core
    <3> QED
      BY <3>4, CalmPublications
  <2>9. CASE HasId(p)
    <3>1. /\ packetId' = packetId + 1 /\ p.id = packetId + 1 /\ packetId \in Nat /\ p.id # 0
      BY <1>6, <2>2, <2>9, NextIdIsNew
    <3>2. IdsUsed /\ HeldIsNew /\ Named /\ Owned /\ Saved /\ Releases
      BY DEF Publications, Naming, Sending
    <3>3. \A m, id : Owns(m, id) <=> id # 0 /\ accepted[m] = id
      BY <1>2, HeldIsCalm DEF Owns, IsPub
    <3>4. \A m, id : Owns(m, id)' <=> Owns(m, id) \/ (id # 0 /\ IsPub(p, m, id))
      <4> SUFFICES ASSUME NEW m, NEW id
                   PROVE  Owns(m, id)' <=> Owns(m, id) \/ (id # 0 /\ IsPub(p, m, id))
        OBVIOUS
      <4>1. Owns(m, id)' <=> id # 0 /\ (accepted[m] = id \/ IsPub(p, m, id))
        BY <1>1, <2>4 DEF Owns, IsPub
      <4> QED
        BY <3>3, <4>1
    <3>5. /\ \A q \in Range(up) : q.id \in Nat
          /\ \A q \in Range(down) : q.id \in Nat
          /\ \A e \in Range(acks) : e.id \in Nat
          /\ \A m \in UpMsgs : accepted[m] \in Nat
          /\ \A id \in rel : id \in Nat
      <4>1. Ids \subseteq Nat
        BY DEF Ids
      <4>2. /\ \A q \in Range(up) : q \in Packets
            /\ \A q \in Range(down) : q \in Packets
            /\ \A e \in Range(acks) : e \in Entries
        BY RangeOf, PacketsAre DEF Wires, Lists
      <4>3. \A q \in Packets \union Entries : q.id \in Ids
        BY PacketFields, EntryFields
      <4>4. (\A m \in UpMsgs : accepted[m] \in Ids) /\ (\A id \in rel : id \in Ids)
        OBVIOUS
      <4> QED
        BY <4>1, <4>2, <4>3, <4>4
    <3> HIDE DEF Core
    <3>6. IdsUsed'
      <4>1. /\ \A q \in Range(up) : q.type = "PUBREL" \/ IsReliable(q) => q.id <= packetId'
            /\ \A q \in Range(down) : q.type \in {"PUBACK", "PUBREC"} => q.id <= packetId'
            /\ \A e \in Range(acks) : e.type # "PUBREL" => e.id <= packetId'
            /\ \A m \in UpMsgs : accepted[m] <= packetId'
            /\ \A id \in rel : id <= packetId'
            /\ p.id <= packetId'
        BY <3>1, <3>2, <3>5 DEF IdsUsed
      <4> QED
        BY <1>1, <2>4, <4>1 DEF IdsUsed, IsReliable
    <3>7. /\ \A e \in Range(acks) : e.type # "PUBREL" => e.id # p.id
          /\ \A m \in UpMsgs : accepted[m] # p.id
      BY <3>1, <3>2, <3>5 DEF IdsUsed
    <3>8. HeldIsNew'
      BY <1>1, <2>4, <3>7 DEF HeldIsNew
    <3>9. Named'
      <4>1. p.type = "PUBLISH" => QosOf[p.m] # 0
        <5>1. p.type = "PUBLISH" => QosOf[p.m] > 0 /\ QosOf[p.m] \in 0..2
          BY <1>4, <2>1, <2>9, MessagesAssumption DEF HasId
        <5> QED
          BY <5>1
      <4> QED
        BY <1>1, <2>4, <3>1, <3>2, <4>1 DEF Named
    <3>10. p.type = "PUBLISH" => /\ p.m \in UpMsgs /\ IsReliable(p)
                                 /\ accepted[p.m] = 0 /\ delivered[p.m] = 0
                                 /\ \A q \in Range(up) : q.type = "PUBLISH" => q.m # p.m
      <4> SUFFICES ASSUME p.type = "PUBLISH"
                   PROVE  /\ p.m \in UpMsgs /\ IsReliable(p)
                          /\ accepted[p.m] = 0 /\ delivered[p.m] = 0
                          /\ \A q \in Range(up) : q.type = "PUBLISH" => q.m # p.m
        OBVIOUS
      <4>1. p.m \in UpMsgs /\ IsReliable(p)
        BY <1>4, <2>1, <2>4, <3>1, <3>9 DEF Named, IsReliable
      <4>2. accepted[p.m] = 0
        BY <1>1, <2>4, <2>3, <2>5, <4>1 DEF OneOwner, IsReliable
      <4>3. \A id : ~Owns(p.m, id)
        BY <3>3, <4>2
      <4> QED
        BY <3>2, <4>1, <4>2, <4>3 DEF Owned, IsReliable
    <3>11. Owned' /\ Saved'
      BY <1>1, <3>2, <3>4 DEF Owned, Saved, SavedAs, IsReliable
    <3>12. Unsent'
      BY <1>1, <2>3, <2>6, <3>10 DEF Unsent, IsReliable
    <3>13. \A id : Released(id) => id <= packetId /\ id \in Nat
      <4>1. \A id : Released(id) => id \in Ids /\ id <= packetId
        BY ReleasedIsUsed DEF Publications, Sending
      <4> QED
        BY <4>1 DEF Ids
    <3>14. Releases' /\ UpOrder'
      <4>1. \A id \in Ids : Released(id)' <=> Released(id)
        BY <1>1 DEF Released
      <4>2. \A id \in Ids : Released(id) => p.id # id
        BY <3>1, <3>13
      <4> QED
        BY <1>1, <2>4, <3>2, <4>1, <4>2 DEF Releases, UpOrder, Holds, Behind, Publications, Sending
    <3>15. ASSUME NEW m \in UpMsgs, NEW id \in Ids, Owns(m, id)'
           PROVE  Delivery(m, id)'
      <4>1. CASE Owns(m, id)
        <5>1. ~IsPub(p, m, id)
          BY <3>3, <3>7, <4>1 DEF IsPub
        <5>2. MayCome(m, id)' => MayCome(m, id)
          BY <1>1, <2>4, <5>1 DEF MayCome, IsPub
        <5>3. Answered(id)' <=> Answered(id)
          BY <1>1 DEF Answered
        <5> QED
          BY <1>1, <4>1, <5>2, <5>3 DEF Publications, Deliveries, Delivery
      <4>2. CASE IsPub(p, m, id)
        <5>1. id = packetId + 1 /\ delivered[m] = 0
          BY <3>1, <3>10, <4>2 DEF IsPub
        <5>2. id \notin rel /\ ~Answered(id)
          BY <3>1, <3>2, <3>5, <5>1 DEF IdsUsed, Answered
        <5> QED
          BY <1>1, <5>1, <5>2 DEF Delivery, Answered
      <4> QED
        BY <3>4, <3>15, <4>1, <4>2
    <3>16. Deliveries' /\ PublishedOnce' /\ Kept'
      BY <1>1, <2>7, <3>15 DEF Deliveries, Publications, PublishedOnce, Kept
    <3> QED
      BY <2>5, <3>6, <3>8, <3>9, <3>11, <3>12, <3>14, <3>16 DEF Publications, Naming, Sending
  <2> QED
    BY <2>8, <2>9
<1> QED
  BY <1>5, <1>6 DEF Serialize

HIDE DEF Core, Values, Control, UserControl, YieldControl, UserPlaces, YieldPlaces, Connecting
HIDE DEF Return, Release, Crash, Fault, Packs, BrokerReads, BrokerSends

(* A message goes out, for the first time or again, under the lock or      *)
(* while nobody has it.                                                    *)
LEMMA PublicationsSent ==
  ASSUME Core, Core', Publications, NEW p \in UpPackets, IsReliable(p), p.m \in UpMsgs,
         Owns(p.m, p.id), MayCome(p.m, p.id), QosOf[p.m] = 2 => ~Released(p.id),
         up' = Append(up, p), \A u \in Users : pc'[u] # "send",
         Held' = Held, \A u \in Users : mine'[u] = mine[u],
         UNCHANGED <<acks, down, packetId, rel, delivered, accepted>>, Dead => Dead'
  PROVE  Publications'
<1>1. /\ Range(up') = Range(up) \union {p}
      /\ \A x, y : Behind(up', x, y) => Behind(up, x, y) \/ (x \in Range(up) /\ y = p)
      /\ \A x, y : Behind(up, x, y) => x \in Range(up) /\ y \in Range(up)
  <2>1. up \in Seq(UpPackets)
    BY DEF Core, Wires
  <2> QED
    BY <2>1, OfAppend, RangeOf DEF Behind
<1>2. \A m, id : Owns(m, id)' <=> Owns(m, id)
  BY DEF Owns, IsPub
<1>3. \A id : Released(id)' => Released(id)
  BY <1>1 DEF Released, IsReliable
<1>4. IdsUsed'
  <2>1. p.id <= packetId
    BY DEF Owns, IsPub, Publications, Naming, IdsUsed
  <2> QED
    BY <1>1, <2>1 DEF Publications, Naming, IdsUsed, IsReliable
<1>5. HeldIsNew' /\ Named'
  BY DEF Publications, Naming, HeldIsNew, Named
<1>6. OneOwner'
  BY OwnersAreCalm DEF Publications, Naming
<1>7. Owned' /\ Saved'
  BY <1>1, <1>2 DEF Publications, Sending, Owned, Saved, SavedAs, IsReliable
<1>8. Unsent'
  BY DEF Unsent
<1>9. Releases'
  <2> SUFFICES ASSUME NEW id \in Ids, Released(id)'
               PROVE  ~Holds(acks', "PUBREC", id) /\ (Held'.id # 0 => Held'.id # id)
    BY DEF Releases, Holds
  <2> QED
    BY <1>3 DEF Publications, Sending, Releases
<1>10. UpOrder'
  <2> SUFFICES ASSUME NEW x \in Range(up'), NEW y \in Range(up'), x.type = "PUBREL",
                      y.type = "PUBLISH", QosOf[y.m] = 2, x.id = y.id, Behind(up', x, y)
               PROVE  FALSE
    BY DEF UpOrder, Behind
  <2>1. CASE Behind(up, x, y)
    BY <1>1, <2>1 DEF Publications, Sending, UpOrder
  <2>2. CASE x \in Range(up) /\ y = p
    BY <2>2 DEF Released
  <2> QED
    BY <1>1, <2>1, <2>2
<1>11. ASSUME NEW m \in UpMsgs, NEW id \in Ids, Owns(m, id)'
       PROVE  Delivery(m, id)'
  <2>1. Delivery(m, id)
    BY <1>2, <1>11 DEF Publications, Deliveries
  <2>2. MayCome(m, id)' => MayCome(m, id)
    BY <1>1 DEF MayCome, IsPub
  <2> QED
    BY <2>1, <2>2 DEF Delivery, Answered
<1>12. Deliveries' /\ PublishedOnce' /\ Kept'
  BY <1>11 DEF Deliveries, Publications, PublishedOnce, Kept
<1> QED
  BY <1>4, <1>5, <1>6, <1>7, <1>8, <1>9, <1>10, <1>12 DEF Publications, Naming, Sending

(* mqtt_publish gives up because nothing could be sent.                    *)
LEMMA PublicationsUnsent ==
  ASSUME Core, Core', Publications, NEW u \in Users, pc[u] = "send", IsReliable(mine[u]),
         pc' = [pc EXCEPT ![u] = "idle"], mine' = [mine EXCEPT ![u] = Bad], wlock' = None,
         UNCHANGED <<up, acks, down, packetId, rel, delivered, accepted>>
  PROVE  Publications'
<1> DEFINE p == mine[u]
<1>1. /\ Held = p /\ Held' = Bad /\ Bad.id = 0 /\ ~IsReliable(Bad) /\ Bad.type = "BAD"
      /\ p.m \in UpMsgs /\ p.type = "PUBLISH"
      /\ \A v \in Users : pc'[v] = "send" => v # u /\ pc[v] = "send"
  BY HeldIs, HeldIsCalm, PacketsAre DEF Core, Values, IsReliable
<1>2. \A v \in Users : mine'[v] = IF v = u THEN Bad ELSE mine[v]
  BY DEF Core, Values
<1>3. pc'[Yield] = pc[Yield] /\ packetId \in Int /\ packetId >= 0
  BY SetsAssumption DEF Core, Values
<1> HIDE DEF Core, p
<1>4. /\ delivered[p.m] = 0 /\ accepted[p.m] = 0
      /\ \A q \in Range(up) : q.type = "PUBLISH" => q.m # p.m
  BY DEF p, Publications, Sending, Unsent, Naming, OneOwner
<1>5. \A m, id : Owns(m, id)' <=> Owns(m, id) /\ m # p.m
  <2> SUFFICES ASSUME NEW m, NEW id PROVE Owns(m, id)' <=> Owns(m, id) /\ m # p.m
    OBVIOUS
  <2>1. Owns(m, id)' <=> id # 0 /\ accepted[m] = id
    BY <1>1 DEF Owns, IsPub
  <2>2. Owns(m, id) <=> id # 0 /\ (accepted[m] = id \/ IsPub(p, m, id))
    BY <1>1 DEF Owns
  <2>3. CASE m = p.m
    BY <1>4, <2>1, <2>2, <2>3
  <2>4. CASE m # p.m
    BY <2>1, <2>2, <2>4 DEF IsPub
  <2> QED
    BY <2>3, <2>4
<1>6. IdsUsed' /\ HeldIsNew' /\ Named'
  BY <1>1, <1>3 DEF Publications, Naming, IdsUsed, HeldIsNew, Named, IsReliable
<1>7. OneOwner'
  BY <1>1, <1>2, OwnersAreCalm DEF Publications, Naming
<1>8. Owned' /\ Saved'
  BY <1>4, <1>5 DEF Publications, Sending, Owned, Saved, SavedAs, IsReliable
<1>9. Unsent' /\ UpOrder'
  BY <1>1, <1>2 DEF Publications, Sending, Unsent, UpOrder, IsReliable, Behind
<1>10. Releases'
  BY <1>1 DEF Publications, Sending, Releases, Released, Holds
<1>11. ASSUME NEW m \in UpMsgs, NEW id \in Ids, Owns(m, id)'
       PROVE  Delivery(m, id)'
  <2>1. Delivery(m, id)
    BY <1>5, <1>11 DEF Publications, Deliveries
  <2>2. MayCome(m, id)' => MayCome(m, id)
    BY <1>1 DEF MayCome, IsPub
  <2> QED
    BY <2>1, <2>2 DEF Delivery, Answered
<1>12. Deliveries' /\ PublishedOnce' /\ Kept'
  BY <1>3, <1>11 DEF Deliveries, Publications, PublishedOnce, Kept, Dead
<1> QED
  BY <1>6, <1>7, <1>8, <1>9, <1>10, <1>12 DEF Publications, Naming, Sending

USE DEF Core, Values, Control, UserControl, YieldControl, UserPlaces, YieldPlaces, Connecting
USE DEF Return, Release, Crash, Fault, Packs, BrokerReads, BrokerSends

LEMMA PublicationsSend ==
  ASSUME Core, Core', Publications, NEW u \in Users, Send(u)
  PROVE  Publications'
<1> DEFINE p == mine[u]
           b == Buffered(mine[u])
<1>1. /\ UNCHANGED <<acks, down, packetId, rel, delivered, accepted>>
      /\ pc[u] = "send" /\ wlock = u /\ Held = p /\ u # Yield
      /\ Bad.id = 0 /\ ~IsReliable(Bad) /\ Bad.type = "BAD"
  BY SetsAssumption, HeldIs, HeldIsCalm DEF Send
<1>2. p \in UpPackets /\ b \in UpPackets /\ (b = p \/ b = Bad) /\ p.type # "PUBREL"
      /\ (p.type = "PUBLISH" => p.m \in UpMsgs)
  BY <1>1, MineIsNoAnswer, BufferedIs, PacketsAre
<1>3. \A v \in Users : pc'[v] # "send"
  BY <1>1 DEF Send
<1>4. Dead' <=> Dead
  BY <1>1 DEF Send, Dead
<1>5. CASE /\ mine' = mine /\ Sent(b)
           /\ IF p.type = "DISCONNECT" THEN wlock' = None ELSE wlock' = u
  <2>1. \/ Held' = Held
        \/ Held'.id = 0 /\ ~IsReliable(Held') /\ ~IsReliable(Held)
    BY <1>1, <1>5, HeldIs, HeldIsCalm DEF Held, IsReliable
  <2>2. HeldCalm
    <3>1. OneOwner'
      BY <1>1, <1>5, OwnersAreCalm DEF Publications, Naming
    <3> QED
      BY <1>3, <2>1, <3>1 DEF HeldCalm
  <2>3. CASE UpCalm
    <3>1. DownCalm /\ AcksCalm /\ packetId <= packetId'
      BY <1>1, DownIsCalm, AcksAreCalm
    <3>2. Calm
      BY <1>1, <1>4, <2>2, <2>3, <3>1 DEF Calm
    <3> HIDE DEF Core
    <3> QED
      BY <3>2, CalmPublications
  <2>4. CASE ~UpCalm
    <3>1. ~IsReliable(b) => UpCalm
      <4>1. b.type # "PUBREL"
        BY <1>1, <1>2
      <4> QED
        BY <1>2, <1>5, <4>1, UpIsCalm
    <3>2. up' = up => UpCalm
      BY UpIsCalm
    <3>3. IsReliable(p) /\ up' = Append(up, p)
      BY <1>1, <1>2, <1>5, <2>4, <3>1, <3>2 DEF Sent
    <3>4. Held' = Held
      BY <1>1, <2>1, <3>3
    <3> HIDE DEF Core, p
    <3>5. /\ p.m \in UpMsgs /\ Owns(p.m, p.id) /\ MayCome(p.m, p.id)
          /\ ~Released(p.id)
      <4>1. p.type = "PUBLISH" /\ p.m \in UpMsgs /\ p.id # 0 /\ p.id \in Ids
        <5>1. p.id \in Ids
          BY <1>1, HeldIs
        <5> QED
          BY <1>1, <1>2, <3>3, <5>1 DEF Publications, Naming, Named, IsReliable
      <4>2. IsPub(Held, p.m, p.id)
        BY <1>1, <4>1 DEF IsPub
      <4> QED
        BY <1>1, <4>1, <4>2 DEF Owns, MayCome, Publications, Sending, Releases
    <3> QED
      BY <1>1, <1>2, <1>3, <1>4, <1>5, <3>3, <3>4, <3>5, PublicationsSent
  <2> QED
    BY <2>3, <2>4
<1>6. CASE /\ NotSent /\ wlock' = None
           /\ \/ p.type = "DISCONNECT" /\ mine' = mine
              \/ pc' = [pc EXCEPT ![u] = "idle"] /\ mine' = [mine EXCEPT ![u] = Bad]
  <2>1. UpCalm /\ up' = up
    BY <1>6, UpIsCalm DEF NotSent
  <2>2. CASE ~IsReliable(p)
    <3>1. Held'.id = 0 /\ ~IsReliable(Held') /\ ~IsReliable(Held)
      BY <1>1, <1>6, <2>2, HeldIs, HeldIsCalm DEF Held
    <3>2. HeldCalm
      <4>1. \A v \in Users : mine'[v] = mine[v] \/ mine'[v] = Bad
        BY <1>6
      <4>2. OneOwner'
        BY <1>1, <4>1, OwnersAreCalm DEF Publications, Naming
      <4> QED
        BY <1>3, <3>1, <4>2 DEF HeldCalm
    <3>3. DownCalm /\ AcksCalm /\ packetId <= packetId'
      BY <1>1, DownIsCalm, AcksAreCalm
    <3>4. Calm
      BY <1>1, <1>4, <2>1, <3>2, <3>3 DEF Calm
    <3> HIDE DEF Core
    <3> QED
      BY <3>4, CalmPublications
  <2>3. CASE IsReliable(p)
    <3>1. pc' = [pc EXCEPT ![u] = "idle"] /\ mine' = [mine EXCEPT ![u] = Bad]
      BY <1>6, <2>3 DEF IsReliable
    <3> HIDE DEF Core
    <3> QED
      BY <1>1, <1>6, <2>1, <2>3, <3>1, PublicationsUnsent
  <2> QED
    BY <2>2, <2>3
<1> QED
  BY <1>1, <1>5, <1>6 DEF Send

(* What is sent is recorded under its id, whose user gives back the lock.  *)
LEMMA PublicationsRecord ==
  ASSUME Core, Core', Publications, NEW u \in Users, RecordPublish(u)
  PROVE  Publications'
<1> DEFINE p == mine[u]
           b == Buffered(mine[u])
           t == IF QosOf[p.m] = 1 THEN "PUBACK" ELSE "PUBREC"
           e == Entry(t, p.id, b, None)
<1>1. /\ UNCHANGED <<up, down, packetId, rel, delivered>>
      /\ pc[u] = "record" /\ Held = p /\ Held' = Bad /\ u # Yield
      /\ pc' = [pc EXCEPT ![u] = "idle"] /\ mine' = [mine EXCEPT ![u] = Bad]
      /\ Bad.id = 0 /\ ~IsReliable(Bad) /\ Bad.type = "BAD"
      /\ p.type = "PUBLISH"
  BY SetsAssumption, HeldIs, HeldIsCalm DEF RecordPublish
<1>2. /\ p \in UpPackets /\ b \in UpPackets /\ (b = p \/ b = Bad) /\ p.m \in UpMsgs
      /\ p.id \in Ids
  BY <1>1, MineIsNoAnswer, BufferedIs, PacketsAre, HeldIs
<1>3. \A v \in Users : pc'[v] # "send"
  BY <1>1
<1>4. Dead' <=> Dead
  BY <1>1 DEF Dead
<1>5. \A v \in Users : mine'[v] = IF v = u THEN Bad ELSE mine[v]
  BY <1>1
<1>6. IsReliable(p) <=> HasId(p)
  <2>1. QosOf[p.m] \in 0..2
    BY <1>2, MessagesAssumption
  <2> QED
    BY <1>1, <2>1 DEF IsReliable, HasId
<1>7. CASE ~HasId(p)
  <2>1. acks' = acks /\ accepted' = accepted
    BY <1>7 DEF RecordPublish
  <2>2. OneOwner'
    BY <1>1, <1>5, <2>1, OwnersAreCalm DEF Publications, Naming
  <2>3. HeldCalm
    BY <1>1, <1>3, <1>6, <1>7, <2>2 DEF HeldCalm
  <2>4. UpCalm /\ DownCalm /\ AcksCalm /\ packetId <= packetId'
    BY <1>1, <2>1, UpIsCalm, DownIsCalm, AcksAreCalm
  <2>5. Calm
    BY <1>1, <1>4, <2>1, <2>3, <2>4 DEF Calm
  <2> HIDE DEF Core
  <2> QED
    BY <2>5, CalmPublications
<1>8. CASE HasId(p)
  <2>1. /\ e \in Entries /\ e.type = t /\ e.id = p.id /\ e.payload = b
        /\ t \in {"PUBACK", "PUBREC"}
    <3>1. {"PUBACK", "PUBREC"} \subseteq AckTypes \ SubTypes
      BY DEF AckTypes, SubTypes
    <3> QED
      BY <1>2, <3>1, EntryFields
  <2>2. acks' = Recorded(acks, e)
    BY <1>8 DEF RecordPublish
  <2>3. accepted' = IF ~Exists(e.type, p.id) THEN [accepted EXCEPT ![p.m] = p.id] ELSE accepted
    BY <1>8 DEF RecordPublish
  <2>4. t = IF QosOf[p.m] = 1 THEN "PUBACK" ELSE "PUBREC"
    OBVIOUS
  <2>5. acks \in Seq(Entries) /\ Unique(acks) /\ accepted \in [UpMsgs -> Ids]
    BY DEF Lists
  <2>6. \A q \in Range(up) : q.type = "PUBLISH" => q.m \in UpMsgs
    <3>1. \A q \in Range(up) : q \in UpPackets
      BY RangeOf DEF Wires
    <3> QED
      BY <3>1, PacketsAre
  <2>7. \A x \in Range(acks) : x.payload.type = "PUBLISH" => x.payload.m \in UpMsgs
    <3>1. \A x \in Range(acks) : x.payload \in UpPackets
      BY RangeOf, EntryFields DEF Lists
    <3> QED
      BY <3>1, PacketsAre
  <2> HIDE DEF Core, p, b, t, e
  <2>8. p.id # 0
    BY <1>1, <1>6, <1>8 DEF Publications, Naming, Named, IsReliable
  <2>9. ~Holds(acks, e.type, e.id)
    BY <1>1, <2>1, <2>8 DEF Publications, Naming, HeldIsNew, Holds
  <2>10. Range(acks') = Range(acks) \union {e}
    BY <2>1, <2>2, <2>5, <2>9, OfRecorded
  <2>11. \A m \in UpMsgs : accepted'[m] = IF m = p.m THEN p.id ELSE accepted[m]
    <3>1. ~Exists(e.type, p.id)
      BY <2>1, <2>5, <2>9, ExistsIs
    <3> QED
      BY <2>3, <2>5, <3>1
  <2>12. /\ accepted[p.m] = 0
         /\ \A v \in Users : mine[v].type = "PUBLISH" /\ mine[v].m = p.m => v = u
    BY <1>6, <1>8 DEF Publications, Naming, OneOwner, p
  <2>13. \A m \in UpMsgs : \A id : Owns(m, id)' <=> Owns(m, id)
    <3> SUFFICES ASSUME NEW m \in UpMsgs, NEW id PROVE Owns(m, id)' <=> Owns(m, id)
      OBVIOUS
    <3>1. Owns(m, id)' <=> id # 0 /\ accepted'[m] = id
      BY <1>1 DEF Owns, IsPub
    <3>2. Owns(m, id) <=> id # 0 /\ (accepted[m] = id \/ (p.m = m /\ p.id = id))
      BY <1>1 DEF Owns, IsPub
    <3> QED
      BY <2>8, <2>11, <2>12, <3>1, <3>2
  <2>14. IdsUsed'
    <3>1. p.id <= packetId
      BY <1>1 DEF Publications, Naming, IdsUsed
    <3>2. 0 <= packetId
      BY DEF Core, Values
    <3> QED
      BY <1>1, <2>1, <2>10, <2>11, <3>1, <3>2 DEF Publications, Naming, IdsUsed, IsReliable
  <2>15. HeldIsNew'
    BY <1>1 DEF HeldIsNew
  <2>16. Named'
    <3>1. \A m \in UpMsgs : accepted[m] # p.id
      BY <1>1, <2>8 DEF Publications, Naming, HeldIsNew
    <3>2. QosOf[p.m] # 0
      BY <1>6, <1>8 DEF IsReliable
    <3> QED
      BY <1>1, <2>11, <3>1, <3>2 DEF Publications, Naming, Named
  <2>17. OneOwner'
    <3> SUFFICES ASSUME NEW v \in Users, IsReliable(mine'[v])
                 PROVE  /\ accepted'[mine'[v].m] = 0
                        /\ \A w \in Users : mine'[w].type = "PUBLISH" /\ mine'[w].m = mine'[v].m => w = v
      BY DEF OneOwner, IsReliable
    <3>1. v # u /\ mine'[v] = mine[v] /\ mine[v].type = "PUBLISH"
      BY <1>1, <1>5 DEF IsReliable
    <3>2. mine[v].m \in UpMsgs /\ mine[v].m # p.m
      BY <2>12, <3>1, PacketsAre DEF Core, Control, UserControl
    <3>3. \A w \in Users : mine'[w].type = "PUBLISH" => mine'[w] = mine[w]
      BY <1>1, <1>5
    <3> QED
      BY <2>11, <3>1, <3>2, <3>3 DEF Publications, Naming, OneOwner
  <2>18. Owned'
    BY <1>1, <2>6, <2>13 DEF Publications, Sending, Owned, IsReliable
  <2>19. Saved'
    <3>1. \A x \in Range(acks) : SavedAs(x)'
      <4> SUFFICES ASSUME NEW x \in Range(acks) PROVE SavedAs(x)'
        OBVIOUS
      <4>1. SavedAs(x)
        BY DEF Publications, Sending, Saved
      <4>2. x.payload.type = "PUBLISH" => x.payload.m # p.m /\ x.payload.m \in UpMsgs
        BY <2>7, <2>12, <4>1 DEF SavedAs
      <4> QED
        BY <2>11, <4>1, <4>2 DEF SavedAs
    <3>2. ASSUME NEW x, x = e PROVE SavedAs(x)'
      BY <3>2, <1>1, <1>2, <2>1, <2>4, <2>8, <2>11 DEF SavedAs
    <3> QED
      BY <2>10, <3>1, <3>2 DEF Saved
  <2>20. Unsent'
    BY <1>3 DEF Unsent
  <2>21. \A id : Released(id)' => Released(id)
    BY <1>1, <1>2, <2>1, <2>10 DEF Released
  <2>22. Releases'
    <3> SUFFICES ASSUME NEW id \in Ids, Released(id)'
                 PROVE  ~Holds(acks', "PUBREC", id) /\ (Held'.id # 0 => Held'.id # id)
      BY DEF Releases, Holds
    <3>1. Released(id)
      BY <2>21
    <3>2. ~Holds(acks, "PUBREC", id) /\ p.id # id
      BY <1>1, <2>8, <3>1 DEF Publications, Sending, Releases
    <3> QED
      BY <1>1, <2>1, <2>10, <3>2 DEF Holds
  <2>23. UpOrder'
    BY <1>1 DEF Publications, Sending, UpOrder, Behind
  <2>24. ASSUME NEW m \in UpMsgs, NEW id \in Ids, Owns(m, id)'
         PROVE  Delivery(m, id)'
    <3>1. Delivery(m, id)
      BY <2>13, <2>24 DEF Publications, Deliveries
    <3>2. MayCome(m, id)' => MayCome(m, id)
      BY <1>1, <1>2, <2>1, <2>10 DEF MayCome, IsPub
    <3> QED
      BY <1>1, <3>1, <3>2 DEF Delivery, Answered
  <2>25. Deliveries' /\ PublishedOnce'
    BY <1>1, <2>24 DEF Deliveries, Publications, PublishedOnce
  <2>26. Kept'
    <3> SUFFICES ASSUME NEW m \in UpMsgs, accepted'[m] # 0, delivered'[m] = 0, ~Dead'
                 PROVE  \E x \in Range(acks') : x.type \in {"PUBACK", "PUBREC"} /\ x.id = accepted'[m]
      BY DEF Kept
    <3>1. CASE m = p.m
      BY <2>1, <2>10, <2>11, <3>1
    <3>2. CASE m # p.m
      BY <1>1, <1>4, <2>10, <2>11, <3>2 DEF Publications, Kept
    <3> QED
      BY <3>1, <3>2
  <2> QED
    BY <2>14, <2>15, <2>16, <2>17, <2>18, <2>19, <2>20, <2>22, <2>23, <2>25, <2>26
       DEF Publications, Naming, Sending
<1> QED
  BY <1>7, <1>8

(* A saved message goes out again only while PUBREC is waited for, and     *)
(* then no PUBREL of the same id can be on its way before it.              *)
LEMMA PublicationsScans ==
  ASSUME Core, Core', Publications, ScanAll \/ Scan
  PROVE  Publications'
<1>1. \/ \E i \in 1..Len(acks) : Resend(acks[i]) \/ Expire(i)
      \/ UNCHANGED <<acks, up>>
  <2>1. CASE ScanAll
    <3>1. cursor \in 1..Len(acks)
      BY <2>1, RangeOf DEF ScanAll, Lists
    <3> QED
      BY <2>1, <3>1 DEF ScanAll
  <2>2. CASE Scan
    BY <2>2 DEF Scan
  <2> QED
    BY <2>1, <2>2
<1>2. /\ UNCHANGED <<down, packetId, rel, delivered, accepted, wlock, mine>>
      /\ \A u \in Users : pc'[u] = "send" => pc[u] = "send"
      /\ Dead => Dead'
  BY SetsAssumption DEF ScanAll, Scan, Dead
<1>3. Held' = Held /\ OneOwner' /\ HeldCalm
  <2>1. Held' = Held
    BY <1>2 DEF Held
  <2>2. OneOwner'
    BY <1>2, OwnersAreCalm DEF Publications, Naming
  <2> QED
    BY <1>2, <2>1, <2>2 DEF HeldCalm
<1>4. DownCalm /\ packetId <= packetId'
  BY <1>2, DownIsCalm
<1>5. UpCalm /\ AcksCalm => Publications'
  <2> SUFFICES ASSUME UpCalm, AcksCalm PROVE Publications'
    OBVIOUS
  <2>1. Calm
    BY <1>2, <1>3, <1>4 DEF Calm
  <2> HIDE DEF Core
  <2> QED
    BY <2>1, CalmPublications
<1>6. ASSUME NEW i \in 1..Len(acks), Expire(i)
      PROVE  UpCalm /\ AcksCalm
  BY <1>6, UpIsCalm, AcksAreCalm DEF Expire, SubTypes
<1>7. ASSUME NEW i \in 1..Len(acks), Resend(acks[i])
      PROVE  Publications'
  <2> DEFINE p == acks[i].payload
  <2>1. p \in UpPackets /\ acks[i] \in Range(acks)
    BY AcksAre
  <2>2. AcksCalm /\ (up' = up => UpCalm)
    BY <1>7, UpIsCalm, AcksAreCalm DEF Resend
  <2>3. CASE ~IsReliable(p)
    <3>1. SavedAs(acks[i])
      BY <2>1 DEF Publications, Sending, Saved
    <3>2. p.type = "PUBREL" => Released(p.id)
      BY <2>1, <3>1 DEF SavedAs, Released
    <3>3. UpCalm
      BY <1>7, <2>1, <2>3, <3>2, UpIsCalm DEF Resend
    <3> QED
      BY <1>5, <2>2, <3>3
  <2>4. CASE IsReliable(p) /\ up' # up
    <3>1. up' = Append(up, p) /\ acks' = acks
      BY <1>7, <2>4 DEF Resend, Sent, NotSent
    <3>2. \A u \in Users : pc'[u] # "send"
      <4>1. wlock = None /\ None \notin Users
        BY <1>7, HeldIs DEF Resend
      <4>2. \A u \in Users : pc[u] # "send"
        BY <4>1, HeldIs
      <4> QED
        BY <1>2, <4>2
    <3>3. SavedAs(acks[i]) /\ p.m \in UpMsgs /\ p.type = "PUBLISH"
      BY <2>1, <2>4, PacketsAre DEF Publications, Sending, Saved, IsReliable
    <3>4. Owns(p.m, p.id) /\ MayCome(p.m, p.id)
      BY <2>1, <3>3 DEF SavedAs, Owns, MayCome, IsPub
    <3>5. p.id \in Ids
      BY <2>1, PacketsAre, PacketFields
    <3>6. QosOf[p.m] = 2 => ~Released(p.id)
      BY <2>1, <3>3, <3>5 DEF SavedAs, Holds, Publications, Sending, Releases
    <3>7. Dead => Dead'
      BY <1>2
    <3> HIDE DEF Core
    <3> QED
      BY <1>2, <1>3, <2>1, <2>4, <3>1, <3>2, <3>3, <3>4, <3>6, <3>7, PublicationsSent
  <2> QED
    BY <1>5, <2>2, <2>3, <2>4
<1>8. UNCHANGED <<acks, up>> => Publications'
  BY <1>5, UpIsCalm, AcksAreCalm
<1> QED
  BY <1>1, <1>5, <1>6, <1>7, <1>8

HIDE DEF Core, Values, Control, UserControl, YieldControl, UserPlaces, YieldPlaces, Connecting
HIDE DEF Return, Release, Crash, Fault, Packs, BrokerReads, BrokerSends

(* A step that no user takes and that leaves the lock to whoever has it.   *)
LEMMA PublicationsApart ==
  ASSUME Core, Core', Publications, UpCalm, DownCalm, AcksCalm, Dead => Dead',
         \A u \in Users : mine'[u] = mine[u] /\ (pc'[u] = "send" => pc[u] = "send"),
         UNCHANGED <<rel, delivered, accepted, wlock>>, packetId <= packetId'
  PROVE  Publications'
<1>1. Held' = Held
  BY HeldIsCalm
<1>2. OneOwner'
  BY OwnersAreCalm DEF Publications, Naming
<1>3. HeldCalm
  BY <1>1, <1>2 DEF HeldCalm
<1>4. Calm
  BY <1>3 DEF Calm
<1> QED
  BY <1>4, CalmPublications

USE DEF Core, Values, Control, UserControl, YieldControl, UserPlaces, YieldPlaces, Connecting
USE DEF Return, Release, Crash, Fault, Packs, BrokerReads, BrokerSends

LEMMA PublicationsYieldMoves ==
  ASSUME Core, Core', Publications,
         \/ ResubscribeDone \/ ScanAllDone \/ ScanDone \/ Read \/ ReadNothing
         \/ HandleNotConnected \/ HandlePingresp
         \/ AliveNothingDue \/ PingDue \/ SendPing \/ PingUnanswered \/ Disconnected
         \/ LoseLink \/ BrokerCloses
  PROVE  Publications'
<1>1. Dead => Dead'
  BY DEF Dead, ResubscribeDone, ScanAllDone, ScanDone, Read, ReadNothing,
     HandleNotConnected, HandlePingresp, AliveNothingDue, PingDue, SendPing, PingUnanswered,
     Disconnected, LoseLink, BrokerCloses
<1>2. UNCHANGED <<acks, rel, delivered, accepted, wlock, packetId>>
  BY DEF ResubscribeDone, ScanAllDone, ScanDone, Read, ReadNothing,
     HandleNotConnected, HandlePingresp, AliveNothingDue, PingDue, SendPing, PingUnanswered,
     Disconnected, LoseLink, BrokerCloses
<1>3. down' = down \/ down' = <<>> \/ (down # <<>> /\ down' = Tail(down))
  BY DEF ResubscribeDone, ScanAllDone, ScanDone, Read, ReadNothing,
     HandleNotConnected, HandlePingresp, AliveNothingDue, PingDue, SendPing, PingUnanswered,
     Disconnected, LoseLink, BrokerCloses
<1>4. UpCalm
  <2>1. Buffered(PingReq) \in UpPackets /\ Buffered(PingReq).type \in {"PINGREQ", "BAD"}
    <3>1. "PINGREQ" \in PacketTypes \ {"PUBLISH"} /\ 0 \in Ids
      BY BoundsAssumption DEF PacketTypes, Ids
    <3>2. PingReq \in UpPackets
      BY <3>1, AckTypesOf DEF PingReq
    <3>3. PingReq.type = "PINGREQ"
      BY PacketFields DEF PingReq
    <3> QED
      BY <3>2, <3>3, BufferedIs, PacketsAre
  <2>2. up' = up \/ up' = <<>> \/ Sent(Buffered(PingReq)) \/ NotSent
    BY DEF ResubscribeDone, ScanAllDone, ScanDone, Read, ReadNothing,
     HandleNotConnected, HandlePingresp, AliveNothingDue, PingDue, SendPing, PingUnanswered,
     Disconnected, LoseLink, BrokerCloses
  <2> QED
    BY <2>1, <2>2, UpIsCalm DEF IsReliable
<1>5. mine' = mine /\ \A u \in Users : pc'[u] = pc[u]
  BY SetsAssumption DEF ResubscribeDone, ScanAllDone, ScanDone, Read, ReadNothing,
     HandleNotConnected, HandlePingresp, AliveNothingDue, PingDue, SendPing, PingUnanswered,
     Disconnected, LoseLink, BrokerCloses
<1>6. DownCalm /\ AcksCalm /\ packetId <= packetId'
  BY <1>2, <1>3, DownIsCalm, AcksAreCalm
<1> HIDE DEF Core
<1> QED
  BY <1>1, <1>2, <1>4, <1>5, <1>6, PublicationsApart

LEMMA PublicationsResubscribe ==
  ASSUME Core, Core', Publications, IdsLast, Resubscribe
  PROVE  Publications'
<1> DEFINE p == Packet("SUBSCRIBE", NextId, topicOf[installed[cursor]])
<1>1. p \in UpPackets /\ p.type = "SUBSCRIBE" /\ p.id = NextId
  <2>1. cursor \in 1..Len(installed)
    BY RangeOf DEF Resubscribe, Lists
  <2>2. topicOf[installed[cursor]] \in Topics
    BY <2>1, RangeOf DEF Lists
  <2>3. "SUBSCRIBE" \in PacketTypes /\ NextId \in Ids /\ topicOf[installed[cursor]] \in Payloads
    BY <2>2, NextIdType DEF PacketTypes, Payloads
  <2> QED
    BY <2>3, PacketFields DEF UpPackets
<1>2. /\ UNCHANGED <<pc, down, rel, delivered, accepted, wlock, mine>>
      /\ up' = up \/ Sent(p) \/ NotSent
      /\ \/ acks' = acks /\ packetId' \in {packetId, NextId}
         \/ /\ wlock = None /\ packetId' = NextId
            /\ \E o \in Objects : acks' = Recorded(acks, Entry("SUBACK", p.id, p, o))
  BY DEF Resubscribe, Free
<1>3. NextId = packetId + 1 /\ NextId \in Ids /\ packetId \in Nat
  BY NextIdIsNew
<1> HIDE DEF p
<1>4. UpCalm
  BY <1>1, <1>2, UpIsCalm DEF IsReliable
<1>5. AcksCalm
  <2>1. ASSUME NEW o \in Objects, acks' = Recorded(acks, Entry("SUBACK", p.id, p, o)),
               wlock = None, packetId' = NextId
        PROVE  AcksCalm
    <3> DEFINE e == Entry("SUBACK", p.id, p, o)
    <3>1. e \in Entries /\ e.type = "SUBACK" /\ e.payload = p /\ e.id = packetId'
      BY <1>1, <1>3, <2>1, EntryFields DEF SubTypes
    <3>2. Held'.id = 0
      BY <1>2, <2>1, HeldIs, HeldIsCalm
    <3>3. packetId' <= packetId'
      BY <1>3, <2>1
    <3> HIDE DEF e
    <3>4. IsOther(e)
      BY <1>1, <3>1, <3>2, <3>3 DEF IsOther
    <3> QED
      BY <2>1, <3>1, <3>4, AcksAreCalm DEF e
  <2> QED
    BY <1>2, <2>1, AcksAreCalm
<1>6. DownCalm /\ packetId <= packetId' /\ (Dead => Dead')
  BY <1>2, <1>3, DownIsCalm DEF Dead
<1> HIDE DEF Core
<1> QED
  BY <1>2, <1>4, <1>5, <1>6, PublicationsApart

LEMMA PublicationsCleanSession ==
  ASSUME Core, Core', Publications, CleanSession
  PROVE  Publications'
<1>1. /\ UNCHANGED <<rel, delivered, accepted, wlock, packetId, mine>>
      /\ \A u \in Users : pc'[u] = "send" => pc[u] = "send"
      /\ Dead' /\ acks' = <<>> /\ up' = <<>> /\ down' = <<>>
  BY SetsAssumption DEF CleanSession, Dead
<1>2. UpCalm /\ DownCalm /\ AcksCalm /\ packetId <= packetId'
  BY <1>1, UpIsCalm, DownIsCalm, AcksAreCalm
<1> HIDE DEF Core
<1> QED
  BY <1>1, <1>2, PublicationsApart

(* An answer to a subscription, PUBACK, PUBCOMP and PUBREL: an entry that  *)
(* is dropped is answered.                                                 *)
LEMMA PublicationsAnswers ==
  ASSUME Core, Core', Publications,
         HandlePubackPubcomp \/ HandleSuback \/ HandleUnsuback \/ HandlePubrel
  PROVE  Publications'
<1> DEFINE id == Head(down).id
<1>1. /\ UNCHANGED <<rel, delivered, accepted, wlock, packetId, mine>>
      /\ \A u \in Users : pc'[u] = "send" => pc[u] = "send"
      /\ Dead => Dead'
      /\ down # <<>> /\ down' = Tail(down)
  BY SetsAssumption DEF Dead, HandlePubackPubcomp, HandleSuback, HandleUnsuback, HandlePubrel
<1>2. Head(down) \in Range(down) /\ id \in Ids
  BY <1>1, WiresHeads, PacketsAre, PacketFields
<1>3. UpCalm
  <2>1. Ack("PUBCOMP", id) \in UpPackets
    BY <1>2, AnswersAre DEF AckTypes
  <2>2. Ack("PUBCOMP", id).type = "PUBCOMP"
    BY PacketFields
  <2>3. up' = up \/ Sent(Ack("PUBCOMP", id)) \/ NotSent
    BY DEF HandlePubackPubcomp, HandleSuback, HandleUnsuback, HandlePubrel
  <2> QED
    BY <2>1, <2>2, <2>3, UpIsCalm DEF IsReliable
<1>4. \E t \in {"PUBACK", "PUBCOMP", "SUBACK", "UNSUBACK", "PUBREL"} :
        /\ acks' = Unrecorded(acks, t, id)
        /\ t = "PUBACK" => Head(down).type = "PUBACK"
  BY DEF HandlePubackPubcomp, HandleSuback, HandleUnsuback, HandlePubrel
<1>5. AcksCalm
  <2>1. PICK t : /\ acks' = Unrecorded(acks, t, id)
                 /\ t \in {"PUBACK", "PUBCOMP", "SUBACK", "UNSUBACK", "PUBREL"}
                 /\ t = "PUBACK" => Head(down).type = "PUBACK"
    BY <1>4
  <2>2. t \notin {"PUBACK", "PUBREC"} \/ Answered(id)
    BY <1>2, <2>1 DEF Answered
  <2> QED
    BY <2>1, <2>2, AcksAreCalm
<1>6. DownCalm /\ packetId <= packetId'
  BY <1>1, DownIsCalm
<1> HIDE DEF Core
<1> QED
  BY <1>1, <1>3, <1>5, <1>6, PublicationsApart

(* The messages of the broker, and the PUBREL that is waited for.          *)
LEMMA PublicationsReceives ==
  ASSUME Core, Core', Publications, HandlePublish \/ RecordRelease
  PROVE  Publications'
<1>1. /\ UNCHANGED <<rel, delivered, accepted, wlock, packetId>>
      /\ \A u \in Users : mine'[u] = mine[u] /\ pc'[u] = pc[u]
      /\ Dead => Dead'
      /\ down' = down \/ (down # <<>> /\ down' = Tail(down))
  BY SetsAssumption DEF Dead, HandlePublish, RecordRelease
<1>2. PICK id \in Ids :
        /\ up' = up \/ NotSent \/ \E t \in {"PUBACK", "PUBREC"} : Sent(Ack(t, id))
        /\ \/ acks' = acks
           \/ acks' = Recorded(acks, Entry("PUBREL", id, Buffered(Ack("PUBREC", id)), None))
  <2>1. CASE HandlePublish
    <3>1. Head(down).id \in Ids
      BY <2>1, WiresHeads, PacketsAre, PacketFields DEF HandlePublish
    <3> QED
      BY <2>1, <3>1 DEF HandlePublish
  <2>2. CASE RecordRelease
    <3>1. mine[Yield].id \in Ids
      BY PacketsAre, PacketFields
    <3> QED
      BY <2>2, <3>1 DEF RecordRelease
  <2> QED
    BY <2>1, <2>2
<1>3. UpCalm
  <2>1. \A t \in {"PUBACK", "PUBREC"} : Ack(t, id) \in UpPackets /\ Ack(t, id).type = t
    <3>1. \A t \in {"PUBACK", "PUBREC"} : Ack(t, id) \in UpPackets
      BY <1>2, AnswersAre DEF AckTypes
    <3> QED
      BY <3>1, PacketFields
  <2>2. up' = up \/ NotSent \/ \E t \in {"PUBACK", "PUBREC"} : Sent(Ack(t, id))
    BY <1>2
  <2>3. up' = up => UpCalm
    BY UpIsCalm
  <2> QED
    BY <2>1, <2>2, <2>3, UpIsCalm DEF IsReliable, NotSent
<1>4. AcksCalm
  <2> DEFINE b == Buffered(Ack("PUBREC", id))
             e == Entry("PUBREL", id, b, None)
  <2>1. acks' = acks \/ acks' = Recorded(acks, e)
    BY <1>2
  <2>2. b \in UpPackets /\ b.type \in {"PUBREC", "BAD"}
    <3>1. Ack("PUBREC", id) \in UpPackets
      BY <1>2, AnswersAre DEF AckTypes
    <3>2. Ack("PUBREC", id).type = "PUBREC"
      BY PacketFields
    <3> QED
      BY <3>1, <3>2, BufferedIs, PacketsAre
  <2> HIDE DEF b
  <2>3. e \in Entries /\ e.type = "PUBREL" /\ e.payload = b
    <3>1. "PUBREL" \in AckTypes \ SubTypes
      BY DEF AckTypes, SubTypes
    <3> QED
      BY <1>2, <2>2, <3>1, EntryFields
  <2> HIDE DEF e
  <2>4. IsOther(e)
    BY <2>2, <2>3 DEF IsOther
  <2> QED
    BY <2>1, <2>3, <2>4, AcksAreCalm
<1>5. DownCalm /\ packetId <= packetId'
  BY <1>1, DownIsCalm
<1> HIDE DEF Core
<1> QED
  BY <1>1, <1>3, <1>4, <1>5, PublicationsApart

(* From PUBREC on the message is never sent again, only PUBREL.            *)
LEMMA PublicationsPubrec ==
  ASSUME Core, Core', Publications, HandlePubrec
  PROVE  Publications'
<1> DEFINE id == Head(down).id
           release == Ack("PUBREL", id)
           e == Entry("PUBCOMP", id, release, None)
           mid == Recorded(acks, e)
<1>1. /\ UNCHANGED <<rel, delivered, accepted, wlock, packetId, mine>>
      /\ \A u \in Users : pc'[u] = pc[u]
      /\ Dead' <=> Dead
      /\ down # <<>> /\ down' = Tail(down) /\ Head(down).type = "PUBREC"
      /\ wlock = None
      /\ acks' = Unrecorded(mid, "PUBREC", id) /\ (up' = up \/ Sent(release) \/ NotSent)
  BY SetsAssumption DEF HandlePubrec, Dead
<1>2. Head(down) \in Range(down) /\ id \in Ids
  BY <1>1, WiresHeads, PacketsAre, PacketFields
<1>3. release \in UpPackets /\ release.type = "PUBREL" /\ release.id = id
  <2>1. release \in UpPackets
    BY <1>2, AnswersAre DEF AckTypes
  <2> QED
    BY <2>1, PacketFields
<1>4. e \in Entries /\ e.type = "PUBCOMP" /\ e.id = id /\ e.payload = release
  <2>1. "PUBCOMP" \in AckTypes \ SubTypes
    BY DEF AckTypes, SubTypes
  <2> QED
    BY <1>2, <1>3, <2>1, EntryFields
<1> HIDE DEF release, e
<1>5. /\ mid \in Seq(Entries) /\ Unique(mid)
      /\ Range(mid) = Range(acks) \/ Range(mid) = Range(acks) \union {e}
  <2>1. acks \in Seq(Entries) /\ Unique(acks)
    BY DEF Lists
  <2>2. /\ mid \in Seq(Entries) /\ Unique(mid)
        /\ mid = acks \/ Range(mid) = Range(acks) \union {e}
    BY <1>4, <2>1, OfRecorded
  <2> QED
    BY <2>2
<1> HIDE DEF mid
<1>6. /\ \A x \in Range(acks') : (x \in Range(acks) \/ x = e) /\ ~(x.type = "PUBREC" /\ x.id = id)
      /\ \A x \in Range(acks) : x \in Range(acks') \/ (x.type = "PUBREC" /\ x.id = id)
  <2>1. Range(acks') = {x \in Range(mid) : x.type # "PUBREC" \/ x.id # id}
    BY <1>1, <1>5, OfUnrecorded
  <2> QED
    BY <1>5, <2>1
<1>7. /\ Range(up') \subseteq Range(up) \union {release}
      /\ \A x, y : Behind(up', x, y) => Behind(up, x, y) \/ y = release
      /\ \A x, y : Behind(up, x, y) => x \in Range(up) /\ y \in Range(up)
  <2>1. up \in Seq(UpPackets) /\ Len(up) <= MaxWire
    BY DEF Wires
  <2> HIDE DEF Core
  <2>2. \A x, y : Behind(up, x, y) => x \in Range(up) /\ y \in Range(up)
    BY <2>1, RangeOf DEF Behind
  <2>3. CASE Sent(release) \/ NotSent
    BY <1>3, <2>1, <2>2, <2>3, SentIs
  <2> QED
    BY <1>1, <2>2, <2>3
<1>8. \A q \in Range(down') : q \in Range(down)
  BY <1>1, OfTail DEF Wires
<1>9. Held = Bad /\ Held' = Bad /\ Bad.id = 0
  BY <1>1, HeldIs, HeldIsCalm
<1>10. \A u \in Users : pc'[u] # "send"
  <2>1. None \notin Users
    BY SetsAssumption
  <2> QED
    BY <1>1, <2>1
<1> HIDE DEF Core, id
<1>11. Answered(id) /\ id <= packetId
  BY <1>1, <1>2 DEF Answered, Publications, Naming, IdsUsed, id
<1>12. \A m, x : Owns(m, x)' <=> Owns(m, x)
  BY <1>1, <1>9 DEF Owns
<1>13. IdsUsed'
  <2>1. /\ \A p \in Range(up') : p.type = "PUBREL" \/ IsReliable(p) => p.id <= packetId
        /\ \A p \in Range(down') : p.type \in {"PUBACK", "PUBREC"} => p.id <= packetId
        /\ \A x \in Range(acks') : x.type # "PUBREL" => x.id <= packetId
    BY <1>3, <1>4, <1>6, <1>7, <1>8, <1>11 DEF Publications, Naming, IdsUsed
  <2> QED
    BY <1>1, <1>9, <2>1 DEF Publications, Naming, IdsUsed, IsReliable
<1>14. HeldIsNew' /\ Named'
  BY <1>1, <1>9 DEF Publications, Naming, HeldIsNew, Named
<1>15. OneOwner'
  BY <1>1, OwnersAreCalm DEF Publications, Naming
<1>16. Owned'
  BY <1>1, <1>3, <1>7, <1>12 DEF Publications, Sending, Owned, IsReliable
<1>17. Saved'
  <2> SUFFICES ASSUME NEW x \in Range(acks') PROVE SavedAs(x)'
    BY DEF Saved
  <2>1. SavedAs(x)
    BY <1>3, <1>4, <1>6 DEF Publications, Sending, Saved, SavedAs
  <2> QED
    BY <1>1, <2>1 DEF SavedAs
<1>18. Unsent'
  BY <1>10 DEF Unsent
<1>19. Releases'
  <2> SUFFICES ASSUME NEW x \in Ids, Released(x)'
               PROVE  ~Holds(acks', "PUBREC", x) /\ (Held'.id # 0 => Held'.id # x)
    BY DEF Releases, Holds
  <2>1. Released(x) \/ x = id
    BY <1>3, <1>4, <1>6, <1>7 DEF Released
  <2>2. ~Holds(acks', "PUBREC", x)
    BY <1>4, <1>6, <2>1 DEF Publications, Sending, Releases, Holds
  <2> QED
    BY <1>9, <2>2
<1>20. UpOrder'
  <2> SUFFICES ASSUME NEW x \in Range(up'), NEW y \in Range(up'), x.type = "PUBREL",
                      y.type = "PUBLISH", QosOf[y.m] = 2, x.id = y.id, Behind(up', x, y)
               PROVE  FALSE
    BY DEF UpOrder, Behind
  <2>1. Behind(up, x, y) /\ x \in Range(up) /\ y \in Range(up)
    BY <1>3, <1>7
  <2> QED
    BY <2>1 DEF Publications, Sending, UpOrder
<1>21. ASSUME NEW m \in UpMsgs, NEW x \in Ids, Owns(m, x)'
       PROVE  Delivery(m, x)'
  <2>1. Delivery(m, x)
    BY <1>12, <1>21 DEF Publications, Deliveries
  <2>2. MayCome(m, x)' => MayCome(m, x)
    BY <1>3, <1>4, <1>6, <1>7, <1>9 DEF MayCome, IsPub
  <2>3. Answered(x)' => Answered(x)
    BY <1>8 DEF Answered
  <2> QED
    BY <1>1, <2>1, <2>2, <2>3 DEF Delivery
<1>22. Deliveries' /\ PublishedOnce'
  BY <1>1, <1>21 DEF Deliveries, Publications, PublishedOnce
<1>23. Kept'
  <2> SUFFICES ASSUME NEW m \in UpMsgs, accepted'[m] # 0, delivered'[m] = 0, ~Dead'
               PROVE  \E x \in Range(acks') : x.type \in {"PUBACK", "PUBREC"} /\ x.id = accepted'[m]
    BY DEF Kept
  <2>1. PICK x \in Range(acks) : x.type \in {"PUBACK", "PUBREC"} /\ x.id = accepted[m]
    BY <1>1 DEF Publications, Kept
  <2>2. accepted[m] \in Ids /\ Owns(m, accepted[m])
    BY <1>1 DEF Owns, Core, Values
  <2>3. ~Answered(accepted[m])
    BY <1>1, <2>2 DEF Publications, Deliveries, Delivery
  <2>4. x \in Range(acks')
    BY <1>6, <1>11, <2>1, <2>3
  <2> QED
    BY <1>1, <2>1, <2>4
<1> QED
  BY <1>13, <1>14, <1>15, <1>16, <1>17, <1>18, <1>19, <1>20, <1>22, <1>23
     DEF Publications, Naming, Sending

LEMMA OwnsOneId ==
  ASSUME Core, Named, OneOwner, NEW m \in UpMsgs, NEW x, NEW y, Owns(m, x), Owns(m, y)
  PROVE  x = y
<1>1. CASE IsPub(Held, m, x) \/ IsPub(Held, m, y)
  <2>1. Held.id # 0 /\ Held.type = "PUBLISH" /\ Held.m = m
    BY <1>1 DEF Owns, IsPub
  <2>2. wlock \in Users /\ Held = mine[wlock] /\ IsReliable(mine[wlock])
    BY <2>1, HeldIs DEF Named, IsReliable
  <2>3. accepted[m] = 0
    BY <2>1, <2>2 DEF OneOwner
  <2> QED
    BY <2>3 DEF Owns, IsPub
<1>2. CASE accepted[m] = x /\ accepted[m] = y
  BY <1>2
<1> QED
  BY <1>1, <1>2 DEF Owns

(* The broker knows the message again by its id until it is released.      *)
LEMMA PublicationsTaken ==
  ASSUME Core, Core', Publications, BrokerTakesPublish
  PROVE  Publications'
<1> DEFINE p == Head(up)
<1>1. /\ UNCHANGED <<acks, accepted, wlock, packetId, mine, pc>>
      /\ up # <<>> /\ up' = Tail(up)
  BY DEF BrokerTakesPublish
<1>2. /\ p \in UpPackets /\ p \in Range(up) /\ p.type = "PUBLISH" /\ p.m \in UpMsgs /\ p.id \in Ids
      /\ QosOf[p.m] \in 0..2
  BY BrokerTakesPublishIs, MessagesAssumption
<1>3. /\ Range(up') \subseteq Range(up)
      /\ \A x, y : Behind(up', x, y) => Behind(up, x, y)
  BY <1>1, OfTail DEF Wires
<1>4. \A q \in Range(down') : q.type \in {"PUBACK", "PUBREC"} =>
        q \in Range(down) \/ (q.id = p.id /\ IsReliable(p))
  <2>1. CASE down' = down \o <<>>
    <3>1. <<>> \in Seq(DownPackets) /\ Range(<<>>) = {}
      BY OfNothing
    <3> QED
      BY <2>1, <3>1, OfConcat DEF Wires
  <2>2. ASSUME NEW t \in {"PUBACK", "PUBREC"}, down' = down \o <<Ack(t, p.id)>>, QosOf[p.m] # 0
        PROVE  \A q \in Range(down') : q \in Range(down) \/ (q.id = p.id /\ IsReliable(p))
    <3> DEFINE a == Ack(t, p.id)
               ps == <<a>>
    <3>1. a \in DownPackets
      BY <1>2, AnswersAre DEF AckTypes
    <3>2. a.id = p.id
      BY PacketFields
    <3> HIDE DEF a
    <3>3. ps \in Seq(DownPackets) /\ Range(ps) = {a}
      BY <3>1, OfOne
    <3>4. down' = down \o ps /\ down \in Seq(DownPackets)
      BY <2>2 DEF a, Wires
    <3> HIDE DEF ps
    <3>5. Range(down') = Range(down) \union {a}
      BY <3>3, <3>4, OfConcat
    <3> QED
      BY <1>2, <2>2, <3>2, <3>5 DEF IsReliable
  <2>3. \/ down' = down \o <<>>
        \/ QosOf[p.m] # 0 /\ \E t \in {"PUBACK", "PUBREC"} : down' = down \o <<Ack(t, p.id)>>
    <3>1. CASE QosOf[p.m] = 1 /\ down' = down \o <<Ack("PUBACK", p.id)>>
      BY <3>1
    <3>2. CASE QosOf[p.m] = 2 /\ down' = down \o <<Ack("PUBREC", p.id)>>
      BY <3>2
    <3> QED
      BY <3>1, <3>2, BrokerTakesPublishIs
  <2> HIDE DEF Core
  <2> QED
    BY <2>1, <2>2, <2>3
<1>5. /\ delivered' = IF QosOf[p.m] = 2 /\ p.id \in rel THEN delivered ELSE Delivered(p.m)
      /\ rel' = IF QosOf[p.m] = 2 THEN rel \union {p.id} ELSE rel
  BY DEF BrokerTakesPublish
<1>6. delivered \in [UpMsgs -> Nat]
  OBVIOUS
<1> HIDE DEF Core, p
<1>7. /\ \A m \in UpMsgs : m # p.m => delivered'[m] = delivered[m]
      /\ \A m \in UpMsgs : delivered[m] # 0 => delivered'[m] # 0
      /\ ~(QosOf[p.m] = 2 /\ p.id \in rel) => delivered'[p.m] # 0
      /\ QosOf[p.m] = 2 /\ delivered[p.m] = 0 => delivered'[p.m] <= 1
      /\ QosOf[p.m] = 2 /\ p.id \in rel => delivered'[p.m] = delivered[p.m]
  <2>1. CASE QosOf[p.m] = 2 /\ p.id \in rel
    BY <1>5, <2>1
  <2>2. CASE ~(QosOf[p.m] = 2 /\ p.id \in rel)
    <3>1. \A m \in UpMsgs : delivered'[m] =
            IF m = p.m THEN (IF delivered[m] < 2 THEN delivered[m] + 1 ELSE delivered[m])
                       ELSE delivered[m]
      BY <1>5, <1>6, <2>2 DEF Delivered
    <3> QED
      BY <1>2, <1>6, <2>2, <3>1
  <2> QED
    BY <2>1, <2>2
<1>8. Named /\ HeldIsNew /\ OneOwner /\ Held' = Held
  BY <1>1 DEF Publications, Naming, Held
<1>9. \A m, id : Owns(m, id)' <=> Owns(m, id)
  BY <1>1, <1>8 DEF Owns
<1>10. IsReliable(p) => Owns(p.m, p.id) /\ MayCome(p.m, p.id) /\ delivered'[p.m] # 0
  <2> SUFFICES ASSUME IsReliable(p)
               PROVE  Owns(p.m, p.id) /\ MayCome(p.m, p.id) /\ delivered'[p.m] # 0
    OBVIOUS
  <2>1. Owns(p.m, p.id)
    BY <1>2 DEF Publications, Sending, Owned
  <2>2. p.id \in rel => delivered[p.m] # 0
    BY <1>2, <2>1 DEF Publications, Deliveries, Delivery
  <2> QED
    BY <1>2, <1>7, <2>1, <2>2 DEF MayCome, IsPub
<1>11. IdsUsed'
  <2>1. IsReliable(p) => p.id <= packetId
    BY <1>2 DEF Publications, Naming, IdsUsed
  <2>2. QosOf[p.m] = 2 => IsReliable(p)
    BY <1>2 DEF IsReliable
  <2>3. /\ \A q \in Range(up') : q.type = "PUBREL" \/ IsReliable(q) => q.id <= packetId
        /\ \A q \in Range(down') : q.type \in {"PUBACK", "PUBREC"} => q.id <= packetId
        /\ \A id \in rel' : id <= packetId
    BY <1>3, <1>4, <1>5, <2>1, <2>2 DEF Publications, Naming, IdsUsed
  <2> QED
    BY <1>1, <1>8, <2>3 DEF Publications, Naming, IdsUsed, IsReliable
<1>12. HeldIsNew' /\ Named' /\ OneOwner'
  BY <1>1, <1>8 DEF HeldIsNew, Named, OneOwner, IsReliable
<1>13. Owned'
  <2>1. \A m \in UpMsgs : QosOf[m] # 0 /\ delivered'[m] # 0 => \E id \in Ids : Owns(m, id)
    BY <1>2, <1>7, <1>10 DEF Publications, Sending, Owned, IsReliable
  <2> QED
    BY <1>3, <1>9, <2>1 DEF Publications, Sending, Owned, IsReliable
<1>14. Saved' /\ Releases' /\ UpOrder'
  <2>1. Saved'
    BY <1>1 DEF Publications, Sending, Saved, SavedAs
  <2>2. \A id : Released(id)' => Released(id)
    BY <1>1, <1>3 DEF Released
  <2>3. Releases'
    BY <1>1, <1>8, <2>2 DEF Publications, Sending, Releases, Holds
  <2>4. UpOrder'
    BY <1>3 DEF Publications, Sending, UpOrder
  <2> QED
    BY <2>1, <2>3, <2>4
<1>15. Unsent'
  <2> SUFFICES ASSUME NEW u \in Users, pc[u] = "send", IsReliable(mine[u])
               PROVE  /\ delivered'[mine[u].m] = 0
                      /\ \A q \in Range(up') : q.type = "PUBLISH" => q.m # mine[u].m
    BY <1>1 DEF Unsent, IsReliable
  <2>1. /\ delivered[mine[u].m] = 0
        /\ \A q \in Range(up) : q.type = "PUBLISH" => q.m # mine[u].m
    BY DEF Publications, Sending, Unsent
  <2>2. mine[u].m \in UpMsgs
    BY PacketsAre DEF Core, Control, UserControl, IsReliable
  <2> QED
    BY <1>2, <1>3, <1>7, <2>1, <2>2
<1>16. ASSUME NEW m \in UpMsgs, NEW id \in Ids, Owns(m, id)'
       PROVE  Delivery(m, id)'
  <2>1. Owns(m, id) /\ Delivery(m, id)
    BY <1>9, <1>16 DEF Publications, Deliveries
  <2>2. IsReliable(p) /\ id = p.id => m = p.m
    BY <1>2, <1>8, <1>10, <2>1, OwnsOne
  <2>3. Answered(id)' => delivered'[m] # 0
    <3>1. Answered(id)' => Answered(id) \/ (id = p.id /\ IsReliable(p))
      BY <1>4 DEF Answered
    <3> QED
      BY <1>7, <1>10, <2>1, <2>2, <3>1 DEF Delivery
  <2>4. id \in rel' => delivered'[m] # 0
    <3>1. id \in rel' => id \in rel \/ (id = p.id /\ IsReliable(p))
      BY <1>2, <1>5 DEF IsReliable
    <3> QED
      BY <1>7, <1>10, <2>1, <2>2, <3>1 DEF Delivery
  <2>5. QosOf[m] = 2 /\ delivered'[m] # 0 /\ MayCome(m, id)' => id \in rel'
    <3>1. CASE m = p.m
      <4>1. QosOf[m] = 2 => id = p.id
        BY <1>2, <1>8, <1>10, <2>1, <3>1, OwnsOneId DEF IsReliable
      <4> QED
        BY <1>5, <3>1, <4>1
    <3>2. CASE m # p.m
      <4>1. MayCome(m, id)' => MayCome(m, id)
        BY <1>1, <1>3, <1>8 DEF MayCome
      <4> QED
        BY <1>5, <1>7, <2>1, <3>2, <4>1 DEF Delivery
    <3> QED
      BY <3>1, <3>2
  <2> QED
    BY <2>3, <2>4, <2>5 DEF Delivery, Answered
<1>17. PublishedOnce'
  <2> SUFFICES ASSUME NEW m \in UpMsgs, QosOf[m] = 2 PROVE delivered'[m] <= 1
    BY DEF PublishedOnce
  <2>1. delivered[m] <= 1
    BY DEF Publications, PublishedOnce
  <2>2. CASE m # p.m
    BY <1>7, <2>1, <2>2
  <2>3. CASE m = p.m /\ p.id \in rel
    BY <1>7, <2>1, <2>3
  <2>4. CASE m = p.m /\ p.id \notin rel
    <3>1. delivered[p.m] = 0
      BY <1>2, <1>10, <2>4 DEF IsReliable, Publications, Deliveries, Delivery
    <3> QED
      BY <1>7, <2>4, <3>1
  <2> QED
    BY <2>2, <2>3, <2>4
<1>18. Kept' /\ Deliveries'
  <2>1. Dead' <=> Dead
    BY <1>1 DEF Dead
  <2> QED
    BY <1>1, <1>7, <1>16, <2>1 DEF Deliveries, Publications, Kept
<1> QED
  BY <1>11, <1>12, <1>13, <1>14, <1>15, <1>17, <1>18 DEF Publications, Naming, Sending

(* What is released was published before, and is published no more.        *)
LEMMA PublicationsReleased ==
  ASSUME Core, Core', Publications, BrokerReleases
  PROVE  Publications'
<1> DEFINE p == Head(up)
           id == Head(up).id
           a == Ack("PUBCOMP", id)
           ps == <<a>>
<1>1. /\ UNCHANGED <<acks, accepted, wlock, packetId, mine, pc, delivered>>
      /\ up # <<>> /\ up' = Tail(up) /\ p.type = "PUBREL" /\ rel' = rel \ {id}
      /\ down' = down \o ps
  BY DEF BrokerReleases
<1>2. p \in Range(up) /\ id \in Ids
  BY <1>1, WiresHeads, PacketsAre, PacketFields
<1>3. /\ Range(up') \subseteq Range(up)
      /\ \A x, y : Behind(up', x, y) => Behind(up, x, y)
      /\ \A y \in Range(up') : Behind(up, p, y)
  BY <1>1, OfTail DEF Wires
<1>4. a \in DownPackets /\ a.type = "PUBCOMP"
  <2>1. a \in DownPackets
    BY <1>2, AnswersAre DEF AckTypes
  <2> QED
    BY <2>1, PacketFields
<1> HIDE DEF a
<1>5. DownCalm
  <2>1. ps \in Seq(DownPackets) /\ Range(ps) = {a}
    BY <1>4, OfOne
  <2> HIDE DEF ps
  <2> QED
    BY <1>1, <1>4, <2>1, DownIsCalm
<1>6. Held' = Held
  BY <1>1 DEF Held
<1> HIDE DEF Core, p, ps
<1>7. p.id = id /\ Released(id)
  BY <1>1, <1>2 DEF p, Released
<1> HIDE DEF id
<1>8. /\ IdsUsed /\ HeldIsNew /\ Named /\ OneOwner /\ Owned /\ Saved /\ Unsent /\ Releases /\ UpOrder
      /\ Deliveries /\ PublishedOnce /\ Kept
  BY DEF Publications, Naming, Sending
<1>9. \A m, x : Owns(m, x)' <=> Owns(m, x)
  BY <1>1, <1>6 DEF Owns
<1>10. IdsUsed'
  BY <1>1, <1>3, <1>5, <1>6, <1>8 DEF IdsUsed, DownCalm, IsReliable
<1>11. HeldIsNew' /\ Named' /\ OneOwner'
  BY <1>1, <1>6, <1>8 DEF HeldIsNew, Named, OneOwner, IsReliable
<1>12. Owned' /\ Saved' /\ Unsent'
  BY <1>1, <1>3, <1>8, <1>9 DEF Owned, Saved, SavedAs, Unsent, IsReliable
<1>13. Releases' /\ UpOrder'
  <2>1. \A x : Released(x)' => Released(x)
    BY <1>1, <1>3 DEF Released
  <2>2. Releases'
    BY <1>1, <1>6, <1>8, <2>1 DEF Releases, Holds
  <2>3. UpOrder'
    BY <1>3, <1>8 DEF UpOrder
  <2> QED
    BY <2>2, <2>3
<1>14. ASSUME NEW m \in UpMsgs, NEW x \in Ids, Owns(m, x)'
       PROVE  Delivery(m, x)'
  <2>1. Delivery(m, x) /\ x # 0
    BY <1>8, <1>9, <1>14 DEF Deliveries, Owns
  <2>2. Answered(x)' => Answered(x)
    BY <1>5 DEF DownCalm, Answered
  <2>3. MayCome(m, x)' => MayCome(m, x)
    BY <1>1, <1>3, <1>6 DEF MayCome
  <2>4. QosOf[m] = 2 /\ MayCome(m, x)' => x # id
    <3> SUFFICES ASSUME QosOf[m] = 2, MayCome(m, x)', x = id PROVE FALSE
      OBVIOUS
    <3>1. ASSUME NEW q \in Range(up'), IsPub(q, m, id) PROVE FALSE
      <4>1. q \in Range(up) /\ Behind(up, p, q) /\ q.type = "PUBLISH" /\ QosOf[q.m] = 2 /\ q.id = id
        BY <1>3, <3>1 DEF IsPub
      <4> QED
        BY <1>1, <1>2, <1>7, <1>8, <4>1 DEF UpOrder
    <3>2. ASSUME NEW e \in Range(acks), IsPub(e.payload, m, id) PROVE FALSE
      <4>1. e.type = "PUBREC" /\ e.id = id
        BY <1>8, <3>2 DEF Saved, SavedAs, IsPub
      <4> QED
        BY <1>2, <1>7, <1>8, <4>1 DEF Releases, Holds
    <3>3. ~IsPub(Held, m, id)
      BY <1>2, <1>7, <1>8, <2>1 DEF Releases, IsPub
    <3> QED
      BY <1>1, <1>6, <3>1, <3>2, <3>3 DEF MayCome, IsPub
  <2> QED
    BY <1>1, <2>1, <2>2, <2>3, <2>4 DEF Delivery
<1>15. Deliveries' /\ PublishedOnce' /\ Kept'
  BY <1>1, <1>8, <1>14 DEF Deliveries, PublishedOnce, Kept, Dead
<1> QED
  BY <1>10, <1>11, <1>12, <1>13, <1>15 DEF Publications, Naming, Sending

(* The broker's own messages, and its answers to anything but a message.   *)
LEMMA PublicationsBroker ==
  ASSUME Core, Core', Publications,
         \/ BrokerConnects \/ BrokerTakesAck \/ BrokerAnswers \/ \E m \in DownMsgs : BrokerPublishes(m)
  PROVE  Publications'
<1>1. /\ UNCHANGED <<acks, accepted, wlock, packetId, mine, pc, delivered, rel>>
      /\ up' = up \/ (up # <<>> /\ up' = Tail(up))
      /\ BrokerTakesAck \/ BrokerAnswers => up # <<>>
  BY DEF BrokerConnects, BrokerTakesAck, BrokerAnswers, BrokerPublishes
<1>2. \E ps \in Seq(DownPackets) : /\ down' = down \o ps
                                   /\ \A q \in Range(ps) : q.type \notin {"PUBACK", "PUBREC"}
  <2> DEFINE id == Head(up).id
  <2>1. ASSUME NEW q \in DownPackets, q.type \notin {"PUBACK", "PUBREC"}, down' = down \o <<q>>
        PROVE  \E ps \in Seq(DownPackets) : /\ down' = down \o ps
                                            /\ \A x \in Range(ps) : x.type \notin {"PUBACK", "PUBREC"}
    <3> DEFINE one == <<q>>
    <3>1. one \in Seq(DownPackets) /\ Range(one) = {q} /\ down' = down \o one
      BY <2>1, OfOne
    <3> HIDE DEF one
    <3> QED
      BY <2>1, <3>1
  <2>2. CASE down' = down \o <<>>
    <3> DEFINE none == <<>>
    <3>1. none \in Seq(DownPackets) /\ Range(none) = {} /\ down' = down \o none
      BY <2>2, OfNothing
    <3> HIDE DEF none
    <3> QED
      BY <3>1
  <2>3. CASE BrokerConnects
    <3> DEFINE c == Ack("CONNACK", 0)
               one == <<c>>
               all == one \o AllAgain
    <3>1. c \in DownPackets
      <4>1. "CONNACK" \in PacketTypes \ {"PUBLISH"} /\ 0 \in Ids
        BY BoundsAssumption DEF PacketTypes, Ids
      <4> QED
        BY <4>1, AckTypesOf
    <3>2. c.type = "CONNACK"
      BY PacketFields
    <3>3. down' = down \o all
      BY <2>3, BrokerConnectsIs
    <3> HIDE DEF c
    <3>4. one \in Seq(DownPackets) /\ Range(one) = {c} /\ AllAgain \in Seq(DownPackets)
      BY <3>1, OfOne, AllAgainIs
    <3> HIDE DEF one
    <3>5. all \in Seq(DownPackets) /\ Range(all) = Range(one) \union Range(AllAgain)
      BY <3>4, OfConcat
    <3>6. \A q \in Range(AllAgain) : q.type \in {"PUBLISH", "PUBREL"}
      <4>1. \A m \in Unanswered : Again(m).type \in {"PUBLISH", "PUBREL"}
        BY PacketFields DEF Again
      <4> QED
        BY <4>1, AllAgainIs
    <3>7. \A q \in Range(all) : q.type \notin {"PUBACK", "PUBREC"}
      BY <3>2, <3>4, <3>5, <3>6
    <3> HIDE DEF all
    <3> QED
      BY <3>3, <3>5, <3>7
  <2>4. CASE BrokerTakesAck \/ BrokerAnswers
    <3>1. id \in Ids
      BY <1>1, <2>4, WiresHeads, PacketsAre, PacketFields
    <3>2. \A t \in {"PUBREL", "UNSUBACK"} : Ack(t, id) \in DownPackets /\ Ack(t, id).type = t
      <4>1. \A t \in {"PUBREL", "UNSUBACK"} : Ack(t, id) \in DownPackets
        BY <3>1, AnswersAre DEF AckTypes
      <4> QED
        BY <4>1, PacketFields
    <3>3. \A r \in {"granted", "refused"} : /\ Packet("SUBACK", id, r) \in DownPackets
                                            /\ Packet("SUBACK", id, r).type = "SUBACK"
      BY <3>1, PacketFields DEF DownPackets, PacketTypes, AckTypes, Payloads
    <3>4. Ack("PINGRESP", 0) \in DownPackets /\ Ack("PINGRESP", 0).type = "PINGRESP"
      <4>1. "PINGRESP" \in PacketTypes \ {"PUBLISH"} /\ 0 \in Ids
        BY BoundsAssumption DEF PacketTypes, Ids
      <4>2. Ack("PINGRESP", 0) \in DownPackets
        BY <4>1, AckTypesOf
      <4> QED
        BY <4>2, PacketFields
    <3>5. \/ \E r \in {"granted", "refused"} : down' = down \o <<Packet("SUBACK", id, r)>>
          \/ \E t \in {"PUBREL", "UNSUBACK"} : down' = down \o <<Ack(t, id)>>
          \/ down' = down \o <<Ack("PINGRESP", 0)>>
          \/ down' = down \o <<>>
      BY <2>4 DEF BrokerTakesAck, BrokerAnswers
    <3> HIDE DEF Core
    <3>6. \/ down' = down \o <<>>
          \/ \E q \in DownPackets : q.type \notin {"PUBACK", "PUBREC"} /\ down' = down \o <<q>>
      BY <3>2, <3>3, <3>4, <3>5
    <3> QED
      BY <2>1, <2>2, <3>6
  <2>5. ASSUME NEW m \in DownMsgs, BrokerPublishes(m)
        PROVE  \E q \in DownPackets : q.type \notin {"PUBACK", "PUBREC"} /\ down' = down \o <<q>>
    <3> DEFINE q == Packet("PUBLISH", BrokerId[m], m)
    <3>1. q \in DownPackets
      BY BrokerPacketsAre
    <3>2. q.type = "PUBLISH" /\ down' = down \o <<q>>
      BY <2>5, PacketFields DEF BrokerPublishes
    <3> HIDE DEF q
    <3> QED
      BY <3>1, <3>2
  <2> QED
    BY <2>1, <2>3, <2>4, <2>5
<1>3. UpCalm /\ DownCalm /\ AcksCalm /\ packetId <= packetId' /\ (Dead => Dead')
  <2>1. UpCalm
    BY <1>1, UpIsCalm
  <2>2. DownCalm
    <3>1. PICK ps \in Seq(DownPackets) : /\ down' = down \o ps
                                         /\ \A q \in Range(ps) : q.type \notin {"PUBACK", "PUBREC"}
      BY <1>2
    <3> QED
      BY <3>1, DownIsCalm
  <2>3. AcksCalm
    BY <1>1, AcksAreCalm
  <2>4. packetId \in Nat /\ (Dead => Dead')
    BY <1>1 DEF Dead
  <2> QED
    BY <1>1, <2>1, <2>2, <2>3, <2>4
<1> HIDE DEF Core
<1> QED
  BY <1>1, <1>3, PublicationsApart

LEMMA PublicationsInit == Init => Publications
<1> SUFFICES ASSUME Init PROVE Publications
  OBVIOUS
<1>1. Range(up) = {} /\ Range(down) = {} /\ Range(acks) = {}
  BY OfNothing DEF Init
<1>2. /\ packetId = 1 /\ wlock = None /\ rel = {}
      /\ \A m \in UpMsgs : delivered[m] = 0 /\ accepted[m] = 0
      /\ \A u \in Users : mine[u] = Bad /\ pc[u] # "send"
  BY SetsAssumption DEF Init
<1>3. Held = Bad /\ Bad.id = 0 /\ Bad.type = "BAD"
  BY <1>2, SetsAssumption, PacketsAre DEF Held
<1>4. IdsUsed /\ HeldIsNew /\ Named
  BY <1>1, <1>2, <1>3 DEF IdsUsed, HeldIsNew, Named
<1>5. OneOwner /\ Unsent
  BY <1>2, <1>3 DEF OneOwner, Unsent, IsReliable
<1>6. Owned /\ Saved /\ Releases /\ UpOrder
  BY <1>1, <1>2 DEF Owned, Saved, Releases, Released, UpOrder
<1>7. \A m \in UpMsgs : \A id : ~Owns(m, id)
  BY <1>2, <1>3 DEF Owns, IsPub
<1>8. Deliveries /\ PublishedOnce /\ Kept
  BY <1>2, <1>7 DEF Deliveries, PublishedOnce, Kept
<1> QED
  BY <1>4, <1>5, <1>6, <1>8 DEF Publications, Naming, Sending

LEMMA PublicationsStep == Core /\ Core' /\ IdsLast /\ Publications /\ [Next]_vars => Publications'
<1> SUFFICES ASSUME Core, Core', IdsLast, Publications, [Next]_vars PROVE Publications'
  OBVIOUS
<1>1. CASE UNCHANGED vars
  <2>1. UpCalm /\ DownCalm /\ AcksCalm /\ packetId <= packetId' /\ (Dead => Dead')
    BY <1>1, UpIsCalm, DownIsCalm, AcksAreCalm DEF vars, Dead
  <2> HIDE DEF Core
  <2> QED
    BY <1>1, <2>1, PublicationsApart DEF vars
<1>2. ASSUME NEW u \in Users,
             \/ \E m \in UpMsgs : CallPublish(u, m)
             \/ \E t \in Topics : CallSubscribe(u, t) \/ CallUnsubscribe(u, t)
             \/ CallDisconnect(u) \/ Connect(u)
             \/ UserStep(u) \/ ConnectStep(u)
      PROVE  Publications'
  <2>1. u \in Threads
    OBVIOUS
  <2> HIDE DEF Core, Threads
  <2> QED
    BY <1>2, <2>1, PublicationsCall, PublicationsMoves, PublicationsSerialize, PublicationsSend,
       PublicationsRecord, PublicationsSubscribe DEF UserStep, ConnectStep
<1>3. ASSUME YieldStep PROVE Publications'
  <2>1. Yield \in Threads
    OBVIOUS
  <2> HIDE DEF Core, Threads
  <2> QED
    BY <1>3, <2>1, PublicationsMoves, PublicationsYieldMoves, PublicationsResubscribe,
       PublicationsScans, PublicationsCleanSession, PublicationsAnswers, PublicationsReceives,
       PublicationsPubrec DEF YieldStep, ConnectStep
<1>4. CASE LoseLink \/ BrokerStep \/ \E m \in DownMsgs : BrokerPublishes(m)
  <2> HIDE DEF Core
  <2> QED
    BY <1>4, PublicationsYieldMoves, PublicationsTaken, PublicationsReleased, PublicationsBroker
       DEF BrokerStep
<1> QED
  BY <1>1, <1>2, <1>3, <1>4 DEF Next

(* How the messages of the users stand between ack list, wires and broker, *)
(* as long as the packet ids have not come round: whom an id belongs to,   *)
(* what is saved and sent under it, and what the broker knows of it.       *)
THEOREM PublicationsHold == Spec /\ []IdsLast => []Publications
<1> HIDE DEF Core
<1> QED
  BY CoreHolds, PublicationsInit, PublicationsStep, PTL DEF Spec

(* The broker passes a QoS 2 message on once at most, although the client  *)
(* sends it again after time-outs and on new connections, as long as the   *)
(* packet ids have not come round.                                         *)
THEOREM NothingIsPublishedTwice == Spec /\ []IdsLast => []PublishedOnce
<1>1. Publications => PublishedOnce
  BY DEF Publications
<1> QED
  BY <1>1, PublicationsHold, PTL

(* What mqtt_publish accepted is in the ack list until the broker has it,  *)
(* as long as the packet ids have not come round.                          *)
THEOREM AcceptedStaysKept == Spec /\ []IdsLast => []AcceptedIsKept
<1>1. Core /\ Publications => AcceptedIsKept
  <2> SUFFICES ASSUME Core, Publications, NEW m \in UpMsgs, accepted[m] # 0, delivered[m] = 0,
                      pc[Yield] \notin {"ended", "crashed"}
               PROVE  Exists("PUBACK", accepted[m]) \/ Exists("PUBREC", accepted[m])
    BY DEF AcceptedIsKept
  <2>1. \E e \in Range(acks) : e.type \in {"PUBACK", "PUBREC"} /\ e.id = accepted[m]
    BY DEF Publications, Kept, Dead
  <2> QED
    BY <2>1, ExistsIs DEF Lists, Holds
<1> HIDE DEF Core
<1> QED
  BY <1>1, CoreHolds, PublicationsHold, PTL

-----------------------------------------------------------------------------
(* Where the handlers are.                                                 *)

IsLinked(o) == o \in Range(installed) \/ \E e \in Range(acks) : e.handler = o
Linked == \A o \in Objects : topicOf[o] # None => IsLinked(o)

(* A subscription that is sent has a packet id.                            *)
Numbered ==
  \A u \in Users : pc[u] \in {"send", "record"} /\ mine[u].type = "SUBSCRIBE" => mine[u].id # 0

LEMMA NumberedStep == Core /\ Numbered /\ [Next]_vars => Numbered'
<1> SUFFICES ASSUME Core, Numbered, [Next]_vars PROVE Numbered'
  OBVIOUS
<1>1. \A u \in Users : u # Yield
  BY SetsAssumption
<1>2. /\ \A u \in Users : pc'[u] \in {"send", "record"} =>
           pc[u] \in {"send", "record"} /\ mine'[u] = mine[u]
      => Numbered'
  BY DEF Numbered
<1>3. ASSUME NEW u \in Users, Serialize(u) PROVE Numbered'
  <2>1. NextId # 0
    BY NextIdType
  <2>2. mine[u] \in Packets
    OBVIOUS
  <2>3. CASE pc' = [pc EXCEPT ![u] = "toomuch"] /\ UNCHANGED mine
    BY <2>3 DEF Numbered
  <2>4. CASE /\ pc' = [pc EXCEPT ![u] = "send"]
             /\ mine' = [mine EXCEPT ![u] = IF HasId(mine[u]) THEN [mine[u] EXCEPT !.id = NextId]
                                                              ELSE mine[u]]
    <3>1. mine'[u].type = "SUBSCRIBE" => mine'[u].id # 0
      BY <2>1, <2>2, <2>4 DEF HasId, Packets
    <3>2. \A v \in Users \ {u} : mine'[v] = mine[v] /\ pc'[v] = pc[v]
      BY <2>4
    <3> QED
      BY <3>1, <3>2 DEF Numbered
  <2> QED
    BY <1>3, <2>3, <2>4 DEF Serialize
<1>4. ASSUME NEW u \in Users, \/ \E m \in UpMsgs : CallPublish(u, m)
                              \/ \E t \in Topics : CallSubscribe(u, t) \/ CallUnsubscribe(u, t)
                              \/ CallDisconnect(u) \/ Connect(u) \/ ConnectStep(u)
      PROVE  Numbered'
  BY <1>1, <1>2, <1>4 DEF Call, CallPublish, CallSubscribe, CallUnsubscribe, CallDisconnect, Connect, ConnectStep,
                          SendConnect, WaitConnack, Connected, ConnectFailed
<1>5. ASSUME NEW u \in Users, UserStep(u) PROVE Numbered'
  <2>1. CASE Send(u)
    BY <1>2, <2>1 DEF Send
  <2> QED
    BY <1>2, <1>3, <1>5, <2>1
       DEF UserStep, TooMuch, RecordPublish, RecordSubscribe, RecordUnsubscribe, SetCleanSession
<1>6. CASE YieldStep
  <2>1. \A u \in Users : pc'[u] \in {pc[u], "crashed"} /\ mine'[u] = mine[u]
    <3>1. CASE ConnectStep(Yield) \/ Connect(Yield)
      BY <1>1, <3>1 DEF ConnectStep, Connect, SendConnect, WaitConnack, Connected, ConnectFailed
    <3>2. CASE \/ Resubscribe \/ ResubscribeDone \/ ScanAll \/ ScanAllDone \/ Scan \/ ScanDone
               \/ CleanSession \/ Read \/ ReadNothing \/ HandleNotConnected \/ HandlePubackPubcomp
      BY <1>1, <3>2 DEF Resubscribe, ResubscribeDone, ScanAll, ScanAllDone, Scan, ScanDone, CleanSession,
                        Read, ReadNothing, HandleNotConnected, HandlePubackPubcomp
    <3>3. CASE HandleSuback \/ HandleUnsuback \/ HandlePublish \/ RecordRelease \/ HandlePubrec
      BY <1>1, <3>3 DEF HandleSuback, HandleUnsuback, HandlePublish, RecordRelease, HandlePubrec
    <3>4. CASE \/ HandlePubrel \/ HandlePingresp
               \/ AliveNothingDue \/ PingDue \/ SendPing \/ PingUnanswered \/ Disconnected
      BY <1>1, <3>4 DEF HandlePubrel, HandlePingresp,
                        AliveNothingDue, PingDue, SendPing, PingUnanswered, Disconnected
    <3> QED
      BY <1>6, <3>1, <3>2, <3>3, <3>4 DEF YieldStep
  <2> QED
    BY <1>2, <2>1
<1>7. CASE LoseLink \/ BrokerStep \/ (\E m \in DownMsgs : BrokerPublishes(m)) \/ UNCHANGED vars
  BY <1>2, <1>7 DEF LoseLink, BrokerStep, BrokerCloses, BrokerConnects, BrokerTakesPublish, BrokerReleases,
                    BrokerTakesAck, BrokerAnswers, BrokerPublishes, vars
<1> QED
  BY <1>4, <1>5, <1>6, <1>7 DEF Next

(* What leaves the handlers alone, and the entries they wait in.           *)
LEMMA LinkedKept ==
  ASSUME Core, Linked, UNCHANGED <<installed, topicOf>>,
         \/ UNCHANGED acks
         \/ \E e \in Entries : acks' = Recorded(acks, e)
         \/ \E t, id : t \notin SubTypes /\ acks' = Unrecorded(acks, t, id)
         \/ \E e \in Entries : \E t, id : t \notin SubTypes /\ acks' = Unrecorded(Recorded(acks, e), t, id)
  PROVE  Linked'
<1>1. acks \in Seq(Entries) /\ Unique(acks)
  BY DEF Lists
<1>2. ASSUME NEW s \in Seq(Entries), Unique(s), NEW t, NEW id, t \notin SubTypes,
             NEW e \in Range(s), e.type \in SubTypes
      PROVE  e \in Range(Unrecorded(s, t, id))
  BY <1>2, OfUnrecorded
<1>3. ASSUME NEW e \in Entries
      PROVE  /\ Recorded(acks, e) \in Seq(Entries) /\ Unique(Recorded(acks, e))
             /\ Range(acks) \subseteq Range(Recorded(acks, e))
  <2> DEFINE s == Recorded(acks, e)
  <2> HIDE DEF Core
  <2>1. s \in Seq(Entries) /\ Unique(s) /\ (s = acks \/ Range(s) = Range(acks) \union {e})
    BY <1>1, OfRecorded
  <2> HIDE DEF s
  <2>2. Range(acks) \subseteq Range(s)
    BY <2>1
  <2> QED
    BY <2>1, <2>2 DEF s
<1>4. \A e \in Range(acks) : e.type \in SubTypes => e \in Range(acks')
  BY <1>1, <1>2, <1>3
<1>5. \A e \in Range(acks) : e.handler \in Objects => e.type \in SubTypes
  BY <1>1, RangeOf, EntryFields
<1> QED
  BY <1>4, <1>5 DEF Linked, IsLinked

(* A handler is taken from the heap and waits for its SUBACK.              *)
LEMMA LinkedAllocated ==
  ASSUME Core, Linked, UNCHANGED installed, NEW o \in Free, NEW t,
         topicOf' = [topicOf EXCEPT ![o] = t],
         NEW id \in Ids, NEW p \in UpPackets, ~Holds(acks, "SUBACK", id),
         acks' = Recorded(acks, Entry("SUBACK", id, p, o))
  PROVE  Linked'
<1> DEFINE e == Entry("SUBACK", id, p, o)
<1>1. e \in Entries /\ e.type = "SUBACK" /\ e.id = id /\ e.handler = o
  BY EntryFields DEF SubTypes, Free
<1>2. acks' = Recorded(acks, e)
  OBVIOUS
<1> HIDE DEF e
<1>3. Range(acks') = Range(acks) \union {e}
  <2>1. acks \in Seq(Entries) /\ Unique(acks) /\ ~Holds(acks, e.type, e.id)
    BY <1>1 DEF Lists
  <2> HIDE DEF Core
  <2> QED
    BY <1>1, <1>2, <2>1, OfRecorded
<1>4. \A x \in Objects \ {o} : topicOf'[x] = topicOf[x]
  BY DEF Lists
<1> QED
  BY <1>1, <1>3, <1>4 DEF Linked, IsLinked

(* The handler of an entry is freed and no other entry lost.               *)
LEMMA LinkedDestroyed ==
  ASSUME Core, Linked, NEW o \in Objects, Destroy(o),
         \A e \in Range(acks) : e \in Range(acks') \/ e.handler = o
  PROVE  Linked'
<1>1. Range(installed') = Range(installed) \ {o}
  BY OfHandlerRemoved DEF Lists, Destroy
<1>2. topicOf'[o] = None /\ \A x \in Objects \ {o} : topicOf'[x] = topicOf[x]
  BY DEF Lists, Destroy
<1> QED
  BY <1>1, <1>2 DEF Linked, IsLinked

LEMMA LinkedSubscribe ==
  ASSUME Core, Publications, Numbered, Linked, NEW u \in Users, RecordSubscribe(u)
  PROVE  Linked'
<1>1. /\ pc[u] = "record" /\ mine[u].type = "SUBSCRIBE" /\ UNCHANGED installed
      /\ \/ UNCHANGED <<acks, topicOf>>
         \/ \E o \in Free :
              /\ topicOf' = [topicOf EXCEPT ![o] = mine[u].m]
              /\ acks' = Recorded(acks, Entry("SUBACK", mine[u].id, mine[u], o))
  BY DEF RecordSubscribe
<1>2. Held = mine[u] /\ mine[u].id # 0 /\ mine[u] \in UpPackets /\ mine[u].id \in Ids
  BY <1>1, HeldIs, PacketsAre DEF Numbered
<1>3. ~Holds(acks, "SUBACK", mine[u].id)
  BY <1>2 DEF Publications, Naming, HeldIsNew, Holds
<1> HIDE DEF Core
<1> QED
  BY <1>1, <1>2, <1>3, LinkedKept, LinkedAllocated

LEMMA LinkedResubscribe ==
  ASSUME Core, Publications, IdsLast, Linked, Resubscribe
  PROVE  Linked'
<1> DEFINE p == Packet("SUBSCRIBE", NextId, topicOf[installed[cursor]])
<1>1. /\ UNCHANGED installed
      /\ \/ UNCHANGED <<acks, topicOf>>
         \/ \E o \in Free : /\ topicOf' = [topicOf EXCEPT ![o] = p.m]
                            /\ acks' = Recorded(acks, Entry("SUBACK", p.id, p, o))
  BY DEF Resubscribe
<1>2. pc[Yield] = "resub" /\ cursor <= Len(installed)
  BY DEF Resubscribe
<1>3. cursor \in 1..Len(installed)
  BY <1>2, RangeOf DEF Lists
<1>4. topicOf[installed[cursor]] \in Topics
  BY <1>3, RangeOf DEF Lists
<1>5. NextId = packetId + 1 /\ NextId \in Ids /\ packetId \in Nat
  BY NextIdIsNew
<1>6. p.id = NextId /\ p \in UpPackets
  <2>1. topicOf[installed[cursor]] \in Payloads /\ "SUBSCRIBE" \in PacketTypes
    BY <1>4 DEF Payloads, PacketTypes
  <2>2. p \in Packets /\ p.type = "SUBSCRIBE" /\ p.id = NextId
    BY <1>5, <2>1, PacketFields
  <2> HIDE DEF p
  <2> QED
    BY <2>2 DEF UpPackets
<1>7. ~Holds(acks, "SUBACK", NextId)
  <2>1. \A e \in Range(acks) : e.type = "SUBACK" => e.id <= packetId
    BY DEF Publications, Naming, IdsUsed
  <2> QED
    BY <1>5, <2>1 DEF Holds
<1> HIDE DEF Core, p
<1> QED
  BY <1>1, <1>5, <1>6, <1>7, LinkedKept, LinkedAllocated

LEMMA LinkedScans ==
  ASSUME Core, Linked, ScanAll \/ Scan
  PROVE  Linked'
<1>1. \/ \E i \in 1..Len(acks) : Expire(i)
      \/ UNCHANGED <<acks, installed, topicOf>>
  <2>1. CASE ScanAll
    <3>1. cursor \in 1..Len(acks)
      BY <2>1, RangeOf DEF ScanAll, Lists
    <3> QED
      BY <2>1, <3>1 DEF ScanAll, Resend
  <2>2. CASE Scan
    BY <2>2 DEF Scan, Resend
  <2> QED
    BY <2>1, <2>2
<1>2. ASSUME NEW i \in 1..Len(acks), Expire(i) PROVE Linked'
  <2>1. acks[i] \in Range(acks) /\ acks[i].handler \in Objects /\ Destroy(acks[i].handler)
    BY <1>2, AcksAre, EntryFields, RangeOf DEF Expire, Lists
  <2>2. Range(acks') = Range(acks) \ {acks[i]}
    BY <1>2, OfEntryRemoved DEF Expire, Lists
  <2> HIDE DEF Core
  <2> QED
    BY <2>1, <2>2, LinkedDestroyed
<1> HIDE DEF Core
<1> QED
  BY <1>1, <1>2, LinkedKept

LEMMA LinkedCleanSession ==
  ASSUME Core, Linked, CleanSession
  PROVE  Linked'
<1> SUFFICES ASSUME NEW o \in Objects PROVE topicOf'[o] = None
  BY DEF Linked
<1>1. topicOf'[o] = IF \/ o \in {installed[i] : i \in 1..Len(installed)}
                       \/ o \in {acks[i].handler : i \in {j \in 1..Len(acks) : acks[j].type \in SubTypes}}
                      THEN None ELSE topicOf[o]
  BY DEF CleanSession
<1>2. ASSUME o \in Range(installed) PROVE o \in {installed[i] : i \in 1..Len(installed)}
  BY <1>2, RangeOf DEF Lists
<1>3. ASSUME NEW e \in Range(acks), e.handler = o
      PROVE  o \in {acks[i].handler : i \in {j \in 1..Len(acks) : acks[j].type \in SubTypes}}
  <2>1. PICK i \in 1..Len(acks) : acks[i] = e
    BY RangeOf DEF Lists
  <2>2. e.type \in SubTypes
    BY <1>3, RangeOf, EntryFields DEF Lists
  <2> QED
    BY <1>3, <2>1, <2>2
<1> QED
  BY <1>1, <1>2, <1>3 DEF Linked, IsLinked

LEMMA LinkedAnswers ==
  ASSUME Core, Linked, HandleSuback \/ HandleUnsuback
  PROVE  Linked'
<1> DEFINE id == Head(down).id
<1>1. PICK t \in SubTypes :
        /\ acks' = Unrecorded(acks, t, id)
        /\ \/ ~Holds(acks, t, id) /\ UNCHANGED <<installed, topicOf>>
           \/ \E i \in 1..Len(acks) :
                /\ acks[i].type = t /\ acks[i].id = id
                /\ \/ topicOf[acks[i].handler] = None /\ UNCHANGED <<installed, topicOf>>
                   \/ Destroy(acks[i].handler)
                   \/ installed' = Append(installed, acks[i].handler) /\ UNCHANGED topicOf
  <2>1. ASSUME NEW t, {i \in 1..Len(acks) : acks[i].type = t /\ acks[i].id = id} = {}
        PROVE  ~Holds(acks, t, id)
    <3>1. \A i \in 1..Len(acks) : ~(acks[i].type = t /\ acks[i].id = id)
      BY <2>1
    <3>2. \A e \in Range(acks) : \E i \in 1..Len(acks) : acks[i] = e
      BY RangeOf DEF Lists
    <3> HIDE DEF Core
    <3> QED
      BY <3>1, <3>2 DEF Holds
  <2>2. CASE HandleSuback
    <3>1. \/ {i \in 1..Len(acks) : acks[i].type = "SUBACK" /\ acks[i].id = id} = {} /\ UNCHANGED <<installed, topicOf>>
          \/ \E i \in 1..Len(acks) :
               /\ acks[i].type = "SUBACK" /\ acks[i].id = id
               /\ \/ topicOf[acks[i].handler] = None /\ UNCHANGED <<installed, topicOf>>
                  \/ Destroy(acks[i].handler)
                  \/ installed' = Append(installed, acks[i].handler) /\ UNCHANGED topicOf
      BY <2>2 DEF HandleSuback
    <3>2. acks' = Unrecorded(acks, "SUBACK", id)
      BY <2>2 DEF HandleSuback
    <3>3. "SUBACK" \in SubTypes
      BY DEF SubTypes
    <3> HIDE DEF Core, id
    <3> QED
      BY <2>1, <3>1, <3>2, <3>3
  <2>3. CASE HandleUnsuback
    <3>1. \/ {i \in 1..Len(acks) : acks[i].type = "UNSUBACK" /\ acks[i].id = id} = {} /\ UNCHANGED <<installed, topicOf>>
          \/ \E i \in 1..Len(acks) :
               /\ acks[i].type = "UNSUBACK" /\ acks[i].id = id
               /\ \/ topicOf[acks[i].handler] = None /\ UNCHANGED <<installed, topicOf>>
                  \/ Destroy(acks[i].handler)
      BY <2>3 DEF HandleUnsuback
    <3>2. acks' = Unrecorded(acks, "UNSUBACK", id)
      BY <2>3 DEF HandleUnsuback
    <3>3. "UNSUBACK" \in SubTypes
      BY DEF SubTypes
    <3> HIDE DEF Core, id
    <3> QED
      BY <2>1, <3>1, <3>2, <3>3
  <2> QED
    BY <2>2, <2>3
<1> HIDE DEF id
<1>2. Range(acks') = {x \in Range(acks) : x.type # t \/ x.id # id}
  BY <1>1, OfUnrecorded DEF Lists
<1>3. CASE ~Holds(acks, t, id) /\ UNCHANGED <<installed, topicOf>>
  <2>1. Range(acks') = Range(acks)
    BY <1>2, <1>3 DEF Holds
  <2> QED
    BY <1>3, <2>1 DEF Linked, IsLinked
<1>4. ASSUME NEW i \in 1..Len(acks), acks[i].type = t, acks[i].id = id,
             \/ topicOf[acks[i].handler] = None /\ UNCHANGED <<installed, topicOf>>
             \/ Destroy(acks[i].handler)
             \/ installed' = Append(installed, acks[i].handler) /\ UNCHANGED topicOf
      PROVE  Linked'
  <2> DEFINE o == acks[i].handler
  <2>1. acks[i] \in Range(acks) /\ o \in Objects
    BY <1>4, EntryFields, RangeOf DEF Lists
  <2>2. \A e \in Range(acks) : e \in Range(acks') \/ e = acks[i]
    BY <1>2, <1>4, <2>1, UniqueInRange DEF Lists
  <2> HIDE DEF o
  <2>3. \A e \in Range(acks) : e \in Range(acks') \/ e.handler = o
    BY <2>2 DEF o
  <2>4. CASE topicOf[o] = None /\ UNCHANGED <<installed, topicOf>>
    BY <2>3, <2>4 DEF Linked, IsLinked
  <2>5. CASE Destroy(o)
    <3> HIDE DEF Core
    <3> QED
      BY <2>1, <2>3, <2>5, LinkedDestroyed
  <2>6. CASE installed' = Append(installed, o) /\ UNCHANGED topicOf
    <3>1. Range(installed') = Range(installed) \union {o}
      BY <2>1, <2>6, OfAppend DEF Lists
    <3> HIDE DEF Core
    <3> QED
      BY <2>3, <2>6, <3>1 DEF Linked, IsLinked
  <2> QED
    BY <1>4, <2>4, <2>5, <2>6 DEF o
<1> QED
  BY <1>1, <1>3, <1>4

HIDE DEF Core, Values, Control, UserControl, YieldControl, UserPlaces, YieldPlaces, Connecting

LEMMA LinkedApart ==
  ASSUME Core, Linked, UNCHANGED <<acks, installed, topicOf>>
  PROVE  Linked'
BY LinkedKept

LEMMA LinkedUser ==
  ASSUME Core, Publications, Numbered, Linked, NEW u \in Users, UserStep(u)
  PROVE  Linked'
<1>1. CASE Serialize(u) \/ TooMuch(u) \/ Send(u) \/ SetCleanSession(u)
  BY <1>1, LinkedApart DEF Serialize, TooMuch, Send, SetCleanSession
<1>2. CASE RecordPublish(u) \/ RecordUnsubscribe(u)
  <2>1. /\ UNCHANGED <<installed, topicOf>> /\ pc[u] = "record"
        /\ mine[u] \in UserPackets /\ mine[u].type \in {"PUBLISH", "UNSUBSCRIBE"}
    BY <1>2 DEF RecordPublish, RecordUnsubscribe, Core, Values, Control, UserControl
  <2>2. mine[u] \in UpPackets /\ mine[u].id \in Ids /\ Buffered(mine[u]) \in UpPackets
    BY <2>1, PacketsAre, PacketFields, BufferedIs DEF UserPackets, UpPackets
  <2>3. CASE RecordPublish(u)
    <3> DEFINE t == IF QosOf[mine[u].m] = 1 THEN "PUBACK" ELSE "PUBREC"
               e == Entry(t, mine[u].id, Buffered(mine[u]), None)
    <3>1. t \in AckTypes \ SubTypes
      BY DEF AckTypes, SubTypes
    <3>2. e \in Entries
      BY <2>2, <3>1, EntryFields
    <3>3. acks' = acks \/ acks' = Recorded(acks, e)
      BY <2>3 DEF RecordPublish
    <3> HIDE DEF e
    <3> QED
      BY <2>1, <3>2, <3>3, LinkedKept
  <2>4. CASE RecordUnsubscribe(u)
    <3> DEFINE found == HandlersOf(mine[u].m)
               o == installed[Min(found)]
               e == Entry("UNSUBACK", mine[u].id, mine[u], o)
    <3>1. found # {} => e \in Entries
      <4>1. found # {} => o \in Objects
        BY FoundHandler DEF Core
      <4> HIDE DEF found, o
      <4> QED
        BY <2>2, <4>1, EntryFields DEF SubTypes
    <3>2. acks' = acks \/ (found # {} /\ acks' = Recorded(acks, e))
      BY <2>4 DEF RecordUnsubscribe
    <3> HIDE DEF e, found
    <3> QED
      BY <2>1, <3>1, <3>2, LinkedKept
  <2> QED
    BY <1>2, <2>3, <2>4
<1> QED
  BY <1>1, <1>2, LinkedSubscribe DEF UserStep

LEMMA LinkedReceives ==
  ASSUME Core, Linked, RecordRelease \/ HandlePubrec \/ HandlePubrel \/ HandlePubackPubcomp
  PROVE  Linked'
<1>1. UNCHANGED <<installed, topicOf>>
  BY DEF RecordRelease, HandlePubrec, HandlePubrel, HandlePubackPubcomp
<1>2. CASE RecordRelease
  <2> DEFINE p == mine[Yield]
             e == Entry("PUBREL", p.id, Buffered(Ack("PUBREC", p.id)), None)
  <2>1. p \in DownPackets
    BY DEF Core, Control, YieldControl
  <2>2. p.id \in Ids
    BY <2>1, PacketsAre, PacketFields
  <2> HIDE DEF p
  <2>3. e \in Entries
    <3>1. Buffered(Ack("PUBREC", p.id)) \in UpPackets
      BY <2>2, AnswersAre, BufferedIs, PacketsAre DEF AckTypes
    <3>2. "PUBREL" \in AckTypes \ SubTypes
      BY DEF AckTypes, SubTypes
    <3> QED
      BY <2>2, <3>1, <3>2, EntryFields
  <2>4. acks' = Recorded(acks, e)
    BY <1>2 DEF RecordRelease, p
  <2> HIDE DEF e
  <2> QED
    BY <1>1, <2>3, <2>4, LinkedKept
<1>3. CASE HandlePubrec
  <2> DEFINE id == Head(down).id
             e == Entry("PUBCOMP", id, Ack("PUBREL", id), None)
  <2>1. id \in Ids
    BY <1>3, WiresHeads, PacketsAre, PacketFields DEF HandlePubrec, Core
  <2>2. acks' = Unrecorded(Recorded(acks, e), "PUBREC", id)
    BY <1>3 DEF HandlePubrec
  <2> HIDE DEF id
  <2>3. e \in Entries
    <3>1. "PUBCOMP" \in AckTypes \ SubTypes /\ "PUBREL" \in AckTypes
      BY DEF AckTypes, SubTypes
    <3>2. Ack("PUBREL", id) \in UpPackets
      BY <2>1, <3>1, AnswersAre
    <3> QED
      BY <2>1, <3>1, <3>2, EntryFields
  <2> HIDE DEF e
  <2>4. "PUBREC" \notin SubTypes
    BY DEF SubTypes
  <2> QED
    BY <1>1, <2>2, <2>3, <2>4, LinkedKept
<1>4. CASE HandlePubrel \/ HandlePubackPubcomp
  <2>1. \E t \in {"PUBREL", "PUBACK", "PUBCOMP"} : \E id : acks' = Unrecorded(acks, t, id)
    BY <1>4 DEF HandlePubrel, HandlePubackPubcomp
  <2>2. \A t \in {"PUBREL", "PUBACK", "PUBCOMP"} : t \notin SubTypes
    BY DEF SubTypes
  <2> QED
    BY <1>1, <2>1, <2>2, LinkedKept
<1> QED
  BY <1>2, <1>3, <1>4

LEMMA LinkedStep ==
  Core /\ IdsLast /\ Publications /\ Numbered /\ Linked /\ [Next]_vars => Linked'
<1> SUFFICES ASSUME Core, IdsLast, Publications, Numbered, Linked, [Next]_vars PROVE Linked'
  OBVIOUS
<1>1. ASSUME NEW u \in Users,
             \/ \E m \in UpMsgs : CallPublish(u, m)
             \/ \E t \in Topics : CallSubscribe(u, t) \/ CallUnsubscribe(u, t)
             \/ CallDisconnect(u)
      PROVE  Linked'
  BY <1>1, LinkedApart DEF Call, CallPublish, CallSubscribe, CallUnsubscribe, CallDisconnect
<1>2. ASSUME NEW t, ConnectStep(t) \/ Connect(t) PROVE Linked'
  BY <1>2, LinkedApart DEF ConnectStep, Connect, SendConnect, WaitConnack, Connected, ConnectFailed
<1>3. CASE YieldStep
  <2>1. CASE ResubscribeDone \/ ScanAllDone \/ ScanDone \/ Read \/ ReadNothing \/ HandleNotConnected
    BY <2>1, LinkedApart DEF ResubscribeDone, ScanAllDone, ScanDone, Read, ReadNothing, HandleNotConnected
  <2>2. CASE \/ HandlePublish \/ HandlePingresp
             \/ AliveNothingDue \/ PingDue \/ SendPing \/ PingUnanswered \/ Disconnected
    BY <2>2, LinkedApart DEF HandlePublish, HandlePingresp,
                             AliveNothingDue, PingDue, SendPing, PingUnanswered, Disconnected
  <2> QED
    BY <1>2, <1>3, <2>1, <2>2, LinkedResubscribe, LinkedScans, LinkedCleanSession, LinkedAnswers,
       LinkedReceives DEF YieldStep
<1>4. CASE LoseLink \/ BrokerStep \/ (\E m \in DownMsgs : BrokerPublishes(m)) \/ UNCHANGED vars
  BY <1>4, LinkedApart DEF LoseLink, BrokerStep, BrokerCloses, BrokerConnects, BrokerTakesPublish,
                           BrokerReleases, BrokerTakesAck, BrokerAnswers, BrokerPublishes, vars
<1> QED
  BY <1>1, <1>2, <1>3, <1>4, LinkedUser DEF Next

(* No memory is lost as long as the packet ids have not come round: a      *)
(* handler is installed, or an entry of the ack list that waits for SUBACK *)
(* or UNSUBACK has it.                                                     *)
THEOREM NoHandlerIsLost == Spec /\ []IdsLast => []NoHandlerLeaked
<1>1. Init => Linked /\ Numbered
  BY SetsAssumption DEF Init, Linked, Numbered
<1>2. Core /\ Linked => NoHandlerLeaked
  <2> SUFFICES ASSUME Core, Linked, NEW o \in Objects, topicOf[o] # None
               PROVE  \/ \E i \in 1..Len(installed) : installed[i] = o
                      \/ \E i \in 1..Len(acks) : acks[i].handler = o
    BY DEF NoHandlerLeaked
  <2>1. acks \in Seq(Entries) /\ installed \in Seq(Objects)
    BY DEF Core, Lists
  <2>2. o \in Range(installed) \/ \E e \in Range(acks) : e.handler = o
    BY DEF Linked, IsLinked
  <2>3. o \in Range(installed) => \E i \in 1..Len(installed) : installed[i] = o
    BY <2>1, RangeOf
  <2>4. \A e \in Range(acks) : \E i \in 1..Len(acks) : acks[i] = e
    BY <2>1, RangeOf
  <2> QED
    BY <2>2, <2>3, <2>4
<1> QED
  BY <1>1, <1>2, NumberedStep, LinkedStep, CoreHolds, PublicationsHold, PTL DEF Spec
=============================================================================
