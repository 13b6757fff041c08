----------------------------- MODULE TimeProofs -----------------------------
(***************************************************************************)
(* The safety properties of the two components that follow the clock: of   *)
(* SkTimer for any number of timers, any delays, times and length of day,  *)
(* and of Sntp for any number of calls, signals and faults.  The two share *)
(* nothing but this module.                                                *)
(***************************************************************************)
EXTENDS SkTimer, Sntp, SequenceTheorems, FiniteSetTheorems, FunctionTheorems,
  WellFoundedInduction, TLAPS

-----------------------------------------------------------------------------
(* Sequences without repetitions: what they hold and in which order.       *)

(* q is somewhere behind p in s.                                           *)
Behind(s, p, q) == \E i, j \in 1..Len(s) : i < j /\ s[i] = p /\ s[j] = q
Once(s) == \A i, j \in 1..Len(s) : s[i] = s[j] => i = j

(* p stands before place i of s; q stands at place i of s or after it.     *)
StandsBefore(s, i, p) == \E k \in 1..(i - 1) : s[k] = p
StandsFrom(s, i, q) == \E k \in i..Len(s) : s[k] = q

LEMMA RangeIs ==
  ASSUME NEW S, NEW s \in Seq(S)
  PROVE  /\ Len(s) \in Nat
         /\ \A i \in 1..Len(s) : s[i] \in Range(s) /\ s[i] \in S
         /\ \A x \in Range(s) : x \in S /\ \E i \in 1..Len(s) : s[i] = x
BY RangeOfSeq, RangeEquality

LEMMA NothingIs ==
  ASSUME NEW S
  PROVE  /\ <<>> \in Seq(S) /\ Len(<<>>) = 0 /\ Range(<<>>) = {}
         /\ Once(<<>>) /\ \A p, q : ~Behind(<<>>, p, q)
<1>1. <<>> \in Seq(S) /\ Len(<<>>) = 0 /\ 1..0 = {}
  BY EmptySeq
<1>2. Range(<<>>) = {}
  BY <1>1, RangeIs
<1> QED
  BY <1>1, <1>2 DEF Once, Behind

(* A part of a sequence.                                                   *)
LEMMA PartIs ==
  ASSUME NEW S, NEW s \in Seq(S), NEW a \in 1..(Len(s) + 1), NEW b \in 0..Len(s), a <= b + 1
  PROVE  /\ SubSeq(s, a, b) \in Seq(S) /\ Len(SubSeq(s, a, b)) = b + 1 - a
         /\ \A k \in 1..(b + 1 - a) : SubSeq(s, a, b)[k] = s[a + k - 1]
<1>1. Len(s) \in Nat /\ \A i \in 1..Len(s) : s[i] \in S
  BY RangeIs
<1>2. \A k \in a..b : s[k] \in S
  BY <1>1
<1>3. a \in Int /\ b \in Int
  BY <1>1
<1> DEFINE t == SubSeq(s, a, b)
<1>4. /\ t \in Seq(S) /\ Len(t) = IF a <= b THEN b - a + 1 ELSE 0
      /\ \A k \in 1..(b - a + 1) : t[k] = s[a + k - 1]
  BY <1>2, <1>3, SubSeqProperties
<1> HIDE DEF t
<1>5. Len(t) = b + 1 - a
  BY <1>3, <1>4
<1>6. 1..(b + 1 - a) = 1..(b - a + 1)
  BY <1>3
<1>7. t \in Seq(S) /\ Len(t) = b + 1 - a /\ \A k \in 1..(b + 1 - a) : t[k] = s[a + k - 1]
  BY <1>4, <1>5, <1>6
<1> QED
  BY <1>7 DEF t

LEMMA JoinIs ==
  ASSUME NEW S, NEW s \in Seq(S), NEW t \in Seq(S)
  PROVE  /\ s \o t \in Seq(S) /\ Len(s \o t) = Len(s) + Len(t)
         /\ \A k \in 1..Len(s) : (s \o t)[k] = s[k]
         /\ \A k \in 1..Len(t) : (s \o t)[Len(s) + k] = t[k]
<1> DEFINE w == s \o t
<1>1. /\ w \in Seq(S) /\ Len(w) = Len(s) + Len(t)
      /\ \A i \in 1..(Len(s) + Len(t)) : w[i] = IF i <= Len(s) THEN s[i] ELSE t[i - Len(s)]
  BY ConcatProperties
<1>2. Len(s) \in Nat /\ Len(t) \in Nat
  BY RangeIs
<1> HIDE DEF w
<1>3. \A k \in 1..Len(s) : w[k] = s[k]
  BY <1>1, <1>2
<1>4. ASSUME NEW k \in 1..Len(t) PROVE w[Len(s) + k] = t[k]
  <2>1. Len(s) + k \in 1..(Len(s) + Len(t)) /\ ~(Len(s) + k <= Len(s)) /\ (Len(s) + k) - Len(s) = k
    BY <1>2
  <2> QED
    BY <2>1, <1>1
<1>5. w \in Seq(S) /\ Len(w) = Len(s) + Len(t)
  BY <1>1
<1> QED
  BY <1>3, <1>4, <1>5 DEF w

LEMMA InsertPlaces ==
  ASSUME NEW S, NEW s \in Seq(S), NEW e \in S, NEW i \in 1..(Len(s) + 1)
  PROVE  /\ InsertAt(s, i, e) \in Seq(S) /\ Len(InsertAt(s, i, e)) = Len(s) + 1
         /\ \A k \in 1..(i - 1) : InsertAt(s, i, e)[k] = s[k]
         /\ InsertAt(s, i, e)[i] = e
         /\ \A k \in i..Len(s) : InsertAt(s, i, e)[k + 1] = s[k]
<1> DEFINE A == SubSeq(s, 1, i - 1)
           O == <<e>>
           B == SubSeq(s, i, Len(s))
<1>1. Len(s) \in Nat
  BY RangeIs
<1>2. A \in Seq(S) /\ Len(A) = i - 1 /\ \A k \in 1..(i - 1) : A[k] = s[k]
  <2>1. 1 \in 1..(Len(s) + 1) /\ i - 1 \in 0..Len(s) /\ 1 <= (i - 1) + 1 /\ (i - 1) + 1 - 1 = i - 1
    BY <1>1
  <2>2. A \in Seq(S) /\ Len(A) = i - 1 /\ \A k \in 1..(i - 1) : A[k] = s[1 + k - 1]
    BY <2>1, PartIs
  <2> HIDE DEF A
  <2>3. \A k \in 1..(i - 1) : 1 + k - 1 = k
    BY <1>1
  <2> QED
    BY <2>2, <2>3
<1>3. /\ B \in Seq(S) /\ Len(B) = Len(s) + 1 - i
      /\ \A k \in 1..(Len(s) + 1 - i) : B[k] = s[i + k - 1]
  <2>1. Len(s) \in 0..Len(s) /\ i <= Len(s) + 1
    BY <1>1
  <2> QED
    BY <2>1, PartIs
<1>4. O \in Seq(S) /\ Len(O) = 1 /\ O[1] = e
  OBVIOUS
<1>5. InsertAt(s, i, e) = (A \o O) \o B
  BY DEF InsertAt
<1> HIDE DEF A, B, O
<1> DEFINE C == A \o O
<1>6. /\ C \in Seq(S) /\ Len(C) = Len(A) + 1
      /\ \A k \in 1..Len(A) : C[k] = A[k]
      /\ C[Len(A) + 1] = e
  <2>1. A \in Seq(S) /\ O \in Seq(S)
    BY <1>2, <1>4
  <2>2. /\ C \in Seq(S) /\ Len(C) = Len(A) + Len(O)
        /\ \A k \in 1..Len(A) : C[k] = A[k]
        /\ \A k \in 1..Len(O) : C[Len(A) + k] = O[k]
    <3>1. C \in Seq(S) /\ Len(C) = Len(A) + Len(O)
      BY <2>1, JoinIs
    <3>2. \A k \in 1..Len(A) : C[k] = A[k]
      BY <2>1, JoinIs
    <3>3. \A k \in 1..Len(O) : C[Len(A) + k] = O[k]
      BY <2>1, JoinIs
    <3> QED
      BY <3>1, <3>2, <3>3
  <2> HIDE DEF C
  <2>3. 1 \in 1..Len(O)
    BY <1>4
  <2> QED
    BY <1>4, <2>2, <2>3
<1> HIDE DEF C
<1> DEFINE w == C \o B
<1>7. /\ w \in Seq(S) /\ Len(w) = Len(C) + Len(B)
      /\ \A k \in 1..Len(C) : w[k] = C[k]
      /\ \A k \in 1..Len(B) : w[Len(C) + k] = B[k]
  <2>1. C \in Seq(S) /\ B \in Seq(S)
    BY <1>3, <1>6
  <2>2. w \in Seq(S) /\ Len(w) = Len(C) + Len(B)
    BY <2>1, JoinIs
  <2>3. \A k \in 1..Len(C) : w[k] = C[k]
    BY <2>1, JoinIs
  <2>4. \A k \in 1..Len(B) : w[Len(C) + k] = B[k]
    BY <2>1, JoinIs
  <2> QED
    BY <2>2, <2>3, <2>4
<1> HIDE DEF w
<1>8. Len(C) = i /\ Len(B) = Len(s) + 1 - i /\ Len(w) = Len(s) + 1
  BY <1>1, <1>2, <1>3, <1>6, <1>7
<1>9. \A k \in 1..(i - 1) : w[k] = s[k]
  <2> TAKE k \in 1..(i - 1)
  <2>1. k \in 1..Len(A) /\ k \in 1..Len(C)
    BY <1>1, <1>2, <1>8
  <2> QED
    BY <2>1, <1>2, <1>6, <1>7
<1>10. w[i] = e
  <2>1. i \in 1..Len(C) /\ Len(A) + 1 = i
    BY <1>1, <1>2, <1>8
  <2> QED
    BY <2>1, <1>6, <1>7
<1>11. \A k \in i..Len(s) : w[k + 1] = s[k]
  <2> TAKE k \in i..Len(s)
  <2> DEFINE j == k + 1 - i
  <2>1. j \in 1..Len(B) /\ Len(C) + j = k + 1 /\ i + j - 1 = k
    BY <1>1, <1>8
  <2> HIDE DEF j
  <2> QED
    BY <2>1, <1>3, <1>7, <1>8
<1>12. w = InsertAt(s, i, e)
  BY <1>5 DEF w, C
<1> QED
  BY <1>7, <1>8, <1>9, <1>10, <1>11, <1>12

(* A new element, and what stands on either side of it.                    *)
LEMMA Inserted ==
  ASSUME NEW S, NEW s \in Seq(S), Once(s), NEW e \in S, e \notin Range(s),
         NEW i \in 1..(Len(s) + 1)
  PROVE  /\ InsertAt(s, i, e) \in Seq(S) /\ Once(InsertAt(s, i, e))
         /\ Range(InsertAt(s, i, e)) = Range(s) \union {e}
         /\ \A p, q : Behind(InsertAt(s, i, e), p, q) =>
              \/ Behind(s, p, q)
              \/ q = e /\ StandsBefore(s, i, p)
              \/ p = e /\ StandsFrom(s, i, q)
<1> DEFINE w == InsertAt(s, i, e)
           old(k) == IF k < i THEN k ELSE k - 1
<1>1. /\ w \in Seq(S) /\ Len(w) = Len(s) + 1
      /\ \A k \in 1..(i - 1) : w[k] = s[k]
      /\ w[i] = e
      /\ \A k \in i..Len(s) : w[k + 1] = s[k]
  <2>1. w \in Seq(S) /\ Len(w) = Len(s) + 1 /\ w[i] = e
    BY InsertPlaces
  <2>2. \A k \in 1..(i - 1) : w[k] = s[k]
    BY InsertPlaces
  <2>3. \A k \in i..Len(s) : w[k + 1] = s[k]
    BY InsertPlaces
  <2> QED
    BY <2>1, <2>2, <2>3
<1> HIDE DEF w
<1>2. Len(s) \in Nat /\ \A k \in 1..Len(s) : s[k] \in Range(s) /\ s[k] # e
  BY RangeIs
<1>3. \A k \in 1..Len(w) : k # i => old(k) \in 1..Len(s) /\ w[k] = s[old(k)]
  <2> SUFFICES ASSUME NEW k \in 1..Len(w), k # i PROVE old(k) \in 1..Len(s) /\ w[k] = s[old(k)]
    OBVIOUS
  <2>1. CASE k < i
    <3>1. k \in 1..(i - 1) /\ k \in 1..Len(s)
      BY <1>1, <1>2, <2>1
    <3> QED
      BY <1>1, <2>1, <3>1
  <2>2. CASE k > i
    <3>1. k - 1 \in i..Len(s) /\ (k - 1) + 1 = k /\ k - 1 \in 1..Len(s) /\ ~(k < i)
      BY <1>1, <1>2, <2>2
    <3> QED
      BY <1>1, <3>1
  <2> QED
    BY <1>1, <1>2, <2>1, <2>2
<1>4. \A k, l \in 1..Len(w) : k # i /\ l # i /\ k < l => old(k) < old(l)
  BY <1>1, <1>2
<1>5. \A k \in 1..Len(w) : /\ k < i => old(k) \in 1..(i - 1)
                           /\ k > i => old(k) \in i..Len(s)
  BY <1>1, <1>2
<1>6. \A k \in 1..Len(s) : \E l \in 1..Len(w) : w[l] = s[k]
  <2> TAKE k \in 1..Len(s)
  <2>1. CASE k < i
    <3>1. k \in 1..(i - 1) /\ k \in 1..Len(w)
      BY <1>1, <1>2, <2>1
    <3> QED
      BY <1>1, <3>1
  <2>2. CASE k >= i
    <3>1. k \in i..Len(s) /\ k + 1 \in 1..Len(w)
      BY <1>1, <1>2, <2>2
    <3> QED
      BY <1>1, <3>1
  <2> QED
    BY <1>2, <2>1, <2>2
<1> HIDE DEF old
<1>7. i \in 1..Len(w)
  BY <1>1, <1>2
<1>8. Range(w) = Range(s) \union {e}
  <2>1. ASSUME NEW x \in Range(w) PROVE x \in Range(s) \union {e}
    <3>1. PICK k \in 1..Len(w) : w[k] = x
      BY <1>1, RangeIs
    <3> QED
      BY <3>1, <1>1, <1>2, <1>3
  <2>2. ASSUME NEW x \in Range(s) PROVE x \in Range(w)
    <3>1. PICK k \in 1..Len(s) : s[k] = x
      BY RangeIs
    <3>2. PICK l \in 1..Len(w) : w[l] = s[k]
      BY <1>6
    <3> QED
      BY <3>1, <3>2, <1>1, RangeIs
  <2>3. e \in Range(w)
    BY <1>1, <1>7, RangeIs
  <2> QED
    BY <2>1, <2>2, <2>3
<1>9. ASSUME NEW k \in 1..Len(w), NEW l \in 1..Len(w), k < l PROVE w[k] # w[l]
  <2>1. CASE k # i /\ l # i
    <3>1. old(k) # old(l) /\ old(k) \in 1..Len(s) /\ old(l) \in 1..Len(s)
      <4>1. old(k) < old(l)
        BY <1>4, <1>9, <2>1
      <4>2. old(k) \in 1..Len(s) /\ old(l) \in 1..Len(s)
        BY <1>3, <2>1
      <4> QED
        BY <4>1, <4>2, <1>2
    <3> QED
      BY <3>1, <1>3, <2>1 DEF Once
  <2>2. CASE k = i
    <3>1. l # i
      BY <1>7, <1>9, <2>2
    <3> QED
      BY <3>1, <2>2, <1>1, <1>2, <1>3
  <2>3. CASE l = i
    <3>1. k # i
      BY <1>7, <1>9, <2>3
    <3> QED
      BY <3>1, <2>3, <1>1, <1>2, <1>3
  <2> QED
    BY <2>1, <2>2, <2>3
<1>10. Once(w)
  <2> SUFFICES ASSUME NEW k \in 1..Len(w), NEW l \in 1..Len(w), w[k] = w[l] PROVE k = l
    BY DEF Once
  <2>1. ~(k < l) /\ ~(l < k)
    BY <1>9
  <2> QED
    BY <2>1, <1>1, <1>2
<1>11. ASSUME NEW p, NEW q, Behind(w, p, q)
       PROVE  \/ Behind(s, p, q)
              \/ q = e /\ StandsBefore(s, i, p)
              \/ p = e /\ StandsFrom(s, i, q)
  <2>1. PICK k, l \in 1..Len(w) : k < l /\ w[k] = p /\ w[l] = q
    BY <1>11 DEF Behind
  <2>2. CASE k # i /\ l # i
    BY <2>1, <2>2, <1>3, <1>4 DEF Behind
  <2>3. CASE k = i
    <3>1. l > i /\ l # i
      BY <2>1, <2>3, <1>7
    <3> QED
      BY <3>1, <2>1, <2>3, <1>1, <1>3, <1>5 DEF StandsFrom
  <2>4. CASE l = i
    <3>1. k < i /\ k # i
      BY <2>1, <2>4, <1>7
    <3> QED
      BY <3>1, <2>1, <2>4, <1>1, <1>3, <1>5 DEF StandsBefore
  <2> QED
    BY <2>2, <2>3, <2>4
<1> QED
  BY <1>1, <1>8, <1>10, <1>11 DEF w

LEMMA RemovePlaces ==
  ASSUME NEW S, NEW s \in Seq(S), NEW i \in 1..Len(s)
  PROVE  /\ RemoveAt(s, i) \in Seq(S) /\ Len(RemoveAt(s, i)) = Len(s) - 1
         /\ \A k \in 1..(i - 1) : RemoveAt(s, i)[k] = s[k]
         /\ \A k \in i..(Len(s) - 1) : RemoveAt(s, i)[k] = s[k + 1]
<1> DEFINE A == SubSeq(s, 1, i - 1)
           B == SubSeq(s, i + 1, Len(s))
<1>1. Len(s) \in Nat
  BY RangeIs
<1>2. A \in Seq(S) /\ Len(A) = i - 1 /\ \A k \in 1..(i - 1) : A[k] = s[k]
  <2>1. 1 \in 1..(Len(s) + 1) /\ i - 1 \in 0..Len(s) /\ 1 <= (i - 1) + 1 /\ (i - 1) + 1 - 1 = i - 1
    BY <1>1
  <2>2. A \in Seq(S) /\ Len(A) = i - 1 /\ \A k \in 1..(i - 1) : A[k] = s[1 + k - 1]
    BY <2>1, PartIs
  <2> HIDE DEF A
  <2>3. \A k \in 1..(i - 1) : 1 + k - 1 = k
    BY <1>1
  <2> QED
    BY <2>2, <2>3
<1>3. B \in Seq(S) /\ Len(B) = Len(s) - i /\ \A k \in 1..(Len(s) - i) : B[k] = s[i + k]
  <2>1. /\ i + 1 \in 1..(Len(s) + 1) /\ Len(s) \in 0..Len(s) /\ i + 1 <= Len(s) + 1
        /\ Len(s) + 1 - (i + 1) = Len(s) - i
    BY <1>1
  <2>2. /\ B \in Seq(S) /\ Len(B) = Len(s) - i
        /\ \A k \in 1..(Len(s) - i) : B[k] = s[(i + 1) + k - 1]
    BY <2>1, PartIs
  <2> HIDE DEF B
  <2>3. \A k \in 1..(Len(s) - i) : (i + 1) + k - 1 = i + k
    BY <1>1
  <2> QED
    BY <2>2, <2>3
<1>4. RemoveAt(s, i) = A \o B
  BY DEF RemoveAt
<1> HIDE DEF A, B
<1> DEFINE w == A \o B
<1>5. /\ w \in Seq(S) /\ Len(w) = Len(A) + Len(B)
      /\ \A k \in 1..Len(A) : w[k] = A[k]
      /\ \A k \in 1..Len(B) : w[Len(A) + k] = B[k]
  <2>1. A \in Seq(S) /\ B \in Seq(S)
    BY <1>2, <1>3
  <2>2. w \in Seq(S) /\ Len(w) = Len(A) + Len(B)
    BY <2>1, JoinIs
  <2>3. \A k \in 1..Len(A) : w[k] = A[k]
    BY <2>1, JoinIs
  <2>4. \A k \in 1..Len(B) : w[Len(A) + k] = B[k]
    BY <2>1, JoinIs
  <2> QED
    BY <2>2, <2>3, <2>4
<1> HIDE DEF w
<1>6. Len(w) = Len(s) - 1 /\ \A k \in 1..(i - 1) : w[k] = s[k]
  BY <1>1, <1>2, <1>3, <1>5
<1>7. \A k \in i..(Len(s) - 1) : w[k] = s[k + 1]
  <2> TAKE k \in i..(Len(s) - 1)
  <2> DEFINE j == k - (i - 1)
  <2>1. j \in 1..(Len(s) - i) /\ Len(A) + j = k /\ i + j = k + 1
    BY <1>1, <1>2
  <2> HIDE DEF j
  <2> QED
    BY <2>1, <1>3, <1>5
<1> QED
  BY <1>4, <1>5, <1>6, <1>7 DEF w

(* What is left when one element is taken out.                             *)
LEMMA Removed ==
  ASSUME NEW S, NEW s \in Seq(S), Once(s), NEW e
  PROVE  /\ RemoveFirst(s, e) \in Seq(S) /\ Once(RemoveFirst(s, e))
         /\ Range(RemoveFirst(s, e)) = Range(s) \ {e}
         /\ \A p, q : Behind(RemoveFirst(s, e), p, q) => Behind(s, p, q)
<1>1. CASE e \in Range(s)
  <2>1. PICK i \in 1..Len(s) : s[i] = e
    BY <1>1, RangeIs
  <2>2. {k \in 1..Len(s) : s[k] = e} = {i} /\ Min({i}) = i
    BY <2>1 DEF Once, Min
  <2>3. RemoveFirst(s, e) = RemoveAt(s, i)
    BY <2>1, <2>2 DEF RemoveFirst, SelectInSeq
  <2> DEFINE w == RemoveAt(s, i)
             old(k) == IF k < i THEN k ELSE k + 1
  <2>4. /\ w \in Seq(S) /\ Len(w) = Len(s) - 1
        /\ \A k \in 1..(i - 1) : w[k] = s[k]
        /\ \A k \in i..(Len(s) - 1) : w[k] = s[k + 1]
    BY RemovePlaces
  <2> HIDE DEF w
  <2>5. Len(s) \in Nat
    BY RangeIs
  <2>6. ASSUME NEW k \in 1..Len(w) PROVE old(k) \in 1..Len(s) /\ old(k) # i /\ w[k] = s[old(k)]
    <3>1. CASE k < i
      <4>1. k \in 1..(i - 1) /\ k \in 1..Len(s)
        BY <2>4, <2>5, <3>1
      <4> QED
        BY <2>4, <3>1, <4>1
    <3>2. CASE ~(k < i)
      <4>1. k \in i..(Len(s) - 1) /\ k + 1 \in 1..Len(s) /\ k + 1 # i
        BY <2>4, <2>5, <3>2
      <4> QED
        BY <2>4, <3>2, <4>1
    <3> QED
      BY <3>1, <3>2
  <2>7. \A k, l \in 1..Len(w) : k < l => old(k) < old(l)
    BY <2>4, <2>5
  <2>8. ASSUME NEW k \in 1..Len(s), k # i PROVE \E l \in 1..Len(w) : w[l] = s[k]
    <3>1. CASE k < i
      <4>1. k \in 1..(i - 1) /\ k \in 1..Len(w)
        BY <2>4, <2>5, <3>1
      <4> QED
        BY <2>4, <4>1
    <3>2. CASE k > i
      <4>1. k - 1 \in i..(Len(s) - 1) /\ k - 1 \in 1..Len(w) /\ (k - 1) + 1 = k
        BY <2>4, <2>5, <3>2
      <4> QED
        BY <2>4, <4>1
    <3> QED
      BY <2>5, <2>8, <3>1, <3>2
  <2> HIDE DEF old
  <2>9. Range(w) = Range(s) \ {e}
    <3>1. ASSUME NEW x \in Range(w) PROVE x \in Range(s) \ {e}
      <4>1. PICK k \in 1..Len(w) : w[k] = x
        BY <2>4, RangeIs
      <4> QED
        BY <4>1, <2>1, <2>6, RangeIs DEF Once
    <3>2. ASSUME NEW x \in Range(s) \ {e} PROVE x \in Range(w)
      <4>1. PICK k \in 1..Len(s) : s[k] = x
        BY RangeIs
      <4>2. PICK l \in 1..Len(w) : w[l] = s[k]
        BY <4>1, <2>1, <2>8
      <4> QED
        BY <4>1, <4>2, <2>4, RangeIs
    <3> QED
      BY <3>1, <3>2
  <2>10. Once(w)
    <3> SUFFICES ASSUME NEW k \in 1..Len(w), NEW l \in 1..Len(w), w[k] = w[l] PROVE k = l
      BY DEF Once
    <3>1. old(k) = old(l) /\ old(k) \in 1..Len(s)
      BY <2>6 DEF Once
    <3>2. ~(old(k) < old(l)) /\ ~(old(l) < old(k))
      BY <3>1, <2>5
    <3>3. ~(k < l) /\ ~(l < k)
      BY <3>2, <2>7
    <3> QED
      BY <3>3, <2>4, <2>5
  <2>11. \A p, q : Behind(w, p, q) => Behind(s, p, q)
    BY <2>6, <2>7 DEF Behind
  <2> QED
    BY <2>3, <2>4, <2>9, <2>10, <2>11 DEF w
<1>2. CASE e \notin Range(s)
  <2>1. RemoveFirst(s, e) = s
    BY <1>2, RangeIs DEF RemoveFirst
  <2> QED
    BY <1>2, <2>1
<1> QED
  BY <1>1, <1>2

(* As many elements as places.                                             *)
LEMMA LenIsCardinality ==
  ASSUME NEW S, NEW s \in Seq(S), Once(s)
  PROVE  IsFiniteSet(Range(s)) /\ Cardinality(Range(s)) = Len(s)
<1>1. Len(s) \in Nat
  BY RangeIs
<1>2. IsFiniteSet(1..Len(s)) /\ Cardinality(1..Len(s)) = Len(s)
  <2>1. Cardinality(1..Len(s)) = IF 1 > Len(s) THEN 0 ELSE Len(s) - 1 + 1
    BY <1>1, FS_Interval
  <2> QED
    BY <1>1, <2>1, FS_Interval
<1> DEFINE f == [i \in 1..Len(s) |-> s[i]]
<1>3. f \in Bijection(1..Len(s), Range(s))
  <2>1. f \in [1..Len(s) -> Range(s)]
    BY RangeIs
  <2>2. \A x \in Range(s) : \E i \in 1..Len(s) : f[i] = x
    BY RangeIs
  <2>3. \A i, j \in 1..Len(s) : f[i] = f[j] => i = j
    BY DEF Once
  <2> HIDE DEF f
  <2> QED
    BY <2>1, <2>2, <2>3, Fun_IsBij
<1> HIDE DEF f
<1>4. ExistsBijection(1..Len(s), Range(s))
  BY <1>3 DEF ExistsBijection
<1> QED
  BY <1>2, <1>4, FS_Bijection

(* A non-empty set of places has a first one.                              *)
LEMMA FirstPlace ==
  ASSUME NEW S, S \subseteq Nat, S # {}
  PROVE  Min(S) \in S /\ \A k \in S : Min(S) <= k
<1> DEFINE R == OpToRel(<, Nat)
<1>1. IsWellFoundedOn(R, Nat)
  BY NatLessThanWellFounded
<1>2. ASSUME NEW x \in Nat, NEW y \in Nat, x < y PROVE <<x, y>> \in R
  BY <1>2 DEF OpToRel
<1> HIDE DEF R
<1>3. PICK m \in S : \A k \in S : <<k, m>> \notin R
  BY <1>1, WFMin
<1>4. \A k \in S : m <= k
  <2> TAKE k \in S
  <2>1. ~(k < m)
    BY <1>2, <1>3
  <2> QED
    BY <2>1
<1> QED
  BY <1>4 DEF Min
-----------------------------------------------------------------------------
(* Arithmetic of remainders.                                               *)

LEMMA ModUnique ==
  ASSUME NEW m \in Nat, m > 0, NEW x \in Int, NEW k \in Int, NEW r \in 0..(m - 1), x = k * m + r
  PROVE  x % m = r /\ x \div m = k
BY SMT

LEMMA ModDiv ==
  ASSUME NEW m \in Nat, m > 0, NEW x \in Int
  PROVE  x = (x \div m) * m + (x % m) /\ x \div m \in Int /\ x % m \in 0..(m - 1)
BY SMT

LEMMA ModNear ==
  ASSUME NEW m \in Nat, m > 0, NEW x \in Int, 0 <= x, x < m
  PROVE  x % m = x
BY SMT

LEMMA IntervalGrows ==
  ASSUME NEW a \in Int, NEW b \in Int, a <= b, NEW x \in 0..(a - 1)
  PROVE  x \in 0..(b - 1)
OBVIOUS

(* The greater of two numbers, when it leaves the smaller remainder, has   *)
(* the greater quotient.                                                   *)
LEMMA QuotientGrows ==
  ASSUME NEW m \in Nat, m > 0, NEW x \in Int, NEW y \in Int, x <= y
  PROVE  /\ x \div m <= y \div m
         /\ y % m < x % m => x \div m < y \div m
<1> DEFINE p == x \div m
           q == y \div m
           r == x % m
           t == y % m
<1>1. x = p * m + r /\ p \in Int /\ r \in 0..(m - 1)
  BY ModDiv
<1>2. y = q * m + t /\ q \in Int /\ t \in 0..(m - 1)
  BY ModDiv
<1> HIDE DEF p, q, r, t
<1>3. ASSUME q < p PROVE FALSE
  <2>1. p - q - 1 \in Nat /\ p = q + (p - q - 1) + 1
    BY <1>1, <1>2, <1>3
  <2> DEFINE d == p - q - 1
  <2>2. d \in Nat /\ p = q + d + 1
    BY <2>1
  <2> HIDE DEF d
  <2>3. p * m = q * m + d * m + m
    BY <2>2, <1>2, SMT
  <2>4. q * m \in Int /\ d * m \in Int /\ d * m >= 0
    BY <2>2, <1>2, SMT
  <2> QED
    BY <2>3, <2>4, <1>1, <1>2
<1>4. ASSUME t < r PROVE p < q
  <2>1. CASE p = q
    BY <2>1, <1>1, <1>2, <1>4
  <2> QED
    BY <2>1, <1>1, <1>2, <1>3
<1>5. p <= q /\ (t < r => p < q)
  BY <1>1, <1>2, <1>3, <1>4
<1> QED
  BY <1>5 DEF p, q, r, t

(* Less than a day later it is as much later on the same day, or midnight  *)
(* has passed.                                                             *)
LEMMA LaterRemainder ==
  ASSUME NEW m \in Nat, m > 0, NEW x \in Int, NEW d \in 0..(m - 1)
  PROVE  (x + d) % m = (x % m) + d \/ (x + d) % m = (x % m) + d - m
<1> DEFINE p == x \div m
           r == x % m
<1>1. x = p * m + r /\ p \in Int /\ r \in 0..(m - 1)
  BY ModDiv
<1> HIDE DEF p, r
<1>2. CASE r + d < m
  <2>1. x + d = p * m + (r + d) /\ r + d \in 0..(m - 1) /\ x + d \in Int
    BY <1>1, <1>2
  <2>2. (x + d) % m = r + d
    BY <2>1, <1>1, ModUnique
  <2> QED
    BY <2>2 DEF r
<1>3. CASE r + d >= m
  <2>1. x + d = (p + 1) * m + (r + d - m) /\ x + d \in Int
    BY <1>1, SMT
  <2>2. r + d - m \in 0..(m - 1) /\ p + 1 \in Int
    BY <1>1, <1>3
  <2>3. (x + d) % m = r + d - m
    BY <2>1, <2>2, ModUnique
  <2> QED
    BY <2>3 DEF r
<1> QED
  BY <1>1, <1>2, <1>3
-----------------------------------------------------------------------------
(* The lists in the order of a table of timers.                            *)

SoonerIn(tm, p, q) ==
  \/ tm[p].sec < tm[q].sec
  \/ tm[p].sec = tm[q].sec /\ tm[p].msec <= tm[q].msec

Sorted(s, tm) ==
  /\ s \in Seq(Ids) /\ Once(s)
  /\ \A p, q : Behind(s, p, q) => SoonerIn(tm, p, q)

(* Every timer of the table is linked once, in the list of its type.       *)
Shape(l, p, tm) ==
  /\ Sorted(l, tm) /\ Range(l) = {id \in DOMAIN tm : tm[id].type # "day"}
  /\ Sorted(p, tm) /\ Range(p) = {id \in DOMAIN tm : tm[id].type = "day"}

LEMMA BehindIs ==
  ASSUME NEW S, NEW s \in Seq(S), NEW p, NEW q, Behind(s, p, q)
  PROVE  p \in Range(s) /\ q \in Range(s)
BY RangeIs DEF Behind

(* A list stays sorted when an element leaves it, when no due time of its  *)
(* elements changes, and when add_timer_to_seqlist puts a new one in.      *)
LEMMA SortedWithout ==
  ASSUME NEW tm, NEW s, Sorted(s, tm), NEW e
  PROVE  /\ Sorted(RemoveFirst(s, e), tm)
         /\ Range(RemoveFirst(s, e)) = Range(s) \ {e}
<1>1. s \in Seq(Ids) /\ Once(s)
  BY DEF Sorted
<1>2. RemoveFirst(s, e) \in Seq(Ids) /\ Once(RemoveFirst(s, e))
  BY <1>1, Removed
<1>3. Range(RemoveFirst(s, e)) = Range(s) \ {e}
  BY <1>1, Removed
<1>4. \A p, q : Behind(RemoveFirst(s, e), p, q) => Behind(s, p, q)
  BY <1>1, Removed
<1> QED
  BY <1>2, <1>3, <1>4 DEF Sorted

LEMMA SortedSame ==
  ASSUME NEW tm, NEW other, NEW s, Sorted(s, tm),
         \A x \in Range(s) : other[x].sec = tm[x].sec /\ other[x].msec = tm[x].msec
  PROVE  Sorted(s, other)
<1> SUFFICES ASSUME NEW p, NEW q, Behind(s, p, q) PROVE SoonerIn(other, p, q)
  BY DEF Sorted
<1>1. SoonerIn(tm, p, q)
  BY DEF Sorted
<1>2. p \in Range(s) /\ q \in Range(s)
  BY BehindIs DEF Sorted
<1> QED
  BY <1>1, <1>2 DEF SoonerIn

LEMMA SortedWith ==
  ASSUME NEW tm, NEW s, Sorted(s, tm), NEW e \in Ids, e \notin Range(s),
         \A x \in Range(s) \union {e} : tm[x].sec \in Int /\ tm[x].msec \in Int
  PROVE  /\ Sorted(InsertSeqlist(s, tm, e), tm)
         /\ Range(InsertSeqlist(s, tm, e)) = Range(s) \union {e}
<1>1. s \in Seq(Ids) /\ Once(s)
  BY DEF Sorted
<1>2. Len(s) \in Nat /\ \A i \in 1..Len(s) : s[i] \in Range(s)
  BY <1>1, RangeIs
<1> DEFINE L == {i \in 1..Len(s) : \/ tm[s[i]].sec > tm[e].sec
                                   \/ /\ tm[s[i]].sec = tm[e].sec
                                      /\ tm[s[i]].msec >= tm[e].msec}
           k == IF L = {} THEN Len(s) + 1 ELSE Min(L)
<1>3. InsertSeqlist(s, tm, e) = InsertAt(s, k, e)
  BY DEF InsertSeqlist
<1>4. L = {} => k = Len(s) + 1
  OBVIOUS
<1>5. L # {} => k \in L /\ \A i \in L : k <= i
  <2>1. L \subseteq Nat
    BY <1>2
  <2> HIDE DEF L
  <2> QED
    BY <2>1, FirstPlace
<1>6. \A i \in 1..Len(s) : i \in L <=> SoonerIn(tm, e, s[i])
  BY <1>2 DEF SoonerIn
<1>7. \A i \in 1..Len(s) : i \notin L => SoonerIn(tm, s[i], e)
  BY <1>2 DEF SoonerIn
<1>8. L \subseteq 1..Len(s)
  OBVIOUS
<1> HIDE DEF L, k
<1>9. k \in 1..(Len(s) + 1)
  <2>1. CASE L = {}
    BY <2>1, <1>2, <1>4
  <2>2. CASE L # {}
    <3>1. k \in 1..Len(s)
      BY <2>2, <1>5, <1>8
    <3> QED
      BY <3>1, <1>2
  <2> QED
    BY <2>1, <2>2
<1>10. \A i \in 1..(k - 1) : SoonerIn(tm, s[i], e)
  <2> TAKE i \in 1..(k - 1)
  <2>1. i \in 1..Len(s) /\ i \notin L
    BY <1>2, <1>4, <1>5, <1>9
  <2> QED
    BY <2>1, <1>7
<1>11. \A i \in k..Len(s) : SoonerIn(tm, e, s[i])
  <2> TAKE i \in k..Len(s)
  <2>1. L # {} /\ k \in 1..Len(s) /\ i \in 1..Len(s)
    BY <1>2, <1>4, <1>9
  <2>2. SoonerIn(tm, e, s[k])
    BY <2>1, <1>5, <1>6
  <2>3. k = i \/ SoonerIn(tm, s[k], s[i])
    <3>1. CASE k < i
      BY <2>1, <3>1 DEF Sorted, Behind
    <3> QED
      BY <3>1, <2>1
  <2>4. s[k] \in Range(s) /\ s[i] \in Range(s)
    BY <1>2, <2>1
  <2> QED
    BY <2>2, <2>3, <2>4 DEF SoonerIn
<1> DEFINE w == InsertAt(s, k, e)
<1>12. w \in Seq(Ids) /\ Once(w)
  BY <1>1, <1>9, Inserted
<1>13. Range(w) = Range(s) \union {e}
  BY <1>1, <1>9, Inserted
<1>14. ASSUME NEW p, NEW q, Behind(w, p, q)
       PROVE  \/ Behind(s, p, q)
              \/ q = e /\ StandsBefore(s, k, p)
              \/ p = e /\ StandsFrom(s, k, q)
  BY <1>1, <1>9, <1>14, Inserted
<1> HIDE DEF w
<1>15. \A p, q : Behind(w, p, q) => SoonerIn(tm, p, q)
  BY <1>10, <1>11, <1>14 DEF Sorted, StandsBefore, StandsFrom
<1>16. Sorted(w, tm)
  BY <1>12, <1>15 DEF Sorted
<1> QED
  BY <1>3, <1>13, <1>16 DEF w

(* The two lists after Place and after Free.                               *)
LEMMA PlacedShape ==
  ASSUME NEW id \in Ids, NEW tm, Shape(list, plan, timer), Place(id, tm),
         DOMAIN timer \subseteq Ids, \A x \in DOMAIN timer : timer[x] \in Timers,
         DOMAIN tm = DOMAIN timer \union {id}, tm[id] \in Timers,
         \A x \in DOMAIN timer \ {id} : tm[x] = timer[x],
         id \in DOMAIN timer => (tm[id].type = "day" <=> timer[id].type = "day")
  PROVE  Shape(list', plan', timer')
<1>1. timer' = tm
  BY DEF Place
<1>2. \A x \in DOMAIN tm : tm[x].sec \in Int /\ tm[x].msec \in Int
  BY DEF Timers
<1> DEFINE others == RemoveFirst(list, id)
           plans == RemoveFirst(plan, id)
<1>3. Sorted(others, timer) /\ Range(others) = Range(list) \ {id}
  BY SortedWithout DEF Shape
<1>4. Sorted(plans, timer) /\ Range(plans) = Range(plan) \ {id}
  BY SortedWithout DEF Shape
<1>5. Range(list) \subseteq DOMAIN timer /\ Range(plan) \subseteq DOMAIN timer
  BY DEF Shape
<1>6. CASE tm[id].type = "day"
  <2>1. plan' = InsertSeqlist(plans, tm, id) /\ list' = list
    BY <1>6 DEF Place
  <2> HIDE DEF plans
  <2>2. id \notin Range(list)
    BY <1>6 DEF Shape
  <2>3. Sorted(plans, tm) /\ Sorted(list, tm)
    <3>1. \A x \in Range(plans) : tm[x] = timer[x]
      BY <1>4, <1>5
    <3>2. \A x \in Range(list) : tm[x] = timer[x]
      BY <1>5, <2>2
    <3>3. Sorted(list, timer)
      BY DEF Shape
    <3> QED
      BY <3>1, <3>2, <3>3, <1>4, SortedSame
  <2>4. Sorted(plan', tm) /\ Range(plan') = Range(plans) \union {id}
    <3>1. Range(plans) \union {id} \subseteq DOMAIN tm /\ id \notin Range(plans)
      BY <1>4, <1>5
    <3> QED
      BY <3>1, <1>2, <2>1, <2>3, SortedWith
  <2>5. Range(plan') = {x \in DOMAIN tm : tm[x].type = "day"}
    BY <1>4, <1>6, <2>4 DEF Shape
  <2>6. Range(list') = {x \in DOMAIN tm : tm[x].type # "day"}
    BY <1>6, <2>1, <2>2 DEF Shape
  <2> QED
    BY <1>1, <2>1, <2>3, <2>4, <2>5, <2>6 DEF Shape
<1>7. CASE tm[id].type # "day"
  <2>1. list' = InsertSeqlist(others, tm, id) /\ plan' = plan
    BY <1>7 DEF Place
  <2> HIDE DEF others
  <2>2. id \notin Range(plan)
    BY <1>7 DEF Shape
  <2>3. Sorted(others, tm) /\ Sorted(plan, tm)
    <3>1. \A x \in Range(others) : tm[x] = timer[x]
      BY <1>3, <1>5
    <3>2. \A x \in Range(plan) : tm[x] = timer[x]
      BY <1>5, <2>2
    <3>3. Sorted(plan, timer)
      BY DEF Shape
    <3> QED
      BY <3>1, <3>2, <3>3, <1>3, SortedSame
  <2>4. Sorted(list', tm) /\ Range(list') = Range(others) \union {id}
    <3>1. Range(others) \union {id} \subseteq DOMAIN tm /\ id \notin Range(others)
      BY <1>3, <1>5
    <3> QED
      BY <3>1, <1>2, <2>1, <2>3, SortedWith
  <2>5. Range(list') = {x \in DOMAIN tm : tm[x].type # "day"}
    BY <1>3, <1>7, <2>4 DEF Shape
  <2>6. Range(plan') = {x \in DOMAIN tm : tm[x].type = "day"}
    BY <1>7, <2>1, <2>2 DEF Shape
  <2> QED
    BY <1>1, <2>1, <2>3, <2>4, <2>5, <2>6 DEF Shape
<1> QED
  BY <1>6, <1>7

LEMMA FreedShape ==
  ASSUME NEW id, Shape(list, plan, timer), Free(id)
  PROVE  Shape(list', plan', timer')
<1>1. /\ list' = RemoveFirst(list, id) /\ plan' = RemoveFirst(plan, id)
      /\ DOMAIN timer' = DOMAIN timer \ {id}
      /\ \A x \in DOMAIN timer \ {id} : timer'[x] = timer[x]
  BY DEF Free
<1>2. Sorted(list', timer) /\ Range(list') = Range(list) \ {id}
  BY <1>1, SortedWithout DEF Shape
<1>3. Sorted(plan', timer) /\ Range(plan') = Range(plan) \ {id}
  BY <1>1, SortedWithout DEF Shape
<1>4. Sorted(list', timer') /\ Sorted(plan', timer')
  <2>1. \A x \in Range(list') : timer'[x] = timer[x]
    BY <1>1, <1>2 DEF Shape
  <2>2. \A x \in Range(plan') : timer'[x] = timer[x]
    BY <1>1, <1>3 DEF Shape
  <2> QED
    BY <2>1, <2>2, <1>2, <1>3, SortedSame
<1> QED
  BY <1>1, <1>2, <1>3, <1>4 DEF Shape
-----------------------------------------------------------------------------
(* The invariant of the timers, as far as it does not depend on the clock. *)

Given == 0..(nextId - 1)

Types ==
  /\ nextId \in 0..(MaxId + 1)
  /\ DOMAIN timer \subseteq Given
  /\ \A id \in DOMAIN timer : timer[id] \in Timers
  /\ now \in 0..MaxTime /\ prompt \in BOOLEAN
  /\ armed \in [Ids -> 0..MaxTime]
  /\ fired \in [Ids -> -1..MaxTime]

Linked == Shape(list, plan, timer)

(* Day plans have a time of day, which is not midnight; the others a       *)
(* delay.  The first timer is the one of plan_task, and stays.             *)
Kinds ==
  /\ \A id \in DOMAIN timer :
       IF timer[id].type = "day"
         THEN timer[id].sec > 0
         ELSE timer[id].sec = 0 /\ timer[id].interval \in Delays \union {0, PlanPeriod}
  /\ nextId > 0 => 0 \in DOMAIN timer
  /\ 0 \in DOMAIN timer => timer[0].type = "keep" /\ timer[0].interval = PlanPeriod

(* The thread walks over timers of the list, which may be gone.            *)
MayVisit(id, count, tm) ==
  \/ id = None
  \/ id \in 0..(count - 1) /\ (id \in DOMAIN tm => tm[id].type # "day")
Walking ==
  /\ pc \in {"find", "sleep", "walk", "handler", "broken"}
  /\ wake \in Nat /\ (pc # "sleep" => wake = 0)
  /\ MayVisit(cur, nextId, timer) /\ MayVisit(nxt, nextId, timer)
  /\ nextId = 0 => pc = "find" /\ now = 0

TodAt(time) == (StartOfDay + time) % DayLength

(* A plan that was called has had its time that day, and is to do again    *)
(* only on a later day.                                                    *)
FiredPlans ==
  /\ \A id \in Ids : armed[id] <= now
  /\ \A id \in Ids : fired[id] # -1 =>
       /\ id \in DOMAIN timer /\ timer[id].type = "day"
       /\ fired[id] <= now
       /\ timer[id].sec <= TodAt(fired[id])
       /\ timer[id].done = 0 => DayOf(fired[id]) < DayOf(now)

Tables == Types /\ Linked /\ Kinds /\ FiredPlans
Core == Tables /\ Walking

LEMMA BoundsAre ==
  /\ MaxId \in Nat /\ MaxTime \in Nat /\ ClockRange \in Nat /\ ClockRange > 1
  /\ DayLength \in Nat /\ DayLength > 0 /\ StartOfDay \in Nat
  /\ \A d \in Delays \union {0, PlanPeriod} : d \in Nat
  /\ \A sec \in DayTimes : sec \in Nat
  /\ None \notin Nat /\ PlanPeriod = 1
BY BoundsAssumption DEF PlanPeriod

LEMMA GivenIsId ==
  ASSUME NEW count \in 0..(MaxId + 1), NEW id \in 0..(count - 1)
  PROVE  id \in Ids
BY BoundsAre DEF Ids

(* The times of day and the days of two moments.                           *)
LEMMA DaysGoOn ==
  ASSUME NEW s \in Nat, NEW t \in Nat, s <= t
  PROVE  /\ DayOf(s) \in Int /\ DayOf(t) \in Int /\ TodAt(s) \in Nat /\ TodAt(t) \in Nat
         /\ DayOf(s) <= DayOf(t)
         /\ TodAt(t) < TodAt(s) => DayOf(s) < DayOf(t)
<1> DEFINE x == StartOfDay + s
           y == StartOfDay + t
<1>1. x \in Int /\ y \in Int /\ x <= y /\ DayLength \in Nat /\ DayLength > 0
  BY BoundsAre
<1> HIDE DEF x, y
<1>2. /\ x \div DayLength \in Int /\ x % DayLength \in 0..(DayLength - 1)
      /\ y \div DayLength \in Int /\ y % DayLength \in 0..(DayLength - 1)
  BY <1>1, ModDiv
<1>3. /\ x \div DayLength <= y \div DayLength
      /\ y % DayLength < x % DayLength => x \div DayLength < y \div DayLength
  BY <1>1, QuotientGrows
<1> QED
  BY <1>1, <1>2, <1>3 DEF DayOf, TodAt, x, y

-----------------------------------------------------------------------------
(* What the calls do: a timer whose time is set now is put in its place.   *)

Fresh(r) ==
  \/ \E type \in {"once", "keep"}, delay \in Delays \union {0, PlanPeriod} : r = Running(type, delay)
  \/ \E sec \in Nat \ {0} : r = Planned(sec)

With(id, r) == [x \in DOMAIN timer \union {id} |-> IF x = id THEN r ELSE timer[x]]

Placing(id, r) ==
  /\ id \in Ids /\ Fresh(r)
  /\ \/ /\ id \in DOMAIN timer /\ nextId' = nextId
        /\ r.type = "day" <=> timer[id].type = "day"
     \/ id = nextId /\ nextId' = nextId + 1
  /\ id = 0 => r = Running("keep", PlanPeriod)
  /\ Place(id, With(id, r))

LEMMA RunningIs ==
  ASSUME Types, NEW type \in {"once", "keep"}, NEW delay \in Delays \union {0, PlanPeriod}
  PROVE  /\ Running(type, delay) \in Timers
         /\ Running(type, delay).type = type /\ Running(type, delay).sec = 0
         /\ Running(type, delay).msec = (Clock + delay) % ClockRange
         /\ Running(type, delay).interval = delay
<1>1. now \in Int /\ delay \in Nat /\ ClockRange \in Nat /\ ClockRange > 0
  BY BoundsAre DEF Types
<1>2. Clock \in Int
  BY <1>1, ModDiv DEF Clock
<1>3. Clock + delay \in Int
  BY <1>1, <1>2
<1>4. (Clock + delay) % ClockRange \in Nat
  BY <1>1, <1>3, ModDiv
<1> QED
  BY <1>1, <1>4 DEF Running, Timers

LEMMA PlannedIs ==
  ASSUME NEW sec \in Nat
  PROVE  /\ Planned(sec) \in Timers
         /\ Planned(sec).type = "day" /\ Planned(sec).sec = sec
         /\ Planned(sec).done = IF sec < TimeOfDay THEN 1 ELSE 0
BY BoundsAre DEF Planned, Timers

LEMMA FreshIs ==
  ASSUME Types, NEW r, Fresh(r)
  PROVE  /\ r \in Timers
         /\ IF r.type = "day"
              THEN r.sec > 0
              ELSE r.sec = 0 /\ r.interval \in Delays \union {0, PlanPeriod}
<1>1. CASE \E type \in {"once", "keep"}, delay \in Delays \union {0, PlanPeriod} : r = Running(type, delay)
  <2>1. PICK type \in {"once", "keep"}, delay \in Delays \union {0, PlanPeriod} : r = Running(type, delay)
    BY <1>1
  <2>2. r \in Timers /\ r.type = type /\ r.sec = 0 /\ r.interval = delay
    BY <2>1, RunningIs
  <2> QED
    BY <2>2
<1>2. CASE \E sec \in Nat \ {0} : r = Planned(sec)
  BY <1>2, PlannedIs
<1> QED
  BY <1>1, <1>2 DEF Fresh

LEMMA CtimeIsNotMidnight ==
  ASSUME NEW sec \in DayTimes
  PROVE  CtimeToSec(sec) \in Nat \ {0}
BY BoundsAre DEF CtimeToSec

LEMMA AddIs ==
  ASSUME Types, NEW r, Fresh(r), Add(r), nextId > 0 \/ r = Running("keep", PlanPeriod)
  PROVE  Placing(nextId, r)
<1>1. nextId \in Ids
  BY BoundsAre DEF Types, Add, Ids
<1>2. nextId = 0 => r = Running("keep", PlanPeriod)
  OBVIOUS
<1>3. Place(nextId, With(nextId, r)) /\ nextId' = nextId + 1
  BY DEF Add, With
<1> QED
  BY <1>1, <1>2, <1>3 DEF Placing

LEMMA UptimeIs ==
  ASSUME Types, NEW id \in DOMAIN timer, NEW r, Fresh(r), Uptime(id, r),
         r.type = "day" <=> timer[id].type = "day",
         id = 0 => r = Running("keep", PlanPeriod)
  PROVE  Placing(id, r)
<1>1. id \in Ids
  BY BoundsAre DEF Types, Given, Ids
<1>2. [timer EXCEPT ![id] = r] = With(id, r)
  BY DEF With
<1>3. Place(id, With(id, r)) /\ nextId' = nextId
  BY <1>2 DEF Uptime
<1> QED
  BY <1>1, <1>3 DEF Placing

LEMMA ModifyIs ==
  ASSUME Types, NEW id, NEW r, Fresh(r), Modify(id, r)
  PROVE  /\ \E x : Placing(x, r) /\ x # 0
         /\ UNCHANGED <<now, prompt, thread>> /\ MayCall
<1>1. nextId > 0 /\ id # 0 /\ UNCHANGED <<now, prompt, thread>> /\ MayCall
  BY DEF Modify, MayCall
<1>2. CASE id \in DOMAIN timer
  <2>1. Uptime(id, r) /\ r.type = timer[id].type
    BY <1>2 DEF Modify
  <2> QED
    BY <1>1, <1>2, <2>1, UptimeIs
<1>3. CASE id \notin DOMAIN timer
  <2>1. Add(r)
    BY <1>3 DEF Modify
  <2> QED
    BY <1>1, <2>1, AddIs
<1> QED
  BY <1>2, <1>3, <1>1

Calling ==
  \/ InitPlan \/ AddOnce \/ AddKeep \/ AddDay \/ AddDayKeep
  \/ \E id \in Ids : OnceModify(id) \/ KeepModify(id) \/ DayModify(id) \/ DayKeepModify(id)

LEMMA CallingIs ==
  ASSUME Types, Calling
  PROVE  /\ \E id, r : Placing(id, r) /\ (id = 0 => nextId = 0)
         /\ UNCHANGED <<now, prompt, thread>> /\ (MayCall \/ nextId = 0)
<1>1. \A type \in {"once", "keep"}, delay \in Delays \union {0, PlanPeriod} : Fresh(Running(type, delay))
  BY DEF Fresh
<1>2. \A sec \in DayTimes : Fresh(Planned(CtimeToSec(sec)))
  BY CtimeIsNotMidnight DEF Fresh
<1>3. CASE InitPlan
  <2>1. Add(Running("keep", PlanPeriod)) /\ nextId = 0 /\ UNCHANGED <<now, prompt, thread>>
    BY <1>3 DEF InitPlan
  <2> QED
    BY <2>1, <1>1, AddIs
<1>4. CASE AddOnce
  <2>1. PICK delay \in Delays : Add(Running("once", delay))
    BY <1>4 DEF AddOnce
  <2>2. MayCall /\ nextId > 0 /\ UNCHANGED <<now, prompt, thread>>
    BY <1>4 DEF AddOnce, MayCall
  <2> QED
    BY <2>1, <2>2, <1>1, AddIs
<1>5. CASE AddKeep
  <2>1. PICK delay \in Delays : Add(Running("keep", delay))
    BY <1>5 DEF AddKeep
  <2>2. MayCall /\ nextId > 0 /\ UNCHANGED <<now, prompt, thread>>
    BY <1>5 DEF AddKeep, MayCall
  <2> QED
    BY <2>1, <2>2, <1>1, AddIs
<1>6. CASE AddDay
  <2>1. Add(Running("once", 0)) /\ MayCall /\ nextId > 0 /\ UNCHANGED <<now, prompt, thread>>
    BY <1>6 DEF AddDay, MayCall
  <2> QED
    BY <2>1, <1>1, AddIs
<1>7. CASE AddDayKeep
  <2>1. PICK sec \in DayTimes : Add(Planned(CtimeToSec(sec)))
    BY <1>7 DEF AddDayKeep
  <2>2. MayCall /\ nextId > 0 /\ UNCHANGED <<now, prompt, thread>>
    BY <1>7 DEF AddDayKeep, MayCall
  <2> QED
    BY <2>1, <2>2, <1>2, AddIs
<1>8. ASSUME NEW id \in Ids, OnceModify(id) \/ KeepModify(id) \/ DayModify(id) \/ DayKeepModify(id)
      PROVE  \E r : Fresh(r) /\ Modify(id, r)
  BY <1>1, <1>2, <1>8 DEF OnceModify, KeepModify, DayModify, DayKeepModify
<1> QED
  BY <1>3, <1>4, <1>5, <1>6, <1>7, <1>8, ModifyIs DEF Calling

(* The end of a handler.                                                   *)
LEMMA ReturnIs ==
  ASSUME Core, HandlerReturns
  PROVE  \/ cur # 0 /\ Free(cur)
         \/ Placing(cur, Running("keep", timer[cur].interval))
<1>1. cur \in DOMAIN timer /\ UpdateTimer /\ timer[cur].type # "day"
  <2>1. cur # None
    BY BoundsAre DEF HandlerReturns, Core, Tables, Types, Given
  <2> QED
    BY <2>1 DEF Core, Walking, MayVisit, HandlerReturns
<1>2. CASE timer[cur].type = "once"
  BY <1>1, <1>2 DEF UpdateTimer, Core, Tables, Kinds
<1>3. CASE timer[cur].type # "once"
  <2> DEFINE r == Running("keep", timer[cur].interval)
  <2>1. Uptime(cur, r)
    BY <1>1, <1>3 DEF UpdateTimer
  <2>2. timer[cur].interval \in Delays \union {0, PlanPeriod} /\ Types
    BY <1>1 DEF Core, Tables, Kinds
  <2>3. Fresh(r) /\ r.type = "keep"
    BY <2>2, RunningIs DEF Fresh
  <2>4. cur = 0 => r = Running("keep", PlanPeriod)
    BY <1>1 DEF Core, Tables, Kinds
  <2> HIDE DEF r
  <2>5. Placing(cur, r)
    BY <1>1, <2>1, <2>2, <2>3, <2>4, UptimeIs
  <2> QED
    BY <2>5 DEF r
<1> QED
  BY <1>2, <1>3
-----------------------------------------------------------------------------
(* Every step keeps the invariant.                                         *)

(* A step adds no timer but the next, and makes no day plan of another     *)
(* timer.                                                                  *)
Survive ==
  /\ nextId' \in Nat /\ nextId <= nextId'
  /\ \A x \in DOMAIN timer' :
       x \in Given => x \in DOMAIN timer /\ (timer'[x].type = "day" => timer[x].type = "day")

(* What a call or the end of a handler changes, and what it leaves.        *)
LEMMA PlacingIs ==
  ASSUME Tables, NEW id, NEW r, Placing(id, r)
  PROVE  /\ id \in Ids /\ r \in Timers
         /\ DOMAIN timer' = DOMAIN timer \union {id} /\ timer'[id] = r
         /\ \A x \in DOMAIN timer \ {id} : timer'[x] = timer[x]
         /\ armed' = [armed EXCEPT ![id] = now] /\ fired' = [fired EXCEPT ![id] = -1]
         /\ nextId' \in 0..(MaxId + 1) /\ nextId <= nextId' /\ id \in 0..(nextId' - 1)
         /\ nextId > 0 \/ id = 0
<1>1. timer' = With(id, r) /\ id \in Ids /\ Fresh(r)
  BY DEF Placing, Place
<1>2. /\ DOMAIN timer' = DOMAIN timer \union {id} /\ timer'[id] = r
      /\ \A x \in DOMAIN timer \ {id} : timer'[x] = timer[x]
  BY <1>1 DEF With
<1>3. armed' = [armed EXCEPT ![id] = now] /\ fired' = [fired EXCEPT ![id] = -1]
  BY DEF Placing, Place
<1>4. nextId' \in 0..(MaxId + 1) /\ nextId <= nextId' /\ id \in 0..(nextId' - 1) /\ (nextId > 0 \/ id = 0)
  <2>1. nextId \in 0..(MaxId + 1) /\ DOMAIN timer \subseteq 0..(nextId - 1) /\ MaxId \in Nat
    BY BoundsAre DEF Tables, Types, Given
  <2>2. CASE id \in DOMAIN timer /\ nextId' = nextId
    BY <2>1, <2>2
  <2>3. CASE id = nextId /\ nextId' = nextId + 1
    BY <2>1, <2>3, <1>1 DEF Ids
  <2> QED
    BY <2>2, <2>3 DEF Placing
<1>5. r \in Timers
  BY <1>1, FreshIs DEF Tables
<1> QED
  BY <1>1, <1>2, <1>3, <1>4, <1>5

LEMMA PlacingSurvive ==
  ASSUME Tables, NEW id, NEW r, Placing(id, r)
  PROVE  Survive
<1>1. nextId' \in Nat /\ nextId <= nextId'
  <2>1. nextId' \in 0..(MaxId + 1) /\ nextId <= nextId'
    BY PlacingIs
  <2> QED
    BY <2>1, BoundsAre
<1>2. ASSUME NEW x \in DOMAIN timer', x \in Given
      PROVE  x \in DOMAIN timer /\ (timer'[x].type = "day" => timer[x].type = "day")
  <2>1. CASE x = id
    <3>1. id # nextId
      BY <1>2, <2>1 DEF Given, Tables, Types
    <3>2. id \in DOMAIN timer /\ (r.type = "day" <=> timer[id].type = "day")
      BY <3>1 DEF Placing
    <3> QED
      BY <2>1, <3>2, PlacingIs
  <2>2. CASE x # id
    <3>1. DOMAIN timer' = DOMAIN timer \union {id}
      BY PlacingIs
    <3>2. x \in DOMAIN timer \ {id}
      BY <1>2, <2>2, <3>1
    <3> QED
      BY <3>2, PlacingIs
  <2> QED
    BY <2>1, <2>2
<1> QED
  BY <1>1, <1>2 DEF Survive

LEMMA PlacingKeeps ==
  ASSUME Tables, NEW id, NEW r, Placing(id, r), UNCHANGED <<now, prompt>>
  PROVE  Tables'
<1>1. /\ id \in Ids /\ r \in Timers
      /\ DOMAIN timer' = DOMAIN timer \union {id} /\ timer'[id] = r
      /\ armed' = [armed EXCEPT ![id] = now] /\ fired' = [fired EXCEPT ![id] = -1]
      /\ nextId' \in 0..(MaxId + 1) /\ nextId <= nextId' /\ id \in 0..(nextId' - 1)
      /\ nextId > 0 \/ id = 0
  BY PlacingIs
<1>2. \A x \in DOMAIN timer \ {id} : timer'[x] = timer[x]
  BY PlacingIs
<1>3. Types /\ Linked /\ Kinds /\ FiredPlans
  BY DEF Tables
<1>4. Types'
  <2>1. DOMAIN timer' \subseteq Given'
    <3>1. nextId \in Int /\ nextId' \in Int
      BY <1>1, <1>3, BoundsAre DEF Types
    <3>2. \A x \in DOMAIN timer : x \in 0..(nextId' - 1)
      BY <1>1, <1>3, <3>1 DEF Types, Given
    <3> QED
      BY <1>1, <3>2 DEF Given
  <2>2. \A x \in DOMAIN timer' : timer'[x] \in Timers
    BY <1>1, <1>2, <1>3 DEF Types
  <2>3. armed' \in [Ids -> 0..MaxTime] /\ fired' \in [Ids -> -1..MaxTime] /\ now' \in 0..MaxTime
    BY <1>1, <1>3, BoundsAre DEF Types
  <2> QED
    BY <1>1, <1>3, <2>1, <2>2, <2>3 DEF Types
<1>5. Linked'
  <2>1. /\ DOMAIN timer \subseteq Ids /\ \A x \in DOMAIN timer : timer[x] \in Timers
    BY <1>3, BoundsAre DEF Types, Given, Ids
  <2>2. timer' = With(id, r) /\ Place(id, With(id, r))
    BY DEF Placing, Place
  <2>3. id \in DOMAIN timer => (r.type = "day" <=> timer[id].type = "day")
    <3>1. id # nextId \/ id \notin DOMAIN timer
      BY <1>3 DEF Types, Given
    <3> QED
      BY <3>1 DEF Placing
  <2> DEFINE tm == With(id, r)
  <2>4. /\ Place(id, tm) /\ DOMAIN tm = DOMAIN timer \union {id} /\ tm[id] = r
        /\ \A x \in DOMAIN timer \ {id} : tm[x] = timer[x]
    BY <1>1, <1>2, <2>2
  <2> HIDE DEF tm
  <2> QED
    BY <1>1, <1>3, <2>1, <2>3, <2>4, PlacedShape DEF Linked
<1>6. Kinds'
  <2>1. \A x \in DOMAIN timer' :
          IF timer'[x].type = "day"
            THEN timer'[x].sec > 0
            ELSE timer'[x].sec = 0 /\ timer'[x].interval \in Delays \union {0, PlanPeriod}
    <3> TAKE x \in DOMAIN timer'
    <3>1. CASE x = id
      <4>1. Fresh(r)
        BY DEF Placing
      <4> QED
        BY <1>1, <1>3, <3>1, <4>1, FreshIs
    <3>2. CASE x # id
      <4>1. x \in DOMAIN timer \ {id}
        BY <1>1, <3>2
      <4> QED
        BY <4>1, <1>2, <1>3 DEF Kinds
    <3> QED
      BY <3>1, <3>2
  <2>2. 0 \in DOMAIN timer'
    BY <1>1, <1>3 DEF Kinds
  <2>3. timer'[0].type = "keep" /\ timer'[0].interval = PlanPeriod
    <3>1. CASE id = 0
      <4>1. r = Running("keep", PlanPeriod)
        BY <3>1 DEF Placing
      <4> QED
        BY <3>1, <4>1, <1>1 DEF Running
    <3>2. CASE id # 0
      <4>1. 0 \in DOMAIN timer \ {id}
        BY <2>2, <3>2, <1>1
      <4> QED
        BY <4>1, <1>2, <1>3 DEF Kinds
    <3> QED
      BY <3>1, <3>2
  <2> QED
    BY <2>1, <2>2, <2>3 DEF Kinds
<1>7. FiredPlans'
  <2>1. \A x \in Ids : armed'[x] <= now'
    BY <1>1, <1>3, BoundsAre DEF FiredPlans, Types
  <2>2. ASSUME NEW x \in Ids, fired'[x] # -1
        PROVE  /\ x \in DOMAIN timer' /\ timer'[x].type = "day"
               /\ fired'[x] <= now'
               /\ timer'[x].sec <= TodAt(fired'[x])
               /\ timer'[x].done = 0 => DayOf(fired'[x]) < DayOf(now')
    <3>1. x # id /\ fired'[x] = fired[x]
      BY <1>1, <1>3, <2>2 DEF Types
    <3>2. x \in DOMAIN timer
      BY <1>3, <2>2, <3>1 DEF FiredPlans
    <3>3. timer'[x] = timer[x] /\ x \in DOMAIN timer'
      BY <1>1, <1>2, <3>1, <3>2
    <3> QED
      BY <1>3, <2>2, <3>1, <3>3 DEF FiredPlans
  <2> QED
    BY <2>1, <2>2 DEF FiredPlans, TodAt, DayOf
<1> QED
  BY <1>4, <1>5, <1>6, <1>7 DEF Tables

LEMMA FreeingKeeps ==
  ASSUME Tables, NEW id \in Ids, id # 0, Free(id), UNCHANGED <<now, prompt>>
  PROVE  Tables' /\ Survive
<1>1. /\ DOMAIN timer' = DOMAIN timer \ {id}
      /\ \A x \in DOMAIN timer' : timer'[x] = timer[x] /\ x \in DOMAIN timer /\ x # id
      /\ armed' = [armed EXCEPT ![id] = 0] /\ fired' = [fired EXCEPT ![id] = -1]
      /\ nextId' = nextId
  BY DEF Free
<1>2. Types /\ Linked /\ Kinds /\ FiredPlans
  BY DEF Tables
<1>3. Types'
  <2>1. armed' \in [Ids -> 0..MaxTime] /\ fired' \in [Ids -> -1..MaxTime]
    BY <1>1, <1>2, BoundsAre DEF Types
  <2>2. nextId' \in 0..(MaxId + 1) /\ now' \in 0..MaxTime /\ prompt' \in BOOLEAN
    BY <1>1, <1>2 DEF Types
  <2>3. DOMAIN timer' \subseteq Given' /\ \A x \in DOMAIN timer' : timer'[x] \in Timers
    BY <1>1, <1>2 DEF Types, Given
  <2> QED
    BY <2>1, <2>2, <2>3 DEF Types
<1>4. Linked'
  BY <1>2, FreedShape DEF Linked
<1>5. Kinds'
  BY <1>1, <1>2 DEF Kinds
<1>6. FiredPlans'
  <2>1. \A x \in Ids : armed'[x] <= now'
    BY <1>1, <1>2, BoundsAre DEF FiredPlans, Types
  <2>2. ASSUME NEW x \in Ids, fired'[x] # -1
        PROVE  /\ x \in DOMAIN timer' /\ timer'[x].type = "day"
               /\ fired'[x] <= now'
               /\ timer'[x].sec <= TodAt(fired'[x])
               /\ timer'[x].done = 0 => DayOf(fired'[x]) < DayOf(now')
    <3>1. x # id /\ fired'[x] = fired[x]
      BY <1>1, <1>2, <2>2 DEF Types
    <3>2. x \in DOMAIN timer
      BY <1>2, <2>2, <3>1 DEF FiredPlans
    <3>3. timer'[x] = timer[x] /\ x \in DOMAIN timer'
      BY <1>1, <3>1, <3>2
    <3> QED
      BY <1>2, <2>2, <3>1, <3>3 DEF FiredPlans
  <2> QED
    BY <2>1, <2>2 DEF FiredPlans, TodAt, DayOf
<1>7. Survive
  BY <1>1, <1>2 DEF Survive, Types
<1> QED
  BY <1>3, <1>4, <1>5, <1>6, <1>7 DEF Tables

(* plan_task changes nothing of a timer but done of a day plan.            *)
LEMMA PlanTaskIs ==
  ASSUME Tables, PlanTask
  PROVE  /\ DOMAIN timer' = DOMAIN timer
         /\ \A x \in DOMAIN timer :
              /\ timer'[x] \in Timers
              /\ timer'[x].type = timer[x].type /\ timer'[x].sec = timer[x].sec
              /\ timer'[x].msec = timer[x].msec /\ timer'[x].interval = timer[x].interval
              /\ timer[x].type = "day" =>
                   timer'[x].done = IF timer[x].sec <= TimeOfDay THEN 1 ELSE 0
         /\ \A x \in Ids :
              fired'[x] = IF /\ x \in DOMAIN timer /\ timer[x].type = "day"
                             /\ timer[x].sec <= TimeOfDay /\ timer[x].done = 0
                            THEN now ELSE fired[x]
         /\ fired' \in [Ids -> -1..MaxTime]
<1>1. /\ \A x \in DOMAIN timer : timer[x] \in Timers
      /\ Range(plan) = {x \in DOMAIN timer : timer[x].type = "day"}
      /\ now \in 0..MaxTime /\ fired \in [Ids -> -1..MaxTime]
  BY DEF Tables, Types, Linked, Shape
<1>2. DOMAIN timer' = DOMAIN timer
  BY DEF PlanTask
<1>3. ASSUME NEW x \in DOMAIN timer
      PROVE  /\ timer'[x] \in Timers
             /\ timer'[x].type = timer[x].type /\ timer'[x].sec = timer[x].sec
             /\ timer'[x].msec = timer[x].msec /\ timer'[x].interval = timer[x].interval
             /\ timer[x].type = "day" =>
                  timer'[x].done = IF timer[x].sec <= TimeOfDay THEN 1 ELSE 0
  <2>1. CASE x \in Range(plan)
    <3> DEFINE d == IF timer[x].sec <= TimeOfDay THEN 1 ELSE 0
    <3>1. timer'[x] = [timer[x] EXCEPT !.done = d]
      BY <2>1 DEF PlanTask
    <3>2. d \in {0, 1}
      OBVIOUS
    <3> HIDE DEF d
    <3>3. timer[x] \in Timers
      BY <1>1
    <3>4. /\ timer'[x] \in Timers
          /\ timer'[x].type = timer[x].type /\ timer'[x].sec = timer[x].sec
          /\ timer'[x].msec = timer[x].msec /\ timer'[x].interval = timer[x].interval
          /\ timer'[x].done = d
      BY <3>1, <3>2, <3>3 DEF Timers
    <3> QED
      BY <3>4 DEF d
  <2>2. CASE x \notin Range(plan)
    <3>1. timer'[x] = timer[x] /\ timer[x].type # "day"
      BY <1>1, <2>2 DEF PlanTask
    <3> QED
      BY <3>1, <1>1
  <2> QED
    BY <2>1, <2>2
<1>4. \A x \in Ids :
        fired'[x] = IF /\ x \in DOMAIN timer /\ timer[x].type = "day"
                       /\ timer[x].sec <= TimeOfDay /\ timer[x].done = 0
                      THEN now ELSE fired[x]
  BY <1>1 DEF PlanTask
<1>5. fired' \in [Ids -> -1..MaxTime]
  BY <1>1, BoundsAre DEF PlanTask
<1> QED
  BY <1>2, <1>3, <1>4, <1>5

LEMMA PlanTaskKeeps ==
  ASSUME Tables, PlanTask, UNCHANGED <<list, plan, nextId, now, prompt, armed>>
  PROVE  Tables' /\ Survive
<1>1. /\ DOMAIN timer' = DOMAIN timer /\ fired' \in [Ids -> -1..MaxTime]
  BY PlanTaskIs
<1>2. \A x \in DOMAIN timer :
        /\ timer'[x] \in Timers
        /\ timer'[x].type = timer[x].type /\ timer'[x].sec = timer[x].sec
        /\ timer'[x].msec = timer[x].msec /\ timer'[x].interval = timer[x].interval
        /\ timer[x].type = "day" =>
             timer'[x].done = IF timer[x].sec <= TimeOfDay THEN 1 ELSE 0
  BY PlanTaskIs
<1>3. Types /\ Linked /\ Kinds /\ FiredPlans
  BY DEF Tables
<1>4. Types'
  BY <1>1, <1>2, <1>3 DEF Types, Given
<1>5. Linked'
  <2>1. \A x \in Range(list) \union Range(plan) : x \in DOMAIN timer
    BY <1>3 DEF Linked, Shape
  <2>2. Sorted(list, timer') /\ Sorted(plan, timer')
    <3>1. Sorted(list, timer) /\ Sorted(plan, timer)
      BY <1>3 DEF Linked, Shape
    <3> QED
      BY <3>1, <1>2, <2>1, SortedSame
  <2>3. /\ {x \in DOMAIN timer' : timer'[x].type = "day"} = {x \in DOMAIN timer : timer[x].type = "day"}
        /\ {x \in DOMAIN timer' : timer'[x].type # "day"} = {x \in DOMAIN timer : timer[x].type # "day"}
    BY <1>1, <1>2
  <2> QED
    BY <2>2, <2>3, <1>3 DEF Linked, Shape
<1>6. Kinds'
  BY <1>1, <1>2, <1>3 DEF Kinds
<1>7. FiredPlans'
  <2>1. \A x \in Ids : armed'[x] <= now'
    BY <1>3 DEF FiredPlans
  <2>2. ASSUME NEW x \in Ids, fired'[x] # -1
        PROVE  /\ x \in DOMAIN timer /\ timer[x].type = "day"
               /\ fired'[x] <= now
               /\ timer'[x].sec <= TodAt(fired'[x])
               /\ timer'[x].done = 0 => DayOf(fired'[x]) < DayOf(now)
    <3>1. now \in Nat /\ TimeOfDay = TodAt(now)
      BY <1>3, BoundsAre DEF Types, TodAt, TimeOfDay
    <3>2. CASE /\ x \in DOMAIN timer /\ timer[x].type = "day"
               /\ timer[x].sec <= TimeOfDay /\ timer[x].done = 0
      <4>1. fired'[x] = now
        BY <3>2, PlanTaskIs
      <4>2. timer'[x].done = 1 /\ timer'[x].sec = timer[x].sec
        BY <3>2, <1>2
      <4> QED
        BY <3>1, <3>2, <4>1, <4>2
    <3>3. CASE ~(/\ x \in DOMAIN timer /\ timer[x].type = "day"
                 /\ timer[x].sec <= TimeOfDay /\ timer[x].done = 0)
      <4>1. fired'[x] = fired[x]
        BY <3>3, PlanTaskIs
      <4>2. /\ x \in DOMAIN timer /\ timer[x].type = "day" /\ fired[x] <= now
            /\ timer[x].sec <= TodAt(fired[x])
        BY <1>3, <2>2, <4>1 DEF FiredPlans
      <4>3. timer'[x].sec = timer[x].sec /\ timer[x].sec \in Nat
        BY <4>2, <1>2, <1>3 DEF Types, Timers
      <4>4. ASSUME timer'[x].done = 0 PROVE DayOf(fired[x]) < DayOf(now)
        <5>1. ~(timer[x].sec <= TimeOfDay)
          BY <4>2, <4>4, <1>2
        <5>2. fired[x] \in Nat
          BY <1>3, <2>2, <4>1, BoundsAre DEF Types
        <5>3. TodAt(fired[x]) \in Nat /\ TodAt(now) \in Nat
          BY <3>1, <4>2, <5>2, DaysGoOn
        <5>4. TodAt(now) < TodAt(fired[x])
          BY <3>1, <4>2, <4>3, <5>1, <5>3
        <5> QED
          BY <3>1, <4>2, <5>2, <5>4, DaysGoOn
      <4> QED
        BY <4>1, <4>2, <4>3, <4>4
    <3> QED
      BY <3>2, <3>3
  <2>3. \A x \in DOMAIN timer : timer'[x].type = timer[x].type
    BY <1>2
  <2> QED
    BY <1>1, <2>1, <2>2, <2>3 DEF FiredPlans, TodAt, DayOf
<1>8. Survive
  BY <1>1, <1>2, <1>3 DEF Survive, Types
<1> QED
  BY <1>4, <1>5, <1>6, <1>7, <1>8 DEF Tables

(* A step that changes no timer, though time may pass.                     *)
LEMMA QuietKeeps ==
  ASSUME Tables, UNCHANGED <<lists, history, prompt>>, now' \in 0..MaxTime, now <= now'
  PROVE  Tables' /\ Survive
<1>1. Types /\ Linked /\ Kinds /\ FiredPlans
  BY DEF Tables
<1>2. Types' /\ Linked' /\ Kinds' /\ Survive
  BY <1>1 DEF Types, Linked, Kinds, Given, lists, history, Survive, Shape, Sorted, SoonerIn, Timers, PlanPeriod
<1>3. FiredPlans'
  <2>1. now \in Nat /\ now' \in Nat
    BY <1>1, BoundsAre DEF Types
  <2>2. DayOf(now) <= DayOf(now') /\ DayOf(now) \in Int /\ DayOf(now') \in Int
    BY <2>1, DaysGoOn
  <2>3. \A x \in Ids : armed'[x] <= now'
    BY <1>1, <2>1, BoundsAre DEF Types, FiredPlans, history
  <2>4. ASSUME NEW x \in Ids, fired[x] # -1
        PROVE  /\ x \in DOMAIN timer /\ timer[x].type = "day"
               /\ fired[x] <= now'
               /\ timer[x].sec <= TodAt(fired[x])
               /\ timer[x].done = 0 => DayOf(fired[x]) < DayOf(now')
    <3>1. fired[x] \in Nat
      BY <1>1, <2>4, BoundsAre DEF Types
    <3>2. fired[x] <= now
      BY <1>1, <2>4 DEF FiredPlans
    <3>3. DayOf(fired[x]) \in Int
      BY <2>1, <3>1, <3>2, DaysGoOn
    <3> QED
      BY <1>1, <2>1, <2>2, <2>4, <3>1, <3>2, <3>3 DEF FiredPlans
  <2> QED
    BY <2>3, <2>4 DEF FiredPlans, TodAt, DayOf, lists, history
<1> QED
  BY <1>2, <1>3 DEF Tables

(* What heads a list.                                                      *)
LEMMA HeadIs ==
  ASSUME Core, list # <<>>
  PROVE  /\ Head(list) \in Range(list) /\ Head(list) \in DOMAIN timer /\ timer[Head(list)].type # "day"
         /\ \A x \in Range(list) : timer[Head(list)].msec <= timer[x].msec
         /\ First(list) = Head(list) /\ nextId > 0
<1>1. /\ list \in Seq(Ids) /\ Sorted(list, timer)
      /\ Range(list) = {x \in DOMAIN timer : timer[x].type # "day"}
      /\ DOMAIN timer \subseteq 0..(nextId - 1) /\ nextId \in Int
      /\ \A x \in DOMAIN timer : timer[x] \in Timers
  BY BoundsAre DEF Core, Tables, Types, Given, Linked, Shape, Sorted
<1>2. Len(list) \in Nat /\ Len(list) > 0 /\ Head(list) = list[1]
  BY <1>1
<1>3. list[1] \in Range(list)
  BY <1>1, <1>2, RangeIs
<1>4. ASSUME NEW x \in Range(list) PROVE timer[list[1]].msec <= timer[x].msec
  <2>1. PICK i \in 1..Len(list) : list[i] = x
    BY <1>1, RangeIs
  <2>2. list[1] \in DOMAIN timer /\ x \in DOMAIN timer /\ timer[list[1]].sec = 0 /\ timer[x].sec = 0
    BY <1>1, <1>3, <1>4 DEF Core, Tables, Kinds
  <2>3. timer[list[1]].msec \in Int
    BY <1>1, <2>2 DEF Timers
  <2>4. CASE i = 1
    BY <2>1, <2>3, <2>4
  <2>5. CASE i # 1
    <3>1. 1 < i /\ 1 \in 1..Len(list)
      BY <1>2, <2>5
    <3>2. Behind(list, list[1], x)
      BY <2>1, <3>1 DEF Behind
    <3>3. SoonerIn(timer, list[1], x)
      BY <1>1, <3>2 DEF Sorted
    <3> QED
      BY <2>2, <3>3 DEF SoonerIn
  <2> QED
    BY <2>4, <2>5
<1>5. First(list) = Head(list)
  BY DEF First
<1>6. nextId > 0
  BY <1>1, <1>3
<1> QED
  BY <1>1, <1>2, <1>3, <1>4, <1>5, <1>6

(* What the walk can go on to.                                             *)
LEMMA SuccessorIs ==
  ASSUME Core, NEW id \in DOMAIN timer, timer[id].type # "day"
  PROVE  Successor(list, id) \in Range(list) \union {None}
<1>1. /\ list \in Seq(Ids) /\ id \in Range(list)
  BY DEF Core, Tables, Linked, Shape, Sorted
<1>2. \E j \in 1..Len(list) : list[j] = id
  BY <1>1, RangeIs
<1> DEFINE i == CHOOSE j \in 1..Len(list) : list[j] = id
<1>3. i \in 1..Len(list) /\ Len(list) \in Nat
  BY <1>1, <1>2
<1>4. Successor(list, id) = IF i = Len(list) THEN None ELSE list[i + 1]
  BY DEF Successor
<1> HIDE DEF i
<1>5. CASE i # Len(list)
  <2>1. i + 1 \in 1..Len(list)
    BY <1>3, <1>5
  <2> QED
    BY <2>1, <1>1, <1>4, <1>5, RangeIs
<1> QED
  BY <1>4, <1>5

(* A timer the thread may visit stays one.                                 *)
LEMMA VisitKeeps ==
  ASSUME Tables, Survive, NEW x, MayVisit(x, nextId, timer)
  PROVE  MayVisit(x, nextId', timer')
<1>1. nextId \in Int /\ nextId' \in Int /\ nextId <= nextId'
  BY BoundsAre DEF Tables, Types, Survive
<1>2. CASE x = None
  BY <1>2 DEF MayVisit
<1>3. CASE x # None
  <2>1. x \in 0..(nextId - 1) /\ (x \in DOMAIN timer => timer[x].type # "day")
    BY <1>3 DEF MayVisit
  <2>2. x \in 0..(nextId' - 1)
    <3>1. x \in 0..(nextId - 1)
      BY <2>1
    <3> QED
      BY <1>1, <3>1, IntervalGrows
  <2>3. x \in DOMAIN timer' => timer'[x].type # "day"
    BY <2>1 DEF Survive, Given
  <2> QED
    BY <2>2, <2>3 DEF MayVisit
<1> QED
  BY <1>2, <1>3

LEMMA ListedMayBeVisited ==
  ASSUME Tables, NEW x \in Range(list) \union {None}
  PROVE  MayVisit(x, nextId, timer)
BY DEF Tables, Types, Given, Linked, Shape, MayVisit

(* What the thread goes on to when it goes on.                             *)
LEMMA WalkingKeeps ==
  ASSUME Core, Survive, pc' \in {"find", "sleep", "walk", "handler", "broken"},
         wake' \in Nat, pc' # "sleep" => wake' = 0,
         MayVisit(cur', nextId, timer), MayVisit(nxt', nextId, timer),
         nextId = 0 /\ nextId' = 0 => pc' = "find" /\ now' = 0
  PROVE  Walking'
<1>1. MayVisit(cur', nextId', timer') /\ MayVisit(nxt', nextId', timer')
  BY VisitKeeps DEF Core
<1>2. nextId' = 0 => nextId = 0
  BY BoundsAre DEF Survive, Core, Tables, Types
<1> QED
  BY <1>1, <1>2 DEF Walking

LEMMA CoreInit ==
  ASSUME Init
  PROVE  Core
<1>1. list = <<>> /\ plan = <<>> /\ DOMAIN timer = {} /\ nextId = 0 /\ now = 0
  BY DEF Init
<1>2. Types
  <2>1. armed = [id \in Ids |-> 0] /\ fired = [id \in Ids |-> -1] /\ prompt \in BOOLEAN
    BY DEF Init
  <2> QED
    BY <1>1, <2>1, BoundsAre DEF Types
<1>3. Linked
  <2>1. Sorted(<<>>, timer) /\ Range(<<>>) = {}
    BY NothingIs DEF Sorted
  <2> QED
    BY <1>1, <2>1 DEF Linked, Shape
<1>4. Kinds
  BY <1>1 DEF Kinds
<1>5. FiredPlans
  BY DEF Init, FiredPlans
<1>6. Walking
  BY DEF Init, Walking, MayVisit
<1> QED
  BY <1>2, <1>3, <1>4, <1>5, <1>6 DEF Core, Tables

LEMMA CoreStep ==
  ASSUME Core, [Next]_vars
  PROVE  Core'
<1>1. Tables /\ Walking
  BY DEF Core
<1>2. Types
  BY DEF Core, Tables
<1>3. CASE Calling
  <2>1. PICK id, r : Placing(id, r)
    BY <1>2, <1>3, CallingIs
  <2>2. UNCHANGED <<now, prompt, pc, wake, cur, nxt>>
    BY <1>2, <1>3, CallingIs DEF thread
  <2>3. Tables' /\ Survive
    BY <1>1, <2>1, <2>2, PlacingKeeps, PlacingSurvive
  <2>4. Walking'
    BY <1>1, <2>2, <2>3, WalkingKeeps DEF Walking
  <2> QED
    BY <2>3, <2>4 DEF Core
<1>4. CASE \E id \in Ids : Del(id)
  <2>1. PICK id \in Ids : Del(id)
    BY <1>4
  <2>2. UNCHANGED <<now, prompt, pc, wake, cur, nxt>> /\ Free(id) /\ id # 0
    BY <2>1 DEF Del, thread
  <2>3. Tables' /\ Survive
    BY <1>1, <2>2, FreeingKeeps
  <2>4. Walking'
    BY <1>1, <2>2, <2>3, WalkingKeeps DEF Walking
  <2> QED
    BY <2>3, <2>4 DEF Core
<1>5. CASE HandlerReturns
  <2>1. /\ pc = "handler" /\ cur \in DOMAIN timer /\ UNCHANGED <<now, prompt>>
        /\ pc' = "walk" /\ wake' = wake /\ cur' = nxt /\ nxt' = None
    BY <1>5 DEF HandlerReturns
  <2>2. Tables' /\ Survive
    <3>1. CASE cur # 0 /\ Free(cur)
      <4>1. cur \in Ids
        BY <1>2, <2>1, BoundsAre DEF Types, Given, Ids
      <4> QED
        BY <1>1, <2>1, <3>1, <4>1, FreeingKeeps
    <3>2. CASE Placing(cur, Running("keep", timer[cur].interval))
      BY <1>1, <2>1, <3>2, PlacingKeeps, PlacingSurvive
    <3> QED
      BY <1>5, <3>1, <3>2, ReturnIs
  <2>3. MayVisit(cur', nextId, timer) /\ MayVisit(nxt', nextId, timer)
    BY <1>1, <2>1 DEF Walking, MayVisit
  <2>4. Walking'
    BY <1>1, <2>1, <2>2, <2>3, WalkingKeeps DEF Walking
  <2> QED
    BY <2>2, <2>4 DEF Core
<1>6. CASE CallHandler
  <2>1. /\ pc = "walk" /\ cur \in DOMAIN timer /\ UNCHANGED <<list, plan, nextId, now, prompt, wake, cur, armed>>
        /\ pc' = "handler" /\ nxt' = Successor(list, cur)
    BY <1>6 DEF CallHandler
  <2>2. cur # None /\ timer[cur].type # "day"
    BY <1>1, <1>2, <2>1, BoundsAre DEF Walking, MayVisit, Types, Given
  <2>3. Tables' /\ Survive
    <3>1. CASE PlanTask
      BY <1>1, <2>1, <3>1, PlanTaskKeeps
    <3>2. CASE UNCHANGED <<timer, fired>>
      <4>1. UNCHANGED <<lists, history, prompt>> /\ now' \in 0..MaxTime /\ now <= now'
        BY <1>2, <2>1, <3>2, BoundsAre DEF Types, lists, history
      <4> QED
        BY <1>1, <4>1, QuietKeeps
    <3> QED
      BY <1>6, <3>1, <3>2 DEF CallHandler
  <2>4. MayVisit(cur', nextId, timer) /\ MayVisit(nxt', nextId, timer)
    <3>1. nxt' \in Range(list) \union {None}
      BY <2>1, <2>2, SuccessorIs
    <3> QED
      BY <1>1, <2>1, <3>1, ListedMayBeVisited DEF Walking
  <2>5. Walking'
    BY <1>1, <2>1, <2>3, <2>4, WalkingKeeps DEF Walking
  <2> QED
    BY <2>3, <2>5 DEF Core
<1>7. CASE Find
  <2>1. list # <<>> /\ pc = "find" /\ UNCHANGED <<lists, now, prompt, nxt, history>>
    BY <1>7 DEF Find
  <2>2. Tables' /\ Survive
    BY <1>1, <1>2, <2>1, BoundsAre, QuietKeeps DEF Types
  <2>3. First(list) \in Range(list) /\ nextId > 0
    BY <2>1, HeadIs
  <2>4. MayVisit(cur', nextId, timer) /\ MayVisit(nxt', nextId, timer)
    BY <1>1, <1>7, <2>1, <2>3, ListedMayBeVisited DEF Find, Walking
  <2>5. /\ pc' \in {"sleep", "walk"} /\ wake' \in Nat /\ (pc' # "sleep" => wake' = 0)
    <3> DEFINE off == Signed(timer[Head(list)].msec - Clock)
    <3>1. off \in Int
      <4>1. timer[Head(list)].msec \in Int
        BY <1>2, <2>1, HeadIs DEF Types, Timers
      <4>2. Clock \in Int
        BY <1>2, BoundsAre, ModDiv DEF Types, Clock
      <4>3. ClockRange \div 2 \in Int
        BY BoundsAre
      <4> DEFINE x == (timer[Head(list)].msec - Clock) + ClockRange \div 2
      <4>4. x \in Int
        BY <4>1, <4>2, <4>3
      <4> HIDE DEF x
      <4>5. x % ClockRange \in Int
        BY <4>4, BoundsAre, ModDiv
      <4> QED
        BY <4>3, <4>5 DEF Signed, x
    <3>2. IF off > 0 THEN wake' = now + off /\ pc' = "sleep"
                     ELSE wake' = 0 /\ pc' = "walk"
      BY <1>7 DEF Find
    <3> HIDE DEF off
    <3> QED
      BY <1>2, <3>1, <3>2, BoundsAre DEF Types
  <2>6. Walking'
    BY <2>2, <2>3, <2>4, <2>5, WalkingKeeps
  <2> QED
    BY <2>2, <2>6 DEF Core
<1>8. CASE Wake
  <2>1. pc = "sleep" /\ pc' = "walk" /\ wake' = 0 /\ cur' = First(list)
        /\ UNCHANGED <<lists, now, prompt, nxt, history>>
    BY <1>8 DEF Wake
  <2>2. Tables' /\ Survive
    BY <1>1, <1>2, <2>1, BoundsAre, QuietKeeps DEF Types
  <2>3. First(list) \in Range(list) \union {None}
    BY HeadIs DEF First
  <2>4. MayVisit(cur', nextId, timer) /\ MayVisit(nxt', nextId, timer)
    BY <1>1, <2>1, <2>3, ListedMayBeVisited DEF Walking
  <2>5. Walking'
    BY <1>1, <2>1, <2>2, <2>4, WalkingKeeps DEF Walking
  <2> QED
    BY <2>2, <2>5 DEF Core
<1>9. CASE EndWalk
  <2>1. pc = "walk" /\ pc' = "find" /\ cur' = None
        /\ UNCHANGED <<lists, now, prompt, wake, nxt, history>>
    BY <1>9 DEF EndWalk
  <2>2. Tables' /\ Survive
    BY <1>1, <1>2, <2>1, BoundsAre, QuietKeeps DEF Types
  <2>3. MayVisit(cur', nextId, timer) /\ MayVisit(nxt', nextId, timer)
    BY <1>1, <2>1 DEF Walking, MayVisit
  <2>4. Walking'
    BY <1>1, <2>1, <2>2, <2>3, WalkingKeeps DEF Walking
  <2> QED
    BY <2>2, <2>4 DEF Core
<1>10. CASE Break
  <2>1. pc \in {"walk", "handler"} /\ pc' = "broken"
        /\ UNCHANGED <<lists, now, prompt, wake, cur, nxt, history>>
    BY <1>10 DEF Break
  <2>2. Tables' /\ Survive
    BY <1>1, <1>2, <2>1, BoundsAre, QuietKeeps DEF Types
  <2>3. Walking'
    BY <1>1, <2>1, <2>2, WalkingKeeps DEF Walking
  <2> QED
    BY <2>2, <2>3 DEF Core
<1>11. CASE Tick
  <2>1. /\ pc \in {"sleep", "handler"} /\ now < MaxTime /\ now' = now + 1
        /\ UNCHANGED <<lists, prompt, pc, wake, cur, nxt, history>>
    BY <1>11 DEF Tick, thread
  <2>2. Tables' /\ Survive
    <3>1. now' \in 0..MaxTime /\ now <= now'
      BY <1>2, <2>1, BoundsAre DEF Types
    <3> QED
      BY <1>1, <2>1, <3>1, QuietKeeps
  <2>3. Walking'
    BY <1>1, <2>1, <2>2, WalkingKeeps DEF Walking
  <2> QED
    BY <2>2, <2>3 DEF Core
<1>12. CASE UNCHANGED vars
  <2>1. UNCHANGED <<lists, now, prompt, pc, wake, cur, nxt, history>>
    BY <1>12 DEF vars, thread
  <2>2. Tables' /\ Survive
    BY <1>1, <1>2, <2>1, BoundsAre, QuietKeeps DEF Types
  <2>3. Walking'
    BY <1>1, <2>1, <2>2, WalkingKeeps DEF Walking
  <2> QED
    BY <2>2, <2>3 DEF Core
<1> QED
  BY <1>3, <1>4, <1>5, <1>6, <1>7, <1>8, <1>9, <1>10, <1>11, <1>12 DEF Next, ThreadStep, Calling

LEMMA CoreAlways == Spec => []Core
<1> QED
  BY CoreInit, CoreStep, PTL DEF Spec
-----------------------------------------------------------------------------
(* What follows whatever the clock does.                                   *)

(* Every timer that is not freed is linked once, in the list of its type,  *)
(* and the lists are in the order their readers rely on                    *)
(* (sk_timer.c:150-182).                                                   *)
THEOREM ListsAlwaysOrdered == Spec => []ListsAreOrdered
<1>1. ASSUME Core PROVE ListsAreOrdered
  <2>1. Types /\ Shape(list, plan, timer) /\ Sorted(list, timer) /\ Sorted(plan, timer)
    BY <1>1 DEF Core, Tables, Linked, Shape
  <2>2. /\ Range(list) = {id \in DOMAIN timer : timer[id].type # "day"}
        /\ Range(plan) = {id \in DOMAIN timer : timer[id].type = "day"}
    BY <2>1 DEF Shape
  <2>3. Len(list) + Len(plan) = Cardinality(DOMAIN timer)
    <3>1. /\ IsFiniteSet(Range(list)) /\ Cardinality(Range(list)) = Len(list)
          /\ IsFiniteSet(Range(plan)) /\ Cardinality(Range(plan)) = Len(plan)
          /\ Len(list) \in Nat /\ Len(plan) \in Nat
      BY <2>1, LenIsCardinality, RangeIs DEF Sorted
    <3>2. DOMAIN timer = Range(list) \union Range(plan) /\ Range(list) \intersect Range(plan) = {}
      BY <2>2
    <3>3. Cardinality(Range(list) \union Range(plan))
            = Cardinality(Range(list)) + Cardinality(Range(plan)) - Cardinality({})
      BY <3>1, <3>2, FS_Union
    <3>4. Cardinality({}) = 0
      BY FS_EmptySet
    <3> QED
      BY <3>1, <3>2, <3>3, <3>4
  <2>4. ASSUME NEW s \in {list, plan}, NEW i \in 1..Len(s), NEW j \in 1..Len(s), i < j
        PROVE  Sooner(s[i], s[j])
    <3>1. SoonerIn(timer, s[i], s[j])
      BY <2>1, <2>4 DEF Sorted, Behind
    <3> QED
      BY <3>1 DEF SoonerIn, Sooner
  <2> QED
    BY <2>2, <2>3, <2>4 DEF ListsAreOrdered
<1> QED
  BY <1>1, CoreAlways, PTL

(* Only plan_task calls the handler of a day plan.                         *)
LEMMA FiredBy ==
  ASSUME Core, [Next]_vars, NEW id \in Ids, fired'[id] \notin {-1, fired[id]}
  PROVE  PlanTask
<1>1. fired \in [Ids -> -1..MaxTime] /\ Types
  BY DEF Core, Tables, Types
<1>2. ASSUME NEW x, fired' = [fired EXCEPT ![x] = -1] PROVE FALSE
  BY <1>1, <1>2
<1>3. fired' # fired
  OBVIOUS
<1>4. ~Calling
  <2>1. ASSUME Calling PROVE \E x : fired' = [fired EXCEPT ![x] = -1]
    <3>1. PICK x, r : Placing(x, r)
      BY <1>1, <2>1, CallingIs
    <3> QED
      BY <3>1 DEF Placing, Place
  <2> QED
    BY <2>1, <1>2
<1>5. ~ \E x \in Ids : Del(x)
  BY <1>2 DEF Del, Free
<1>6. ~HandlerReturns
  BY <1>2 DEF HandlerReturns, UpdateTimer, Free, Uptime, Place
<1>7. ~(Find \/ Wake \/ EndWalk \/ Break \/ Tick \/ UNCHANGED vars)
  BY <1>3 DEF Find, Wake, EndWalk, Break, Tick, vars, history
<1>8. CallHandler
  BY <1>4, <1>5, <1>6, <1>7 DEF Next, ThreadStep, Calling
<1> QED
  BY <1>3, <1>8 DEF CallHandler

(* No plan is called twice on one day (sk_timer.c:95-117).                 *)
THEOREM DayPlansOnceADay == Spec => CalledOnceADay
<1> DEFINE Step == \A id \in Ids :
                     fired[id] # -1 /\ fired'[id] \notin {-1, fired[id]}
                       => DayOf(fired'[id]) > DayOf(fired[id])
<1>1. ASSUME Core, [Next]_vars PROVE [Step]_vars
  <2>1. ASSUME NEW id \in Ids, fired[id] # -1, fired'[id] \notin {-1, fired[id]}
        PROVE  DayOf(fired'[id]) > DayOf(fired[id])
    <3>1. PlanTask
      BY <1>1, <2>1, FiredBy
    <3>2. fired'[id] = now /\ timer[id].done = 0
      <4>1. fired'[id] = IF /\ id \in DOMAIN timer /\ timer[id].type = "day"
                            /\ timer[id].sec <= TimeOfDay /\ timer[id].done = 0
                           THEN now ELSE fired[id]
        BY <1>1, <3>1, PlanTaskIs DEF Core
      <4> QED
        BY <2>1, <4>1
    <3>3. DayOf(fired[id]) < DayOf(now)
      BY <1>1, <2>1, <3>2 DEF Core, Tables, FiredPlans
    <3>4. DayOf(fired[id]) \in Int /\ DayOf(now) \in Int
      <4>1. now \in Nat /\ fired[id] \in Nat /\ fired[id] <= now
        BY <1>1, <2>1, BoundsAre DEF Core, Tables, Types, FiredPlans
      <4> QED
        BY <4>1, DaysGoOn
    <3> QED
      BY <3>2, <3>3, <3>4
  <2> QED
    BY <2>1
<1> HIDE DEF Step
<1>2. Spec => [][Step]_vars
  BY <1>1, CoreAlways, PTL DEF Spec
<1> QED
  BY <1>2 DEF CalledOnceADay, Step
-----------------------------------------------------------------------------
(* What follows in the first half of the range of the clock.               *)

ClockDoesNotWrap == \A delay \in Delays \union {0, PlanPeriod} : 2 * (MaxTime + delay) < ClockRange

(* Due times are the sums they stand for, and no sleep outlasts plan_task. *)
Timely ==
  /\ \A id \in Range(list) : timer[id].msec = armed[id] + timer[id].interval
  /\ pc = "sleep" => wake <= timer[0].msec
  /\ pc = "sleep" /\ prompt => now <= wake + Overshoot

OnTime == Timely /\ NeverLate

LEMMA GapIs == Overshoot \in Nat /\ Gap = 1 + Overshoot
BY BoundsAssumption DEF Gap, PlanPeriod

LEMMA ClockIs ==
  ASSUME ClockDoesNotWrap, Types
  PROVE  Clock = now
<1>1. now \in Int /\ 0 <= now /\ now <= MaxTime /\ MaxTime \in Nat /\ ClockRange \in Nat
  BY BoundsAre DEF Types
<1>2. 2 * (MaxTime + 0) < ClockRange
  BY DEF ClockDoesNotWrap
<1>3. now < ClockRange
  BY <1>1, <1>2
<1> QED
  BY <1>1, <1>3, BoundsAre, ModNear DEF Clock

LEMMA SignedIs ==
  ASSUME NEW x \in Int, 2 * x < ClockRange, -ClockRange < 2 * x
  PROVE  Signed(x) = x
<1> DEFINE h == ClockRange \div 2
           e == ClockRange % 2
<1>1. ClockRange = h * 2 + e /\ h \in Int /\ e \in 0..1 /\ ClockRange \in Nat /\ ClockRange > 0
  <2>1. ClockRange \in Nat /\ ClockRange > 0
    BY BoundsAre
  <2> QED
    BY <2>1, ModDiv
<1> HIDE DEF h, e
<1>2. x + h \in Int /\ 0 <= x + h /\ x + h < ClockRange
  BY <1>1
<1>3. (x + h) % ClockRange = x + h
  BY <1>1, <1>2, ModNear
<1>4. ((x + h) % ClockRange) - h = x
  BY <1>1, <1>3
<1> QED
  BY <1>4 DEF Signed, h

(* The due time of a timer whose time is set now.                          *)
LEMMA FreshIsOnTime ==
  ASSUME ClockDoesNotWrap, Types, NEW r, Fresh(r), r.type # "day"
  PROVE  r.msec = now + r.interval
<1>1. PICK type \in {"once", "keep"}, delay \in Delays \union {0, PlanPeriod} : r = Running(type, delay)
  BY PlannedIs DEF Fresh
<1>2. r.msec = (now + delay) % ClockRange /\ r.interval = delay
  BY <1>1, RunningIs, ClockIs
<1>3. now \in Int /\ 0 <= now /\ now <= MaxTime /\ MaxTime \in Nat /\ ClockRange \in Nat /\ delay \in Nat
  BY BoundsAre DEF Types
<1>4. 2 * (MaxTime + delay) < ClockRange
  BY DEF ClockDoesNotWrap
<1>5. now + delay \in Int /\ 0 <= now + delay /\ now + delay < ClockRange
  BY <1>3, <1>4
<1>6. (now + delay) % ClockRange = now + delay
  BY <1>5, BoundsAre, ModNear
<1> QED
  BY <1>2, <1>6

(* The timer of plan_task.                                                 *)
LEMMA PlanTimerIs ==
  ASSUME Core, Timely, nextId > 0
  PROVE  /\ 0 \in Range(list) /\ 0 \in Ids
         /\ armed[0] \in Nat /\ armed[0] <= now /\ armed[0] <= MaxTime
         /\ timer[0].msec = armed[0] + 1
<1>1. 0 \in DOMAIN timer /\ timer[0].type = "keep" /\ timer[0].interval = 1
  BY BoundsAre DEF Core, Tables, Kinds
<1>2. 0 \in Range(list)
  BY <1>1 DEF Core, Tables, Linked, Shape
<1>3. 0 \in Ids
  BY BoundsAre DEF Ids
<1>4. armed[0] \in Nat /\ armed[0] <= now /\ armed[0] <= MaxTime
  BY <1>3, BoundsAre DEF Core, Tables, Types, FiredPlans
<1> QED
  BY <1>1, <1>2, <1>3, <1>4 DEF Timely

LEMMA ListedIs ==
  ASSUME Core, NEW x \in Range(list)
  PROVE  /\ x \in DOMAIN timer /\ x \in Ids /\ timer[x].type # "day"
         /\ timer[x].msec \in Nat
         /\ timer[x].interval \in Nat /\ timer[x].interval \in Delays \union {0, PlanPeriod}
         /\ armed[x] \in Nat /\ armed[x] <= now
         /\ now \in Nat /\ now <= MaxTime /\ wake \in Nat
<1>1. x \in DOMAIN timer /\ timer[x].type # "day"
  BY DEF Core, Tables, Linked, Shape
<1>2. x \in Ids
  BY <1>1, BoundsAre DEF Core, Tables, Types, Given, Ids
<1>3. timer[x].msec \in Nat /\ timer[x].interval \in Nat
  BY <1>1 DEF Core, Tables, Types, Timers
<1>4. timer[x].interval \in Delays \union {0, PlanPeriod}
  BY <1>1 DEF Core, Tables, Kinds
<1>5. armed[x] \in Nat /\ armed[x] <= now /\ now \in Nat /\ now <= MaxTime /\ wake \in Nat
  BY <1>2, BoundsAre DEF Core, Tables, Types, FiredPlans, Walking
<1> QED
  BY <1>1, <1>2, <1>3, <1>4, <1>5

(* A step without the passage of time leaves a running timer its due time, *)
(* or sets it now.                                                         *)
Kept(x) ==
  /\ x \in Range(list) /\ timer'[x].msec = timer[x].msec
  /\ timer'[x].interval = timer[x].interval /\ armed'[x] = armed[x]
SetNow(x) ==
  /\ armed'[x] = now /\ timer'[x].interval \in Nat
  /\ timer'[x].msec = now + timer'[x].interval

LEMMA OnTimeKeeps ==
  ASSUME Core, OnTime, UNCHANGED <<now, prompt>>,
         \A x \in Range(list') : Kept(x) \/ SetNow(x),
         pc' = "sleep" => pc = "sleep" /\ wake' = wake /\ Kept(0)
  PROVE  OnTime'
<1>1. Timely /\ NeverLate
  BY DEF OnTime
<1>2. \A x \in Range(list') : timer'[x].msec = armed'[x] + timer'[x].interval
  BY <1>1 DEF Timely, Kept, SetNow
<1>3. now \in Nat /\ wake \in Nat
  BY BoundsAre DEF Core, Tables, Types, Walking
<1>4. /\ pc' = "sleep" => wake' <= timer'[0].msec
      /\ pc' = "sleep" /\ prompt' => now' <= wake' + Overshoot
  BY <1>1 DEF Timely, Kept
<1>5. ASSUME NEW x \in Range(list')
      PROVE  /\ pc' = "sleep" => wake' <= timer'[x].msec + PlanPeriod
             /\ prompt' => now' <= timer'[x].msec + Gap
  <2>1. CASE Kept(x)
    BY <1>1, <2>1 DEF NeverLate, Kept
  <2>2. CASE SetNow(x)
    <3>1. PICK i \in Nat : i = timer'[x].interval
      BY <2>2 DEF SetNow
    <3>2. timer'[x].msec = now + i
      BY <2>2, <3>1 DEF SetNow
    <3>3. now <= timer'[x].msec + Gap
      BY <1>3, <3>2, BoundsAre, GapIs
    <3>4. pc' = "sleep" => wake <= timer'[x].msec + PlanPeriod
      <4> HAVE pc' = "sleep"
      <4>1. nextId > 0
        BY BoundsAre DEF Core, Tables, Types, Walking
      <4>2. armed[0] \in Nat /\ armed[0] <= now /\ timer[0].msec = armed[0] + 1
        BY <1>1, <4>1, PlanTimerIs
      <4>3. wake <= armed[0] + 1
        BY <1>1, <4>2 DEF Timely
      <4> QED
        BY <1>3, <3>2, <4>2, <4>3, BoundsAre
    <3> QED
      BY <3>3, <3>4
  <2> QED
    BY <1>5, <2>1, <2>2
<1> QED
  BY <1>2, <1>4, <1>5 DEF OnTime, Timely, NeverLate

LEMMA PlacingSets ==
  ASSUME ClockDoesNotWrap, Core, Tables', NEW id, NEW r, Placing(id, r)
  PROVE  /\ \A x \in Range(list') : Kept(x) \/ SetNow(x)
         /\ nextId > 0 /\ id # 0 => Kept(0)
<1>1. /\ Tables /\ Types /\ armed \in [Ids -> 0..MaxTime]
      /\ Range(list) = {x \in DOMAIN timer : timer[x].type # "day"}
      /\ Range(list') = {x \in DOMAIN timer' : timer'[x].type # "day"}
  BY DEF Core, Tables, Types, Linked, Shape
<1>2. /\ id \in Ids /\ r \in Timers
      /\ DOMAIN timer' = DOMAIN timer \union {id} /\ timer'[id] = r
      /\ armed' = [armed EXCEPT ![id] = now]
  BY <1>1, PlacingIs
<1>3. \A x \in DOMAIN timer \ {id} : timer'[x] = timer[x]
  BY <1>1, PlacingIs
<1>4. ASSUME NEW x \in DOMAIN timer \ {id}, timer[x].type # "day" PROVE Kept(x)
  <2>1. x \in Ids
    BY <1>1, BoundsAre DEF Types, Given, Ids
  <2>2. armed'[x] = armed[x] /\ timer'[x] = timer[x] /\ x \in Range(list)
    BY <1>1, <1>2, <1>3, <1>4, <2>1
  <2> QED
    BY <2>2 DEF Kept
<1>5. ASSUME r.type # "day" PROVE SetNow(id)
  <2>1. r.msec = now + r.interval
    BY <1>1, <1>5, FreshIsOnTime DEF Placing
  <2>2. r.interval \in Nat
    BY <1>2 DEF Timers
  <2>3. armed'[id] = now
    BY <1>1, <1>2
  <2> QED
    BY <1>2, <2>1, <2>2, <2>3 DEF SetNow
<1>6. ASSUME NEW x \in Range(list') PROVE Kept(x) \/ SetNow(x)
  <2>1. CASE x = id
    BY <1>1, <1>2, <1>5, <1>6, <2>1
  <2>2. CASE x # id
    <3>1. x \in DOMAIN timer \ {id} /\ timer'[x] = timer[x] /\ timer'[x].type # "day"
      BY <1>1, <1>2, <1>3, <1>6, <2>2
    <3> QED
      BY <3>1, <1>4
  <2> QED
    BY <2>1, <2>2
<1>7. nextId > 0 /\ id # 0 => Kept(0)
  <2>1. nextId > 0 => 0 \in DOMAIN timer /\ timer[0].type # "day"
    BY <1>1 DEF Tables, Kinds
  <2> QED
    BY <2>1, <1>4
<1> QED
  BY <1>6, <1>7

LEMMA FreeingSets ==
  ASSUME Core, Tables', NEW id, id # 0, Free(id)
  PROVE  /\ \A x \in Range(list') : Kept(x)
         /\ nextId > 0 => Kept(0)
<1>1. /\ Types /\ armed \in [Ids -> 0..MaxTime]
      /\ Range(list) = {x \in DOMAIN timer : timer[x].type # "day"}
      /\ Range(list') = {x \in DOMAIN timer' : timer'[x].type # "day"}
  BY DEF Core, Tables, Types, Linked, Shape
<1>2. /\ DOMAIN timer' = DOMAIN timer \ {id}
      /\ \A x \in DOMAIN timer \ {id} : timer'[x] = timer[x]
      /\ armed' = [armed EXCEPT ![id] = 0]
  BY DEF Free
<1>3. ASSUME NEW x \in DOMAIN timer \ {id}, timer[x].type # "day" PROVE Kept(x)
  <2>1. x \in Ids
    BY <1>1, BoundsAre DEF Types, Given, Ids
  <2>2. armed'[x] = armed[x] /\ timer'[x] = timer[x] /\ x \in Range(list)
    BY <1>1, <1>2, <1>3, <2>1
  <2> QED
    BY <2>2 DEF Kept
<1>4. nextId > 0 => 0 \in DOMAIN timer /\ timer[0].type # "day"
  BY DEF Core, Tables, Kinds
<1> QED
  BY <1>1, <1>2, <1>3, <1>4

(* sk_timer_find sleeps to the due time of the head.                       *)
LEMMA FindIs ==
  ASSUME ClockDoesNotWrap, Core, Timely, Find
  PROVE  /\ list # <<>> /\ UNCHANGED <<lists, now, prompt, nxt, history>>
         /\ \/ pc' = "sleep" /\ wake' = timer[Head(list)].msec /\ now < wake'
            \/ pc' = "walk" /\ wake' = 0
<1>1. list # <<>> /\ UNCHANGED <<lists, now, prompt, nxt, history>>
  BY DEF Find
<1> DEFINE h == Head(list)
           due == timer[h].msec
<1>2. h \in Range(list)
  BY <1>1, HeadIs
<1> HIDE DEF h
<1>3. /\ due \in Nat /\ timer[h].interval \in Nat /\ timer[h].interval \in Delays \union {0, PlanPeriod}
      /\ armed[h] \in Nat /\ armed[h] <= now /\ now \in Nat /\ now <= MaxTime
  BY <1>2, ListedIs
<1>4. due = armed[h] + timer[h].interval
  BY <1>2 DEF Timely
<1>5. 2 * (MaxTime + timer[h].interval) < ClockRange
  BY <1>3 DEF ClockDoesNotWrap
<1> HIDE DEF due
<1>6. due - now \in Int /\ 2 * (due - now) < ClockRange /\ -ClockRange < 2 * (due - now)
  BY <1>3, <1>4, <1>5, BoundsAre
<1>7. Signed(due - now) = due - now
  BY <1>6, SignedIs
<1>8. Clock = now
  BY ClockIs DEF Core, Tables
<1>9. IF due - now > 0 THEN wake' = now + (due - now) /\ pc' = "sleep"
                       ELSE wake' = 0 /\ pc' = "walk"
  BY <1>7, <1>8 DEF Find, due, h
<1>10. \/ pc' = "sleep" /\ wake' = due /\ now < wake'
       \/ pc' = "walk" /\ wake' = 0
  BY <1>3, <1>9
<1> QED
  BY <1>1, <1>10 DEF due, h

LEMMA FindOnTime ==
  ASSUME ClockDoesNotWrap, Core, OnTime, Find
  PROVE  OnTime'
<1>1. Timely /\ NeverLate
  BY DEF OnTime
<1>2. list # <<>> /\ UNCHANGED <<list, timer, now, prompt, armed>>
  BY <1>1, FindIs DEF lists, history
<1>3. CASE pc' = "walk"
  <2>1. \A x \in Range(list') : Kept(x)
    BY <1>2 DEF Kept
  <2> QED
    BY <1>2, <1>3, <2>1, OnTimeKeeps
<1>4. CASE pc' = "sleep" /\ wake' = timer[Head(list)].msec /\ now < wake'
  <2>1. nextId > 0 /\ \A x \in Range(list) : timer[Head(list)].msec <= timer[x].msec
    BY <1>2, HeadIs
  <2>2. 0 \in Range(list)
    BY <1>1, <2>1, PlanTimerIs
  <2>3. timer[Head(list)].msec \in Nat /\ now \in Nat
    BY <1>2, HeadIs, ListedIs
  <2>4. Timely'
    <3>1. wake' <= timer'[0].msec /\ now' <= wake' + Overshoot
      BY <1>2, <1>4, <2>1, <2>2, <2>3, GapIs
    <3> QED
      BY <1>1, <1>2, <3>1 DEF Timely
  <2>5. NeverLate'
    <3>1. \A x \in Range(list) : wake' <= timer[x].msec + PlanPeriod
      <4> TAKE x \in Range(list)
      <4>1. timer[x].msec \in Nat
        BY ListedIs
      <4>2. timer[Head(list)].msec <= timer[x].msec + PlanPeriod
        BY <2>1, <2>3, <4>1, BoundsAre
      <4> QED
        BY <1>4, <4>2
    <3> QED
      BY <1>1, <1>2, <3>1 DEF NeverLate, PlanPeriod
  <2> QED
    BY <2>4, <2>5 DEF OnTime
<1> QED
  BY <1>1, <1>3, <1>4, FindIs

LEMMA TickOnTime ==
  ASSUME Core, OnTime, Tick
  PROVE  OnTime'
<1>1. Timely /\ NeverLate
  BY DEF OnTime
<1>2. /\ prompt => pc = "sleep" /\ now < wake + Overshoot
      /\ now' = now + 1 /\ UNCHANGED <<list, timer, prompt, pc, wake, armed>>
  BY DEF Tick, lists, thread, history
<1>3. now \in Nat /\ wake \in Nat
  BY BoundsAre DEF Core, Tables, Types, Walking
<1>4. prompt => pc = "sleep" /\ now + 1 <= wake + Overshoot
  BY <1>2, <1>3, GapIs
<1>5. Timely'
  BY <1>1, <1>2, <1>4 DEF Timely
<1>6. ASSUME NEW x \in Range(list)
      PROVE  /\ pc = "sleep" => wake <= timer[x].msec + PlanPeriod
             /\ prompt => now + 1 <= timer[x].msec + Gap
  <2>1. timer[x].msec \in Nat
    BY <1>6, ListedIs
  <2>2. pc = "sleep" => wake <= timer[x].msec + PlanPeriod
    BY <1>1, <1>6 DEF NeverLate
  <2>3. ASSUME prompt PROVE now + 1 <= timer[x].msec + Gap
    BY <1>3, <1>4, <2>1, <2>2, <2>3, BoundsAre, GapIs
  <2> QED
    BY <2>2, <2>3
<1>7. NeverLate'
  BY <1>2, <1>6 DEF NeverLate, PlanPeriod
<1> QED
  BY <1>5, <1>7 DEF OnTime

LEMMA OnTimeInit ==
  ASSUME Init
  PROVE  OnTime
<1>1. Range(list) = {} /\ pc = "find"
  BY NothingIs DEF Init
<1> QED
  BY <1>1 DEF OnTime, Timely, NeverLate

LEMMA OnTimeStep ==
  ASSUME ClockDoesNotWrap, Core, OnTime, [Next]_vars
  PROVE  OnTime'
<1>1. Tables /\ Types /\ Walking /\ Core' /\ Tables' /\ Timely
  BY CoreStep DEF Core, Tables, OnTime
<1>2. CASE Calling
  <2>1. PICK id, r : Placing(id, r) /\ (id = 0 => nextId = 0)
    BY <1>1, <1>2, CallingIs
  <2>2. UNCHANGED <<now, prompt, pc, wake>>
    BY <1>1, <1>2, CallingIs DEF thread
  <2>3. (\A x \in Range(list') : Kept(x) \/ SetNow(x)) /\ (nextId > 0 /\ id # 0 => Kept(0))
    BY <1>1, <2>1, PlacingSets
  <2>4. pc = "sleep" => nextId > 0 /\ id # 0
    <3>1. pc = "sleep" => nextId # 0
      BY <1>1 DEF Walking
    <3> QED
      BY <1>1, <2>1, <3>1, BoundsAre DEF Types
  <2> QED
    BY <2>2, <2>3, <2>4, OnTimeKeeps
<1>3. CASE \E id \in Ids : Del(id)
  <2>1. PICK id \in Ids : Del(id)
    BY <1>3
  <2>2. UNCHANGED <<now, prompt, pc, wake>> /\ Free(id) /\ id # 0 /\ nextId > 0
    BY <2>1 DEF Del, MayCall, thread
  <2>3. (\A x \in Range(list') : Kept(x)) /\ Kept(0)
    BY <1>1, <2>2, FreeingSets
  <2> QED
    BY <2>2, <2>3, OnTimeKeeps
<1>4. CASE HandlerReturns
  <2>1. UNCHANGED <<now, prompt>> /\ pc' = "walk"
    BY <1>4 DEF HandlerReturns
  <2>2. \A x \in Range(list') : Kept(x) \/ SetNow(x)
    <3>1. CASE cur # 0 /\ Free(cur)
      BY <1>1, <3>1, FreeingSets
    <3>2. CASE Placing(cur, Running("keep", timer[cur].interval))
      BY <1>1, <3>2, PlacingSets
    <3> QED
      BY <1>4, <3>1, <3>2, ReturnIs
  <2> QED
    BY <2>1, <2>2, OnTimeKeeps
<1>5. CASE CallHandler
  <2>1. UNCHANGED <<list, now, prompt, armed>> /\ pc' = "handler"
    BY <1>5 DEF CallHandler
  <2>2. \A x \in DOMAIN timer : timer'[x].msec = timer[x].msec /\ timer'[x].interval = timer[x].interval
    <3>1. CASE PlanTask
      BY <1>1, <3>1, PlanTaskIs
    <3>2. CASE UNCHANGED timer
      BY <3>2
    <3> QED
      BY <1>5, <3>1, <3>2 DEF CallHandler
  <2>3. \A x \in Range(list') : Kept(x)
    BY <2>1, <2>2, ListedIs DEF Kept
  <2> QED
    BY <2>1, <2>3, OnTimeKeeps
<1>6. CASE Wake \/ EndWalk \/ Break \/ UNCHANGED vars
  <2>1. UNCHANGED <<list, timer, nextId, now, prompt, armed>> /\ (pc' = "sleep" => pc = "sleep" /\ wake' = wake)
    BY <1>6 DEF Wake, EndWalk, Break, vars, lists, thread, history
  <2>2. \A x \in Range(list) : Kept(x)
    BY <2>1 DEF Kept
  <2>3. pc' = "sleep" => Kept(0)
    <3> HAVE pc' = "sleep"
    <3>1. nextId > 0
      BY <1>1, <2>1, BoundsAre DEF Types, Walking
    <3> QED
      BY <1>1, <2>2, <3>1, PlanTimerIs
  <2> QED
    BY <2>1, <2>2, <2>3, OnTimeKeeps
<1> QED
  BY <1>2, <1>3, <1>4, <1>5, <1>6, FindOnTime, TickOnTime DEF Next, ThreadStep, Calling

LEMMA OnTimeAlways == ClockDoesNotWrap /\ Spec => [](ClockDoesNotWrap /\ Core /\ OnTime)
<1> DEFINE I == ClockDoesNotWrap /\ Core /\ OnTime
<1>1. ClockDoesNotWrap /\ Init => I
  BY CoreInit, OnTimeInit
<1>2. I /\ [Next]_vars => I'
  BY CoreStep, OnTimeStep DEF ClockDoesNotWrap, PlanPeriod
<1> QED
  BY <1>1, <1>2, PTL DEF Spec

(* Every variable has its type, and no sleep ends later than a second      *)
(* after the last moment.                                                  *)
THEOREM TypeCorrect == ClockDoesNotWrap /\ Spec => []TypeOK
<1>1. ASSUME Core, OnTime PROVE TypeOK
  <2>1. Types /\ Walking /\ Timely /\ list \in Seq(Ids) /\ plan \in Seq(Ids)
    BY <1>1 DEF Core, Tables, Linked, Shape, Sorted, OnTime
  <2>2. wake \in 0..(MaxTime + PlanPeriod)
    <3>1. CASE pc = "sleep"
      <4>1. nextId > 0
        BY <2>1, <3>1, BoundsAre DEF Types, Walking
      <4>2. armed[0] \in Nat /\ armed[0] <= MaxTime /\ timer[0].msec = armed[0] + 1
        BY <1>1, <2>1, <4>1, PlanTimerIs
      <4>3. wake <= armed[0] + 1 /\ wake \in Nat
        BY <2>1, <3>1, <4>2 DEF Timely, Walking
      <4> QED
        BY <4>2, <4>3, BoundsAre
    <3>2. CASE pc # "sleep"
      BY <2>1, <3>2, BoundsAre DEF Walking
    <3> QED
      BY <3>1, <3>2
  <2>3. {cur, nxt} \subseteq Ids \union {None}
    <3>1. \A x \in Given : x \in Ids
      BY <2>1, BoundsAre DEF Types, Given, Ids
    <3> QED
      BY <2>1, <3>1 DEF Walking, MayVisit, Given
  <2> QED
    BY <2>1, <2>2, <2>3 DEF TypeOK, Types, Walking, Given
<1> QED
  BY <1>1, OnTimeAlways, PTL

(* Though the thread is not woken for a new timer, no sleep goes on more   *)
(* than a second beyond the time of any (sk_timer.c:184-199, 277-305).     *)
THEOREM TimersNeverLate == ClockDoesNotWrap /\ Spec => []NeverLate
<1>1. Core /\ OnTime => NeverLate
  BY DEF OnTime
<1> QED
  BY <1>1, OnTimeAlways, PTL

(* No handler is called before the delay of its timer has passed           *)
(* (sk_timer.c:228).                                                       *)
THEOREM TimersNeverEarly == ClockDoesNotWrap /\ Spec => NeverEarly
<1> DEFINE Step == pc = "walk" /\ pc' = "handler" => now - armed[cur] >= timer[cur].interval
<1>1. ASSUME ClockDoesNotWrap, Core, OnTime, [Next]_vars PROVE [Step]_vars
  <2> SUFFICES ASSUME pc = "walk", pc' = "handler" PROVE now - armed[cur] >= timer[cur].interval
    OBVIOUS
  <2>1. CallHandler
    <3>1. Types
      BY <1>1 DEF Core, Tables
    <3>2. ~Calling
      BY <1>1, <3>1, CallingIs DEF thread
    <3> QED
      BY <1>1, <3>2 DEF Next, ThreadStep, Calling, Del, Find, Wake, EndWalk, Break, HandlerReturns, Tick, vars, thread
  <2>2. cur \in DOMAIN timer /\ timer[cur].msec <= Clock
    BY <2>1 DEF CallHandler, Due
  <2>3. Clock = now
    BY <1>1, ClockIs DEF Core, Tables
  <2>4. cur \in Range(list)
    <3>1. cur # None
      BY <1>1, <2>2, BoundsAre DEF Core, Tables, Types, Given
    <3>2. timer[cur].type # "day"
      BY <1>1, <2>2, <3>1 DEF Core, Walking, MayVisit
    <3> QED
      BY <1>1, <2>2, <3>2 DEF Core, Tables, Linked, Shape
  <2>5. timer[cur].msec = armed[cur] + timer[cur].interval
    BY <1>1, <2>4 DEF OnTime, Timely
  <2>6. timer[cur].interval \in Nat /\ armed[cur] \in Nat /\ now \in Nat
    BY <1>1, <2>4, ListedIs
  <2> QED
    BY <2>2, <2>3, <2>5, <2>6
<1> HIDE DEF Step
<1>2. ClockDoesNotWrap /\ Spec => [][Step]_vars
  BY <1>1, OnTimeAlways, PTL DEF Spec
<1> QED
  BY <1>2 DEF NeverEarly, Step
-----------------------------------------------------------------------------
(* Where all is prompt, two runs of plan_task are no more than Gap apart,  *)
(* and so every plan that is as far from midnight has its turn.            *)

RunsGoOn ==
  prompt /\ nextId > 0 =>
    /\ now <= armed[0] + Gap
    /\ pc = "sleep" => wake = armed[0] + 1
    /\ pc = "handler" /\ cur = 0 => armed[0] < now

(* When plan_task ran last, and when, at some moment, a time of day was    *)
(* last.                                                                   *)
LastRun == IF pc = "handler" /\ cur = 0 THEN now ELSE armed[0]
Moment(time, sec) == time - ((TodAt(time) - sec) % DayLength)

(* A plan plan_task has not come by since it was made, and one it has.     *)
Unseen(id) ==
  /\ LastRun <= armed[id] /\ fired[id] = -1
  /\ timer[id].done = IF timer[id].sec < TodAt(armed[id]) THEN 1 ELSE 0
Seen(id) ==
  /\ armed[id] <= LastRun
  /\ timer[id].done = IF timer[id].sec <= TodAt(LastRun) THEN 1 ELSE 0
  /\ LET moment == Moment(LastRun, timer[id].sec)
     IN  timer[id].sec \in Gap..(DayLength - Gap) /\ armed[id] < moment
           => fired[id] \in moment..(moment + Overshoot)

Plans == prompt => \A id \in Range(plan) : Unseen(id) \/ Seen(id)

Daily == RunsGoOn /\ Plans

(* plan_task is armed anew only by sk_timer_init and at its own end.       *)
LEMMA PlanTaskIsArmed ==
  ASSUME Core, NEW id, NEW r, Placing(id, r), id # 0
  PROVE  armed'[0] = armed[0]
<1>1. armed' = [armed EXCEPT ![id] = now]
  BY DEF Placing, Place
<1>2. armed \in [Ids -> 0..MaxTime] /\ 0 \in Ids
  BY BoundsAre DEF Core, Tables, Types, Ids
<1> QED
  BY <1>1, <1>2

LEMMA RunsGoOnStep ==
  ASSUME ClockDoesNotWrap, Core, OnTime, RunsGoOn, [Next]_vars
  PROVE  RunsGoOn'
<1> SUFFICES ASSUME prompt', nextId' > 0
             PROVE  /\ now' <= armed'[0] + Gap
                    /\ pc' = "sleep" => wake' = armed'[0] + 1
                    /\ pc' = "handler" /\ cur' = 0 => armed'[0] < now'
  BY DEF RunsGoOn
<1>1. /\ Tables /\ Types /\ Walking /\ Timely /\ armed \in [Ids -> 0..MaxTime]
      /\ now \in Nat /\ wake \in Nat /\ 0 \in Ids /\ nextId \in Nat
  BY BoundsAre DEF Core, Tables, Types, Walking, OnTime, Ids
<1>2. ASSUME prompt, nextId > 0
      PROVE  /\ now <= armed[0] + Gap /\ armed[0] \in Nat /\ armed[0] <= now
             /\ pc = "sleep" => wake = armed[0] + 1
             /\ pc = "handler" /\ cur = 0 => armed[0] < now
             /\ 0 \in Range(list) /\ timer[0].msec = armed[0] + 1
  BY <1>1, <1>2, PlanTimerIs DEF RunsGoOn
<1>3. CASE Calling
  <2>1. PICK id, r : Placing(id, r) /\ (id = 0 => nextId = 0)
    BY <1>1, <1>3, CallingIs
  <2>2. UNCHANGED <<now, prompt, pc, wake, cur>>
    BY <1>1, <1>3, CallingIs DEF thread
  <2>3. CASE id = 0
    <3>1. armed'[0] = now /\ pc = "find"
      BY <1>1, <2>1, <2>3, PlacingIs DEF Walking
    <3> QED
      BY <1>1, <2>2, <3>1, GapIs
  <2>4. CASE id # 0
    <3>1. armed'[0] = armed[0] /\ nextId > 0
      BY <1>1, <2>1, <2>4, PlanTaskIsArmed, PlacingIs
    <3> QED
      BY <1>2, <2>2, <3>1
  <2> QED
    BY <2>3, <2>4
<1>4. CASE \E id \in Ids : Del(id)
  <2>1. PICK id \in Ids : Del(id)
    BY <1>4
  <2>2. /\ UNCHANGED <<now, prompt, pc, wake, cur, nextId>> /\ id # 0
        /\ armed' = [armed EXCEPT ![id] = 0]
    BY <2>1 DEF Del, Free, thread
  <2>3. armed'[0] = armed[0]
    BY <1>1, <2>2
  <2> QED
    BY <1>2, <2>2, <2>3
<1>5. CASE HandlerReturns
  <2>1. UNCHANGED <<now, prompt>> /\ pc' = "walk" /\ pc = "handler"
    BY <1>5 DEF HandlerReturns
  <2>2. nextId > 0
    BY <1>1, <2>1 DEF Walking
  <2>3. armed'[0] = armed[0] \/ armed'[0] = now
    <3>1. CASE cur # 0 /\ Free(cur)
      BY <1>1, <3>1 DEF Free
    <3>2. CASE Placing(cur, Running("keep", timer[cur].interval))
      BY <1>1, <3>2, PlacingIs
    <3> QED
      BY <1>5, <3>1, <3>2, ReturnIs
  <2> QED
    BY <1>1, <1>2, <2>1, <2>2, <2>3, GapIs
<1>6. CASE CallHandler
  <2>1. /\ UNCHANGED <<now, prompt, armed, nextId, cur>> /\ pc' = "handler"
        /\ timer[cur].msec <= Clock
    BY <1>6 DEF CallHandler, Due
  <2>2. Clock = now
    BY <1>1, ClockIs
  <2>3. cur = 0 => armed[0] + 1 <= now
    BY <1>2, <2>1, <2>2
  <2> QED
    BY <1>1, <1>2, <2>1, <2>3
<1>7. CASE Find
  <2>1. /\ list # <<>> /\ UNCHANGED <<list, timer, nextId, now, prompt, armed>>
        /\ \/ pc' = "sleep" /\ wake' = timer[Head(list)].msec /\ now < wake'
           \/ pc' = "walk" /\ wake' = 0
    BY <1>1, <1>7, FindIs DEF lists, history
  <2>2. /\ now <= armed[0] + Gap /\ armed[0] \in Nat /\ armed[0] <= now
        /\ 0 \in Range(list) /\ timer[0].msec = armed[0] + 1
    BY <1>2, <2>1
  <2>3. timer[Head(list)].msec <= armed[0] + 1 /\ timer[Head(list)].msec \in Nat
    BY <2>1, <2>2, HeadIs, ListedIs
  <2>4. pc' = "sleep" => wake' = armed[0] + 1
    <3> HAVE pc' = "sleep"
    <3> DEFINE due == timer[Head(list)].msec
    <3>1. wake' = due /\ now < due /\ due \in Nat /\ due <= armed[0] + 1
      BY <2>1, <2>3
    <3> HIDE DEF due
    <3> QED
      BY <1>1, <2>2, <3>1
  <2> QED
    BY <2>1, <2>2, <2>4
<1>8. CASE Tick
  <2>1. /\ prompt => pc = "sleep"
        /\ UNCHANGED <<nextId, prompt, pc, wake, cur, armed>>
    BY <1>8 DEF Tick, lists, thread, history
  <2>2. pc = "sleep" /\ pc' = "sleep"
    BY <2>1
  <2>3. now' <= wake + Overshoot
    <3>1. OnTime'
      BY <1>8, TickOnTime
    <3> QED
      BY <2>1, <2>2, <3>1 DEF OnTime, Timely
  <2>4. wake = armed[0] + 1 /\ armed[0] \in Nat
    BY <1>2, <2>1, <2>2
  <2>5. now' <= armed[0] + Gap
    BY <1>8, <2>3, <2>4, GapIs DEF Tick
  <2> QED
    BY <1>1, <1>2, <2>1, <2>2, <2>4, <2>5
<1>9. CASE Wake \/ EndWalk \/ Break \/ UNCHANGED vars
  <2>1. /\ UNCHANGED <<nextId, now, prompt, armed>>
        /\ pc' \in {"walk", "find", "broken"} \/ UNCHANGED <<pc, wake, cur>>
    BY <1>9 DEF Wake, EndWalk, Break, vars, lists, thread, history
  <2> QED
    BY <1>2, <2>1
<1> QED
  BY <1>3, <1>4, <1>5, <1>6, <1>7, <1>8, <1>9 DEF Next, ThreadStep, Calling

(* A plan that no step touches, between two runs of plan_task.             *)
Untouched(id) ==
  /\ id \in Range(plan) /\ timer'[id] = timer[id]
  /\ armed'[id] = armed[id] /\ fired'[id] = fired[id]

LEMMA UntouchedStays ==
  ASSUME NEW id, Untouched(id), LastRun' = LastRun, Unseen(id) \/ Seen(id)
  PROVE  Unseen(id)' \/ Seen(id)'
BY DEF Untouched, Unseen, Seen, Moment, TodAt

(* A plan whose time is set now.                                           *)
LEMMA NewPlanIsUnseen ==
  ASSUME Core, NEW id, NEW r, Placing(id, r), r.type = "day",
         UNCHANGED now, LastRun' <= now
  PROVE  Unseen(id)'
<1>1. PICK sec \in Nat \ {0} : r = Planned(sec)
  <2>1. ~ \E type \in {"once", "keep"}, delay \in Delays \union {0, PlanPeriod} : r = Running(type, delay)
    BY RunningIs DEF Core, Tables
  <2> QED
    BY <2>1 DEF Placing, Fresh
<1>2. r.sec = sec /\ r.done = IF sec < TodAt(now) THEN 1 ELSE 0
  BY <1>1, PlannedIs DEF TodAt, TimeOfDay
<1>3. /\ id \in Ids /\ timer'[id] = r
      /\ armed' = [armed EXCEPT ![id] = now] /\ fired' = [fired EXCEPT ![id] = -1]
  BY PlacingIs DEF Core
<1>4. armed'[id] = now /\ fired'[id] = -1
  BY <1>3 DEF Core, Tables, Types
<1> QED
  BY <1>2, <1>3, <1>4 DEF Unseen, TodAt

LEMMA PlannedAre ==
  ASSUME Tables, NEW id \in Range(plan)
  PROVE  /\ id \in DOMAIN timer /\ id \in Ids /\ timer[id].type = "day" /\ id # 0
         /\ timer[id].sec \in Nat /\ timer[id].sec > 0
         /\ timer[id].done \in {0, 1}
         /\ armed[id] \in Nat /\ armed[id] <= now /\ now \in Nat
<1>1. id \in DOMAIN timer /\ timer[id].type = "day"
  BY DEF Tables, Linked, Shape
<1>2. id \in Ids
  BY <1>1, BoundsAre DEF Tables, Types, Given, Ids
<1>3. timer[id].sec > 0 /\ id # 0
  BY <1>1 DEF Tables, Kinds
<1>4. timer[id].sec \in Nat /\ timer[id].done \in {0, 1}
  BY <1>1 DEF Tables, Types, Timers
<1>5. armed[id] \in Nat /\ armed[id] <= now /\ now \in Nat
  BY <1>2, BoundsAre DEF Tables, Types, FiredPlans
<1> QED
  BY <1>1, <1>2, <1>3, <1>4, <1>5

(* A time of day a Gap away from midnight, from one run of plan_task to    *)
(* the next: it came between them, on one day, or it has not come again.   *)
LEMMA MomentGoesOn ==
  ASSUME NEW last \in Nat, NEW then \in Nat, last < then, then <= last + Gap,
         NEW sec \in Gap..(DayLength - Gap)
  PROVE  \/ /\ TodAt(last) < sec /\ sec <= TodAt(then)
            /\ Moment(then, sec) = last + (sec - TodAt(last))
            /\ Moment(then, sec) <= then
            /\ TodAt(then) = TodAt(last) + (then - last)
         \/ /\ Moment(then, sec) = Moment(last, sec) /\ Moment(last, sec) <= last
            /\ Moment(last, sec) \in Int
            /\ sec <= TodAt(then) => sec <= TodAt(last)
<1> DEFINE d == then - last
           was == TodAt(last)
           tod == TodAt(then)
<1>1. /\ DayLength \in Nat /\ DayLength > 0 /\ StartOfDay \in Nat /\ Overshoot \in Nat /\ Gap = 1 + Overshoot
      /\ Gap <= sec /\ sec <= DayLength - Gap /\ sec \in Nat
  BY BoundsAre, GapIs
<1>2. d \in 1..Gap /\ d \in 0..(DayLength - 1) /\ d <= Gap
  BY <1>1
<1>3. was \in 0..(DayLength - 1) /\ tod \in 0..(DayLength - 1)
  <2>1. StartOfDay + last \in Int /\ StartOfDay + then \in Int
    BY <1>1
  <2> QED
    BY <2>1, <1>1, ModDiv DEF TodAt
<1>4. tod = was + d \/ tod = was + d - DayLength
  <2> DEFINE x == StartOfDay + last
  <2>1. x \in Int /\ x + d = StartOfDay + then
    BY <1>1
  <2> HIDE DEF x, d
  <2>2. (x + d) % DayLength = (x % DayLength) + d \/ (x + d) % DayLength = (x % DayLength) + d - DayLength
    BY <1>1, <1>2, <2>1, LaterRemainder
  <2> QED
    BY <2>1, <2>2 DEF TodAt, x
<1>5. ASSUME NEW t \in 0..(DayLength - 1)
      PROVE  (t - sec) % DayLength = IF sec <= t THEN t - sec ELSE t - sec + DayLength
  <2>1. CASE sec <= t
    <3>1. t - sec \in Int /\ 0 <= t - sec /\ t - sec < DayLength
      BY <1>1, <2>1
    <3> QED
      BY <1>1, <2>1, <3>1, ModNear
  <2>2. CASE ~(sec <= t)
    <3>1. /\ t - sec + DayLength \in 0..(DayLength - 1) /\ t - sec \in Int
          /\ t - sec = (-1) * DayLength + (t - sec + DayLength)
      BY <1>1, <2>2
    <3>2. (t - sec) % DayLength = t - sec + DayLength
      BY <1>1, <3>1, ModUnique
    <3> QED
      BY <2>2, <3>2
  <2> QED
    BY <2>1, <2>2
<1>6. /\ Moment(last, sec) = last - (IF sec <= was THEN was - sec ELSE was - sec + DayLength)
      /\ Moment(then, sec) = then - (IF sec <= tod THEN tod - sec ELSE tod - sec + DayLength)
  BY <1>3, <1>5 DEF Moment
<1>7. then = last + d
  OBVIOUS
<1> HIDE DEF d, was, tod
<1>8. CASE was < sec /\ sec <= tod
  BY <1>1, <1>2, <1>3, <1>4, <1>6, <1>7, <1>8 DEF was, tod, d
<1>9. CASE ~(was < sec /\ sec <= tod)
  <2>1. sec <= tod => sec <= was
    BY <1>1, <1>3, <1>9
  <2>2. tod < sec /\ was < sec => tod = was + d
    BY <1>1, <1>2, <1>3, <1>4
  <2>3. tod < sec /\ sec <= was => tod = was + d - DayLength
    BY <1>1, <1>2, <1>3, <1>4
  <2>4. sec <= tod => tod = was + d
    BY <1>1, <1>2, <1>3, <1>4
  <2>5. Moment(then, sec) = Moment(last, sec) /\ Moment(last, sec) <= last /\ Moment(last, sec) \in Int
    BY <1>1, <1>2, <1>3, <1>6, <1>7, <2>1, <2>2, <2>3, <2>4
  <2> QED
    BY <2>1, <2>5 DEF was, tod
<1> QED
  BY <1>8, <1>9

(* A moment between two of which no midnight lies.                         *)
LEMMA OnOneDay ==
  ASSUME NEW last \in Nat, NEW then \in Nat, NEW between \in Nat, last <= between, between <= then,
         TodAt(then) = TodAt(last) + (then - last)
  PROVE  TodAt(between) = TodAt(last) + (between - last)
<1> DEFINE x == StartOfDay + last
           d == between - last
<1>1. x \in Int /\ x + d = StartOfDay + between /\ StartOfDay + then \in Int
      /\ DayLength \in Nat /\ DayLength > 0
  BY BoundsAre
<1>2. TodAt(last) \in 0..(DayLength - 1) /\ TodAt(then) \in 0..(DayLength - 1)
      /\ TodAt(between) \in 0..(DayLength - 1)
  <2>1. x % DayLength \in 0..(DayLength - 1) /\ (x + d) % DayLength \in 0..(DayLength - 1)
        /\ (StartOfDay + then) % DayLength \in 0..(DayLength - 1)
    BY <1>1, ModDiv
  <2> QED
    BY <1>1, <2>1 DEF TodAt
<1>3. d \in 0..(DayLength - 1)
  BY <1>1, <1>2
<1> HIDE DEF x, d
<1>4. (x + d) % DayLength = (x % DayLength) + d \/ (x + d) % DayLength = (x % DayLength) + d - DayLength
  BY <1>1, <1>3, LaterRemainder
<1>5. TodAt(between) = TodAt(last) + d \/ TodAt(between) = TodAt(last) + d - DayLength
  BY <1>1, <1>4 DEF TodAt, x
<1>6. TodAt(last) + d <= DayLength - 1
  BY <1>1, <1>2 DEF d
<1> QED
  BY <1>1, <1>2, <1>3, <1>5, <1>6 DEF d

(* A run of plan_task after the last.                                      *)
LEMMA PlanTaskSees ==
  ASSUME Core, PlanTask, UNCHANGED <<now, armed, cur, plan>>, cur = 0, pc = "walk", pc' = "handler",
         armed[0] \in Nat, armed[0] < now, now <= armed[0] + Gap,
         NEW id \in Range(plan), Unseen(id) \/ Seen(id)
  PROVE  Seen(id)'
<1> DEFINE last == armed[0]
           sec == timer[id].sec
<1>1. /\ id \in DOMAIN timer /\ id \in Ids /\ timer[id].type = "day"
      /\ sec \in Nat /\ timer[id].done \in {0, 1}
      /\ armed[id] \in Nat /\ armed[id] <= now /\ now \in Nat /\ last \in Nat
  BY PlannedAre DEF Core
<1>2. LastRun = last /\ LastRun' = now
  BY DEF LastRun
<1>3. timer'[id].done = (IF sec <= TimeOfDay THEN 1 ELSE 0) /\ timer'[id].sec = sec
  BY <1>1, PlanTaskIs DEF Core
<1>4. fired'[id] = IF sec <= TimeOfDay /\ timer[id].done = 0 THEN now ELSE fired[id]
  BY <1>1, PlanTaskIs DEF Core
<1>5. TimeOfDay = TodAt(now)
  BY DEF TimeOfDay, TodAt
<1>6. TodAt(now) \in Nat /\ TodAt(last) \in Nat
  BY <1>1, DaysGoOn
<1> DEFINE moment == Moment(now, sec)
<1>7. ASSUME sec \in Gap..(DayLength - Gap), armed[id] < moment
      PROVE  fired'[id] \in moment..(moment + Overshoot)
  <2>1. \/ /\ TodAt(last) < sec /\ sec <= TodAt(now)
           /\ moment = last + (sec - TodAt(last)) /\ moment <= now
           /\ TodAt(now) = TodAt(last) + (now - last)
        \/ /\ moment = Moment(last, sec) /\ moment <= last /\ moment \in Int
           /\ sec <= TodAt(now) => sec <= TodAt(last)
    BY <1>1, <1>7, MomentGoesOn
  <2> HIDE DEF moment, last, sec
  <2>2. CASE /\ TodAt(last) < sec /\ sec <= TodAt(now)
             /\ moment = last + (sec - TodAt(last)) /\ moment <= now
             /\ TodAt(now) = TodAt(last) + (now - last)
    <3>1. timer[id].done = 0
      <4>1. CASE Unseen(id)
        <5>1. last <= armed[id]
          BY <1>2, <4>1 DEF Unseen
        <5>2. TodAt(armed[id]) = TodAt(last) + (armed[id] - last)
          BY <1>1, <2>2, <5>1, OnOneDay
        <5>3. ~(sec < TodAt(armed[id]))
          BY <1>1, <1>6, <1>7, <2>2, <5>2
        <5> QED
          BY <4>1, <5>3 DEF Unseen, sec
      <4>2. CASE Seen(id)
        <5>1. ~(sec <= TodAt(last))
          BY <1>1, <1>6, <2>2
        <5> QED
          BY <1>2, <4>2, <5>1 DEF Seen, sec
      <4> QED
        BY <4>1, <4>2
    <3>2. fired'[id] = now
      BY <1>4, <1>5, <2>2, <3>1
    <3>3. moment \in Int /\ last < moment /\ now <= last + Gap
      BY <1>1, <1>6, <2>2 DEF last
    <3> QED
      BY <1>1, <2>2, <3>2, <3>3, GapIs
  <2>3. CASE /\ moment = Moment(last, sec) /\ moment <= last /\ moment \in Int
             /\ sec <= TodAt(now) => sec <= TodAt(last)
    <3>1. ~Unseen(id)
      BY <1>1, <1>2, <1>7, <2>3 DEF Unseen
    <3>2. Seen(id)
      BY <3>1
    <3>3. /\ fired[id] \in moment..(moment + Overshoot)
          /\ timer[id].done = IF sec <= TodAt(last) THEN 1 ELSE 0
      BY <1>2, <1>7, <2>3, <3>2 DEF Seen, sec
    <3> QED
      BY <1>4, <1>5, <2>3, <3>3
  <2> QED
    BY <2>1, <2>2, <2>3
<1>8. armed'[id] = armed[id] /\ Moment(now, sec)' = moment
  BY <1>3 DEF Moment, TodAt
<1> QED
  BY <1>1, <1>2, <1>3, <1>5, <1>7, <1>8 DEF Seen, Moment, TodAt

LEMMA PlansStep ==
  ASSUME ClockDoesNotWrap, Core, OnTime, RunsGoOn, Plans, [Next]_vars
  PROVE  Plans'
<1> SUFFICES ASSUME prompt', NEW x \in Range(plan') PROVE Unseen(x)' \/ Seen(x)'
  BY DEF Plans
<1>1. /\ Tables /\ Types /\ Walking /\ Timely /\ armed \in [Ids -> 0..MaxTime] /\ fired \in [Ids -> -1..MaxTime]
      /\ now \in Nat /\ 0 \in Ids /\ nextId \in Nat /\ Core' /\ Tables'
      /\ 0 <= nextId /\ DOMAIN timer \subseteq 0..(nextId - 1)
      /\ armed[0] \in Nat /\ armed[0] <= now
  <2>1. Tables /\ Types /\ Walking /\ Timely /\ FiredPlans /\ Core' /\ Tables'
    BY CoreStep DEF Core, Tables, OnTime
  <2>2. /\ armed \in [Ids -> 0..MaxTime] /\ fired \in [Ids -> -1..MaxTime]
        /\ now \in Nat /\ 0 \in Ids /\ nextId \in Nat /\ 0 <= nextId
        /\ DOMAIN timer \subseteq 0..(nextId - 1)
    BY <2>1, BoundsAre DEF Types, Given, Ids
  <2>3. armed[0] \in Nat /\ armed[0] <= now
    BY <2>1, <2>2, BoundsAre DEF FiredPlans
  <2> QED
    BY <2>1, <2>2, <2>3
<1>2. prompt' = prompt /\ prompt
  <2>1. Calling => prompt' = prompt
    BY <1>1, CallingIs
  <2> QED
    BY <2>1 DEF Next, ThreadStep, Calling, Del, Find, Wake, CallHandler, EndWalk, Break, HandlerReturns, Tick, vars
<1>3. ASSUME NEW y \in Range(plan) PROVE Unseen(y) \/ Seen(y)
  BY <1>2, <1>3 DEF Plans
<1>4. x \in DOMAIN timer' /\ timer'[x].type = "day" /\ x # 0 /\ x \in Ids
  <2>1. /\ Range(plan') = {id \in DOMAIN timer' : timer'[id].type = "day"}
        /\ DOMAIN timer' \subseteq Given' /\ nextId' \in 0..(MaxId + 1)
        /\ (0 \in DOMAIN timer' => timer'[0].type = "keep")
    BY <1>1 DEF Tables, Types, Linked, Shape, Kinds
  <2>2. \A y \in Given' : y \in Ids
    BY <2>1, GivenIsId DEF Given
  <2> QED
    BY <2>1, <2>2
<1>5. ASSUME NEW id, NEW r, Placing(id, r), x # id PROVE Untouched(x)
  <2>1. x \in DOMAIN timer \ {id} /\ timer'[x] = timer[x] /\ timer[x].type = "day"
    <3>1. DOMAIN timer' = DOMAIN timer \union {id}
      BY <1>1, <1>5, PlacingIs
    <3>2. x \in DOMAIN timer \ {id}
      BY <1>4, <1>5, <3>1
    <3>3. timer'[x] = timer[x]
      BY <1>1, <1>5, <3>2, PlacingIs
    <3> QED
      BY <1>4, <3>2, <3>3
  <2>2. armed' = [armed EXCEPT ![id] = now] /\ fired' = [fired EXCEPT ![id] = -1]
    BY <1>1, <1>5, PlacingIs
  <2>3. armed'[x] = armed[x] /\ fired'[x] = fired[x]
    BY <1>1, <1>4, <1>5, <2>2
  <2> QED
    BY <1>1, <2>1, <2>3 DEF Untouched, Tables, Linked, Shape
<1>6. ASSUME NEW id, Free(id) PROVE Untouched(x)
  <2>1. /\ x \in DOMAIN timer /\ x # id /\ timer'[x] = timer[x]
        /\ armed' = [armed EXCEPT ![id] = 0] /\ fired' = [fired EXCEPT ![id] = -1]
    BY <1>4, <1>6 DEF Free
  <2>2. armed'[x] = armed[x] /\ fired'[x] = fired[x]
    BY <1>1, <1>4, <2>1
  <2> QED
    BY <1>1, <1>4, <2>1, <2>2 DEF Untouched, Tables, Linked, Shape
<1>7. ASSUME Untouched(x), LastRun' = LastRun PROVE Unseen(x)' \/ Seen(x)'
  BY <1>3, <1>7, UntouchedStays DEF Untouched
<1>8. CASE Calling
  <2>1. PICK id, r : Placing(id, r) /\ (id = 0 => nextId = 0)
    BY <1>1, <1>8, CallingIs
  <2>2. UNCHANGED <<now, prompt, pc, wake, cur>>
    BY <1>1, <1>8, CallingIs DEF thread
  <2>3. id # 0
    <3>1. ASSUME id = 0 PROVE FALSE
      <4>1. DOMAIN timer = {}
        <5>1. nextId = 0 /\ \A y \in 0..(0 - 1) : FALSE
          BY <2>1, <3>1
        <5> QED
          BY <1>1, <5>1
      <4>2. DOMAIN timer' = {0}
        BY <1>1, <2>1, <3>1, <4>1, PlacingIs
      <4> QED
        BY <1>4, <4>2
    <3> QED
      BY <3>1
  <2>4. LastRun' = LastRun /\ LastRun' <= now
    BY <1>1, <2>1, <2>2, <2>3, PlanTaskIsArmed DEF LastRun
  <2>5. CASE x = id
    <3>1. r.type = "day"
      BY <1>1, <1>4, <2>1, <2>5, PlacingIs
    <3> QED
      BY <2>1, <2>2, <2>4, <2>5, <3>1, NewPlanIsUnseen
  <2>6. CASE x # id
    BY <1>5, <1>7, <2>1, <2>4, <2>6
  <2> QED
    BY <2>5, <2>6
<1>9. CASE \E id \in Ids : Del(id)
  <2>1. PICK id \in Ids : Del(id)
    BY <1>9
  <2>2. UNCHANGED <<now, pc, cur>> /\ Free(id) /\ armed' = [armed EXCEPT ![id] = 0] /\ id # 0
    BY <2>1 DEF Del, Free, thread
  <2>3. LastRun' = LastRun
    <3>1. armed'[0] = armed[0]
      BY <1>1, <2>2
    <3> QED
      BY <2>2, <3>1 DEF LastRun
  <2> QED
    BY <1>6, <1>7, <2>2, <2>3
<1>10. CASE HandlerReturns
  <2>1. UNCHANGED now /\ pc' = "walk" /\ pc = "handler"
    BY <1>10 DEF HandlerReturns
  <2>2. CASE cur # 0 /\ Free(cur)
    <3>1. armed'[0] = armed[0]
      BY <1>1, <2>2 DEF Free
    <3>2. LastRun' = LastRun
      BY <2>1, <2>2, <3>1 DEF LastRun
    <3> QED
      BY <1>6, <1>7, <2>2, <3>2
  <2>3. CASE Placing(cur, Running("keep", timer[cur].interval))
    <3> DEFINE r == Running("keep", timer[cur].interval)
    <3>1. r.type = "keep"
      BY DEF Running
    <3> HIDE DEF r
    <3>2. Placing(cur, r)
      BY <2>3 DEF r
    <3>3. x # cur
      BY <1>1, <1>4, <3>1, <3>2, PlacingIs
    <3>4. LastRun' = LastRun
      <4>1. CASE cur = 0
        BY <1>1, <2>1, <3>2, <4>1, PlacingIs DEF LastRun
      <4>2. CASE cur # 0
        BY <1>1, <2>1, <3>2, <4>2, PlanTaskIsArmed DEF LastRun
      <4> QED
        BY <4>1, <4>2
    <3> QED
      BY <1>5, <1>7, <3>2, <3>3, <3>4
  <2> QED
    BY <1>10, <2>2, <2>3, ReturnIs
<1>11. CASE CallHandler
  <2>1. /\ UNCHANGED <<plan, now, armed, nextId, cur>> /\ pc = "walk" /\ pc' = "handler"
        /\ IF cur = 0 THEN PlanTask ELSE UNCHANGED <<timer, fired>>
        /\ timer[cur].msec <= Clock
    BY <1>11 DEF CallHandler, Due
  <2>2. CASE cur # 0
    <3>1. Untouched(x) /\ LastRun' = LastRun
      BY <2>1, <2>2 DEF Untouched, LastRun
    <3> QED
      BY <1>7, <3>1
  <2>3. CASE cur = 0
    <3>1. nextId > 0
      BY <1>1, <2>1 DEF Walking
    <3>2. timer[0].msec = armed[0] + 1 /\ now <= armed[0] + Gap
      BY <1>1, <1>2, <3>1, PlanTimerIs DEF RunsGoOn
    <3>3. armed[0] < now
      BY <1>1, <2>1, <2>3, <3>2, ClockIs
    <3> QED
      BY <1>1, <1>3, <2>1, <2>3, <3>2, <3>3, PlanTaskSees
  <2> QED
    BY <2>2, <2>3
<1>12. CASE Find \/ Wake \/ EndWalk \/ Break \/ Tick \/ UNCHANGED vars
  <2>1. Untouched(x)
    BY <1>12 DEF Find, Wake, EndWalk, Break, Tick, vars, lists, history, Untouched
  <2>2. LastRun' = LastRun
    <3>1. CASE Find \/ Wake \/ EndWalk
      BY <3>1 DEF Find, Wake, EndWalk, LastRun, history
    <3>2. CASE Break
      <4>1. cur # 0
        <5>1. nextId > 0 /\ cur \notin DOMAIN timer
          BY <1>1, <3>2 DEF Break, Walking
        <5> QED
          BY <1>1, <5>1 DEF Tables, Kinds
      <4> QED
        BY <3>2, <4>1 DEF Break, LastRun, history
    <3>3. CASE Tick
      BY <1>2, <3>3 DEF Tick, LastRun, thread, history
    <3>4. CASE UNCHANGED vars
      BY <3>4 DEF LastRun, vars, thread, history
    <3> QED
      BY <1>12, <3>1, <3>2, <3>3, <3>4
  <2> QED
    BY <1>7, <2>1, <2>2
<1> QED
  BY <1>8, <1>9, <1>10, <1>11, <1>12 DEF Next, ThreadStep, Calling

(* Where all is prompt, a day plan for a time that is a Gap away from      *)
(* midnight is called on every day, at its time or late by what usleep is  *)
(* (sk_timer.c:84-123, 201-219, 277-305).                                  *)
THEOREM DayPlansEveryDay == ClockDoesNotWrap /\ Spec => []CalledEveryDay
<1> DEFINE I == ClockDoesNotWrap /\ Core /\ OnTime /\ Daily
<1>1. ClockDoesNotWrap /\ Init => I
  <2>1. Init => RunsGoOn
    BY DEF Init, RunsGoOn
  <2>2. Init => Plans
    BY NothingIs DEF Init, Plans
  <2> QED
    BY <2>1, <2>2, CoreInit, OnTimeInit DEF Daily
<1>2. I /\ [Next]_vars => I'
  BY CoreStep, OnTimeStep, RunsGoOnStep, PlansStep DEF ClockDoesNotWrap, PlanPeriod, Daily
<1>3. ASSUME I PROVE CalledEveryDay
  <2> SUFFICES ASSUME prompt, NEW id \in Range(plan), timer[id].sec \in Gap..(DayLength - Gap),
                      pc = "sleep", now < wake,
                      armed[id] < LatestMoment(timer[id].sec)
               PROVE  fired[id] \in LatestMoment(timer[id].sec)..(LatestMoment(timer[id].sec) + Overshoot)
    BY DEF CalledEveryDay, CalledOnDay
  <2>1. Core /\ Tables /\ Types /\ Walking /\ RunsGoOn /\ Plans
    BY <1>3 DEF Core, Tables, Daily
  <2>2. nextId > 0 /\ now \in Nat
    BY <2>1, BoundsAre DEF Types, Walking
  <2>3. armed[0] \in Nat /\ armed[0] <= now
    BY <1>3, <2>1, <2>2, PlanTimerIs DEF OnTime
  <2>4. armed[0] = now
    BY <2>1, <2>2, <2>3 DEF RunsGoOn
  <2>5. LastRun = now /\ TimeOfDay = TodAt(now)
    BY <2>4 DEF LastRun, TimeOfDay, TodAt
  <2>6. LatestMoment(timer[id].sec) = Moment(LastRun, timer[id].sec)
    BY <2>5 DEF LatestMoment, Moment
  <2>7. /\ armed[id] \in Nat /\ armed[id] <= now /\ timer[id].sec \in Nat
    BY <2>1, PlannedAre
  <2>8. LatestMoment(timer[id].sec) <= now
    <3>1. TodAt(now) \in Nat
      BY <2>2, DaysGoOn
    <3>2. (TodAt(now) - timer[id].sec) % DayLength \in 0..(DayLength - 1)
      BY <2>7, <3>1, BoundsAre, ModDiv
    <3> QED
      BY <2>2, <2>5, <3>2, BoundsAre DEF LatestMoment
  <2>9. armed[id] < now
    <3>1. LatestMoment(timer[id].sec) \in Int
      <4>1. TodAt(now) \in Nat
        BY <2>2, DaysGoOn
      <4>2. (TodAt(now) - timer[id].sec) % DayLength \in 0..(DayLength - 1)
        BY <2>7, <4>1, BoundsAre, ModDiv
      <4> QED
        BY <2>2, <2>5, <4>2, BoundsAre DEF LatestMoment
    <3> QED
      BY <2>2, <2>7, <2>8, <3>1
  <2>10. Seen(id)
    BY <2>1, <2>2, <2>5, <2>7, <2>9 DEF Plans, Unseen
  <2> QED
    BY <2>6, <2>10 DEF Seen
<1> QED
  BY <1>1, <1>2, <1>3, PTL DEF Spec
-----------------------------------------------------------------------------
(* Sntp.                                                                   *)

USE NtpBounds DEF NtpBounds, probe_count

(* Every packet answers a probe that was sent: one of this call only if    *)
(* the call has sent one.                                                  *)
AnswersWereAskedFor ==
  \A p \in net : /\ p.org \in 1..stamps
                 /\ p.org = time_of_send => probes_sent > 0

(* A call that goes on has not set the clock, and what set it is older     *)
(* than the last probe.                                                    *)
NotYetSet ==
  /\ place # "idle" => ~synced
  /\ ~synced /\ time_of_send > 0 => clock < time_of_send

(* With its probe out, a call waits for the answer, unless it was          *)
(* hindered; a signal to terminate always does.                            *)
WaitsForAnswer ==
  /\ sigterm => hindered
  /\ place # "idle" /\ probes_sent > 0 => to = "cycle" \/ hindered

(* Each stamp beyond one for each call belongs to a send that failed.      *)
StampsAreCounted ==
  stamps + (IF place # "idle" /\ probes_sent = 0 THEN 1 ELSE 0) <= calls + faults

SntpInv ==
  /\ NtpTypeOK
  /\ AnswersWereAskedFor
  /\ NotYetSet
  /\ WaitsForAnswer
  /\ StampsAreCounted
  /\ SyncedUnlessHindered

USE DEF Stamps, Packets, Return, Fault
-----------------------------------------------------------------------------
LEMMA SntpInit == NtpInit => SntpInv
<1> SUFFICES ASSUME NtpInit PROVE SntpInv
  OBVIOUS
<1> USE DEF NtpInit
<1>1. TypeFlags
  BY DEF TypeFlags
<1>2. NtpTypeOK
  BY <1>1 DEF NtpTypeOK
<1>3. AnswersWereAskedFor /\ NotYetSet /\ StampsAreCounted
  BY DEF AnswersWereAskedFor, NotYetSet, StampsAreCounted
<1>4. WaitsForAnswer /\ SyncedUnlessHindered
  BY SMT DEF WaitsForAnswer, SyncedUnlessHindered
<1> QED
  BY <1>2, <1>3, <1>4 DEF SntpInv

(* A new call starts with a clean slate, but for sigterm.                  *)
LEMMA CallStep == SntpInv /\ Call => SntpInv'
<1> SUFFICES ASSUME SntpInv, Call PROVE SntpInv'
  OBVIOUS
<1> USE DEF SntpInv, Call, flags
<1>1. NtpTypeOK'
  <2>1. TypeFlags'
    BY DEF NtpTypeOK, TypeFlags
  <2> QED
    BY <2>1 DEF NtpTypeOK, AnswersWereAskedFor, StampsAreCounted
<1>2. AnswersWereAskedFor' /\ StampsAreCounted'
  BY DEF NtpTypeOK, AnswersWereAskedFor, StampsAreCounted
<1>3. NotYetSet'
  BY DEF NtpTypeOK, TypeFlags, AnswersWereAskedFor, NotYetSet
<1>4. WaitsForAnswer' /\ SyncedUnlessHindered'
  BY DEF NtpTypeOK, TypeFlags, NotYetSet, WaitsForAnswer, SyncedUnlessHindered
<1> QED
  BY <1>1, <1>2, <1>3, <1>4

(* Signals set flags.                                                      *)
LEMMA SignalStep == SntpInv /\ (\E flag \in {"term", "hup"} : Signal(flag)) => SntpInv'
<1> SUFFICES ASSUME SntpInv, \E flag \in {"term", "hup"} : Signal(flag) PROVE SntpInv'
  OBVIOUS
<1> USE DEF SntpInv, Signal, ntpc, probe
<1>1. NtpTypeOK'
  <2>1. TypeFlags'
    BY DEF NtpTypeOK, TypeFlags
  <2> QED
    BY <2>1 DEF NtpTypeOK, AnswersWereAskedFor, StampsAreCounted
<1>2. AnswersWereAskedFor' /\ StampsAreCounted'
  BY DEF NtpTypeOK, AnswersWereAskedFor, StampsAreCounted
<1>3. NotYetSet'
  BY DEF NtpTypeOK, TypeFlags, AnswersWereAskedFor, NotYetSet
<1>4. WaitsForAnswer' /\ SyncedUnlessHindered'
  BY DEF NtpTypeOK, TypeFlags, NotYetSet, WaitsForAnswer, SyncedUnlessHindered
<1> QED
  BY <1>1, <1>2, <1>3, <1>4

(* Leaving the loop for a signal.                                          *)
LEMMA TerminateStep == SntpInv /\ Terminate => SntpInv'
<1> SUFFICES ASSUME SntpInv, Terminate PROVE SntpInv'
  OBVIOUS
<1> USE DEF SntpInv, Terminate, flags, probe, bounds
<1>1. NtpTypeOK'
  <2>1. TypeFlags'
    BY DEF NtpTypeOK, TypeFlags
  <2> QED
    BY <2>1 DEF NtpTypeOK, AnswersWereAskedFor, StampsAreCounted
<1>2. AnswersWereAskedFor' /\ StampsAreCounted'
  BY DEF NtpTypeOK, AnswersWereAskedFor, StampsAreCounted
<1>3. NotYetSet'
  BY DEF NtpTypeOK, TypeFlags, AnswersWereAskedFor, NotYetSet
<1>4. WaitsForAnswer' /\ SyncedUnlessHindered'
  BY DEF NtpTypeOK, TypeFlags, NotYetSet, WaitsForAnswer, SyncedUnlessHindered
<1> QED
  BY <1>1, <1>2, <1>3, <1>4

(* Going on to select.                                                     *)
LEMMA ToSelectStep == SntpInv /\ ToSelect => SntpInv'
<1> SUFFICES ASSUME SntpInv, ToSelect PROVE SntpInv'
  OBVIOUS
<1> USE DEF SntpInv, ToSelect, flags, ntpc, probe, bounds
<1>1. NtpTypeOK'
  <2>1. TypeFlags'
    BY DEF NtpTypeOK, TypeFlags
  <2> QED
    BY <2>1 DEF NtpTypeOK, AnswersWereAskedFor, StampsAreCounted
<1>2. AnswersWereAskedFor' /\ StampsAreCounted'
  BY DEF NtpTypeOK, AnswersWereAskedFor, StampsAreCounted
<1>3. NotYetSet'
  BY DEF NtpTypeOK, TypeFlags, AnswersWereAskedFor, NotYetSet
<1>4. WaitsForAnswer' /\ SyncedUnlessHindered'
  BY DEF NtpTypeOK, TypeFlags, NotYetSet, WaitsForAnswer, SyncedUnlessHindered
<1> QED
  BY <1>1, <1>2, <1>3, <1>4

(* Reopening the socket.                                                   *)
LEMMA SetupSocketStep == SntpInv /\ SetupSocket => SntpInv'
<1> SUFFICES ASSUME SntpInv, SetupSocket PROVE SntpInv'
  OBVIOUS
<1> USE DEF SntpInv, SetupSocket, Reopens, probe
<1>1. NtpTypeOK'
  <2>1. TypeFlags'
    BY DEF NtpTypeOK, TypeFlags
  <2> QED
    BY <2>1 DEF NtpTypeOK, AnswersWereAskedFor, StampsAreCounted
<1>2. AnswersWereAskedFor' /\ StampsAreCounted'
  BY DEF NtpTypeOK, AnswersWereAskedFor, StampsAreCounted
<1>3. NotYetSet'
  BY DEF NtpTypeOK, TypeFlags, AnswersWereAskedFor, NotYetSet
<1>4. WaitsForAnswer' /\ SyncedUnlessHindered'
  BY DEF NtpTypeOK, TypeFlags, NotYetSet, WaitsForAnswer, SyncedUnlessHindered
<1> QED
  BY <1>1, <1>2, <1>3, <1>4

(* Failing to reopen it.                                                   *)
LEMMA NetDownStep == SntpInv /\ NetDown => SntpInv'
<1> SUFFICES ASSUME SntpInv, NetDown PROVE SntpInv'
  OBVIOUS
<1> USE DEF SntpInv, NetDown, Reopens, probe
<1>1. NtpTypeOK'
  <2>1. TypeFlags'
    BY DEF NtpTypeOK, TypeFlags
  <2> QED
    BY <2>1 DEF NtpTypeOK, AnswersWereAskedFor, StampsAreCounted
<1>2. AnswersWereAskedFor' /\ StampsAreCounted'
  BY DEF NtpTypeOK, AnswersWereAskedFor, StampsAreCounted
<1>3. NotYetSet'
  BY DEF NtpTypeOK, TypeFlags, AnswersWereAskedFor, NotYetSet
<1>4. WaitsForAnswer' /\ SyncedUnlessHindered'
  BY DEF NtpTypeOK, TypeFlags, NotYetSet, WaitsForAnswer, SyncedUnlessHindered
<1> QED
  BY <1>1, <1>2, <1>3, <1>4

(* Ending the call for want of a socket.                                   *)
LEMMA NoSocketStep == SntpInv /\ NoSocket => SntpInv'
<1> SUFFICES ASSUME SntpInv, NoSocket PROVE SntpInv'
  OBVIOUS
<1> USE DEF SntpInv, NoSocket, probe
<1>1. NtpTypeOK'
  <2>1. TypeFlags'
    BY DEF NtpTypeOK, TypeFlags
  <2> QED
    BY <2>1 DEF NtpTypeOK, AnswersWereAskedFor, StampsAreCounted
<1>2. AnswersWereAskedFor' /\ StampsAreCounted'
  BY DEF NtpTypeOK, AnswersWereAskedFor, StampsAreCounted
<1>3. NotYetSet'
  BY DEF NtpTypeOK, TypeFlags, AnswersWereAskedFor, NotYetSet
<1>4. WaitsForAnswer' /\ SyncedUnlessHindered'
  BY DEF NtpTypeOK, TypeFlags, NotYetSet, WaitsForAnswer, SyncedUnlessHindered
<1> QED
  BY <1>1, <1>2, <1>3, <1>4

(* Trying again.                                                           *)
LEMMA SleepStep == SntpInv /\ Sleep => SntpInv'
<1> SUFFICES ASSUME SntpInv, Sleep PROVE SntpInv'
  OBVIOUS
<1> USE DEF SntpInv, Sleep, flags, ntpc, probe, bounds
<1>1. NtpTypeOK'
  <2>1. TypeFlags'
    BY DEF NtpTypeOK, TypeFlags
  <2> QED
    BY <2>1 DEF NtpTypeOK, AnswersWereAskedFor, StampsAreCounted
<1>2. AnswersWereAskedFor' /\ StampsAreCounted'
  BY DEF NtpTypeOK, AnswersWereAskedFor, StampsAreCounted
<1>3. NotYetSet'
  BY DEF NtpTypeOK, TypeFlags, AnswersWereAskedFor, NotYetSet
<1>4. WaitsForAnswer' /\ SyncedUnlessHindered'
  BY DEF NtpTypeOK, TypeFlags, NotYetSet, WaitsForAnswer, SyncedUnlessHindered
<1> QED
  BY <1>1, <1>2, <1>3, <1>4

(* The probe was not answered.                                             *)
LEMMA GiveUpStep == SntpInv /\ GiveUp => SntpInv'
<1> SUFFICES ASSUME SntpInv, GiveUp PROVE SntpInv'
  OBVIOUS
<1> USE DEF SntpInv, GiveUp, Enough, flags, probe
<1>1. NtpTypeOK'
  <2>1. TypeFlags'
    BY DEF NtpTypeOK, TypeFlags
  <2> QED
    BY <2>1 DEF NtpTypeOK, AnswersWereAskedFor, StampsAreCounted
<1>2. AnswersWereAskedFor' /\ StampsAreCounted'
  BY DEF NtpTypeOK, AnswersWereAskedFor, StampsAreCounted
<1>3. NotYetSet'
  BY DEF NtpTypeOK, TypeFlags, AnswersWereAskedFor, NotYetSet
<1>4. WaitsForAnswer' /\ SyncedUnlessHindered'
  <2>1. to = "cycle" \/ hindered
    <3>1. place # "idle" /\ probes_sent > 0
      BY DEF NtpTypeOK
    <3> QED
      BY <3>1 DEF WaitsForAnswer
  <2>2. hindered'
    BY <2>1
  <2> QED
    BY <2>2 DEF WaitsForAnswer, SyncedUnlessHindered
<1> QED
  BY <1>1, <1>2, <1>3, <1>4

(* The stamp of the new probe is on no packet but its answer.              *)
LEMMA SendProbeStep == SntpInv /\ SendProbe => SntpInv'
<1> SUFFICES ASSUME SntpInv, SendProbe PROVE SntpInv'
  OBVIOUS
<1> USE DEF SntpInv, SendProbe, Enough, Stamp, Again, flags
<1>1. NtpTypeOK'
  <2>1. TypeFlags'
    BY DEF NtpTypeOK, TypeFlags
  <2>2. stamps + 1 \in Stamps
    BY DEF NtpTypeOK, StampsAreCounted
  <2>3. net' \subseteq Packets
    <3>1. [org |-> stamps', ok |-> TRUE] \in Packets /\ [org |-> stamps', ok |-> FALSE] \in Packets
      BY <2>2
    <3> QED
      BY <3>1 DEF NtpTypeOK
  <2> QED
    BY <2>1, <2>2, <2>3 DEF NtpTypeOK
<1>2. AnswersWereAskedFor' /\ StampsAreCounted'
  BY DEF NtpTypeOK, AnswersWereAskedFor, StampsAreCounted
<1>3. NotYetSet'
  BY DEF NtpTypeOK, TypeFlags, AnswersWereAskedFor, NotYetSet
<1>4. WaitsForAnswer' /\ SyncedUnlessHindered'
  BY DEF NtpTypeOK, TypeFlags, NotYetSet, WaitsForAnswer, SyncedUnlessHindered
<1> QED
  BY <1>1, <1>2, <1>3, <1>4

(* The stamp of a probe that was not sent is on no packet.                 *)
LEMMA SendFailsStep == SntpInv /\ SendFails => SntpInv'
<1> SUFFICES ASSUME SntpInv, SendFails PROVE SntpInv'
  OBVIOUS
<1> USE DEF SntpInv, SendFails, Enough, Stamp, Again, flags
<1>1. NtpTypeOK'
  <2>1. TypeFlags'
    BY DEF NtpTypeOK, TypeFlags
  <2> QED
    BY <2>1 DEF NtpTypeOK, AnswersWereAskedFor, StampsAreCounted
<1>2. AnswersWereAskedFor' /\ StampsAreCounted'
  BY DEF NtpTypeOK, AnswersWereAskedFor, StampsAreCounted
<1>3. NotYetSet'
  BY DEF NtpTypeOK, TypeFlags, AnswersWereAskedFor, NotYetSet
<1>4. WaitsForAnswer' /\ SyncedUnlessHindered'
  BY DEF NtpTypeOK, TypeFlags, NotYetSet, WaitsForAnswer, SyncedUnlessHindered
<1> QED
  BY <1>1, <1>2, <1>3, <1>4

(* What is accepted answers the probe of this call, which ends.            *)
LEMMA AnswerStep == SntpInv /\ (\E p \in net : Answer(p)) => SntpInv'
<1> SUFFICES ASSUME SntpInv, \E p \in net : Answer(p) PROVE SntpInv'
  OBVIOUS
<1> USE DEF SntpInv, Answer, Arrives, EndTurn, Accepts, Acceptable, Enough, flags, probe
<1>1. NtpTypeOK'
  <2>1. TypeFlags'
    BY DEF NtpTypeOK, TypeFlags
  <2> QED
    BY <2>1 DEF NtpTypeOK, AnswersWereAskedFor, StampsAreCounted
<1>2. AnswersWereAskedFor' /\ StampsAreCounted'
  BY DEF NtpTypeOK, AnswersWereAskedFor, StampsAreCounted
<1>3. NotYetSet'
  BY DEF NtpTypeOK, TypeFlags, AnswersWereAskedFor, NotYetSet
<1>4. WaitsForAnswer' /\ SyncedUnlessHindered'
  BY DEF NtpTypeOK, TypeFlags, NotYetSet, WaitsForAnswer, SyncedUnlessHindered
<1> QED
  BY <1>1, <1>2, <1>3, <1>4

(* An answer whose time is refused.                                        *)
LEMMA SetFailsStep == SntpInv /\ (\E p \in net : SetFails(p)) => SntpInv'
<1> SUFFICES ASSUME SntpInv, \E p \in net : SetFails(p) PROVE SntpInv'
  OBVIOUS
<1> USE DEF SntpInv, SetFails, Fault, EndTurn, Return, Accepts, Acceptable, Enough, flags, probe
<1>1. NtpTypeOK'
  <2>1. TypeFlags'
    BY DEF NtpTypeOK, TypeFlags
  <2> QED
    BY <2>1 DEF NtpTypeOK, AnswersWereAskedFor, StampsAreCounted
<1>2. AnswersWereAskedFor' /\ StampsAreCounted'
  BY DEF NtpTypeOK, AnswersWereAskedFor, StampsAreCounted
<1>3. NotYetSet'
  BY DEF NtpTypeOK, TypeFlags, AnswersWereAskedFor, NotYetSet
<1>4. WaitsForAnswer' /\ SyncedUnlessHindered'
  BY DEF NtpTypeOK, TypeFlags, NotYetSet, WaitsForAnswer, SyncedUnlessHindered
<1> QED
  BY <1>1, <1>2, <1>3, <1>4

(* Dropping a packet.                                                      *)
LEMMA RejectStep == SntpInv /\ (\E p \in net : Reject(p)) => SntpInv'
<1> SUFFICES ASSUME SntpInv, \E p \in net : Reject(p) PROVE SntpInv'
  OBVIOUS
<1> USE DEF SntpInv, Reject, Arrives, flags, ntpc, probe
<1>1. NtpTypeOK'
  <2>1. TypeFlags'
    BY DEF NtpTypeOK, TypeFlags
  <2> QED
    BY <2>1 DEF NtpTypeOK, AnswersWereAskedFor, StampsAreCounted
<1>2. AnswersWereAskedFor' /\ StampsAreCounted'
  BY DEF NtpTypeOK, AnswersWereAskedFor, StampsAreCounted
<1>3. NotYetSet'
  BY DEF NtpTypeOK, TypeFlags, AnswersWereAskedFor, NotYetSet
<1>4. WaitsForAnswer' /\ SyncedUnlessHindered'
  BY DEF NtpTypeOK, TypeFlags, NotYetSet, WaitsForAnswer, SyncedUnlessHindered
<1> QED
  BY <1>1, <1>2, <1>3, <1>4

(* Nothing received.                                                       *)
LEMMA NoPacketStep == SntpInv /\ NoPacket => SntpInv'
<1> SUFFICES ASSUME SntpInv, NoPacket PROVE SntpInv'
  OBVIOUS
<1> USE DEF SntpInv, NoPacket, EndTurn, Enough, flags, probe
<1>1. NtpTypeOK'
  <2>1. TypeFlags'
    BY DEF NtpTypeOK, TypeFlags
  <2> QED
    BY <2>1 DEF NtpTypeOK, AnswersWereAskedFor, StampsAreCounted
<1>2. AnswersWereAskedFor' /\ StampsAreCounted'
  BY DEF NtpTypeOK, AnswersWereAskedFor, StampsAreCounted
<1>3. NotYetSet'
  BY DEF NtpTypeOK, TypeFlags, AnswersWereAskedFor, NotYetSet
<1>4. WaitsForAnswer' /\ SyncedUnlessHindered'
  BY DEF NtpTypeOK, TypeFlags, NotYetSet, WaitsForAnswer, SyncedUnlessHindered
<1> QED
  BY <1>1, <1>2, <1>3, <1>4

(* Calling select again.                                                  *)
LEMMA SelectFailsStep == SntpInv /\ SelectFails => SntpInv'
<1> SUFFICES ASSUME SntpInv, SelectFails PROVE SntpInv'
  OBVIOUS
<1> USE DEF SntpInv, SelectFails, Fault, ntpc, flags, probe
<1>1. NtpTypeOK'
  <2>1. TypeFlags'
    BY DEF NtpTypeOK, TypeFlags
  <2> QED
    BY <2>1 DEF NtpTypeOK, AnswersWereAskedFor, StampsAreCounted
<1>2. AnswersWereAskedFor' /\ StampsAreCounted'
  BY DEF NtpTypeOK, AnswersWereAskedFor, StampsAreCounted
<1>3. NotYetSet'
  BY DEF NtpTypeOK, TypeFlags, AnswersWereAskedFor, NotYetSet
<1>4. WaitsForAnswer' /\ SyncedUnlessHindered'
  BY DEF NtpTypeOK, TypeFlags, NotYetSet, WaitsForAnswer, SyncedUnlessHindered
<1> QED
  BY <1>1, <1>2, <1>3, <1>4

-----------------------------------------------------------------------------
(* Every step keeps the invariant.                                         *)
LEMMA SntpStep == SntpInv /\ [NtpNext]_ntp_vars => SntpInv'
<1> SUFFICES ASSUME SntpInv, [NtpNext]_ntp_vars PROVE SntpInv'
  OBVIOUS
<1>1. CASE UNCHANGED ntp_vars
  BY <1>1 DEF SntpInv, ntp_vars, flags, ntpc, probe, bounds, NtpTypeOK, TypeFlags, AnswersWereAskedFor,
     NotYetSet, WaitsForAnswer, StampsAreCounted, SyncedUnlessHindered
<1>2. CASE LoopStep
  BY <1>2, TerminateStep, ToSelectStep, SetupSocketStep, NetDownStep, NoSocketStep, SleepStep,
     GiveUpStep, SendProbeStep, SendFailsStep, NoPacketStep, SelectFailsStep, AnswerStep,
     SetFailsStep, RejectStep DEF LoopStep
<1> QED
  BY <1>1, <1>2, CallStep, SignalStep DEF NtpNext

LEMMA SntpAlways == NtpSpec => []SntpInv
BY SntpInit, SntpStep, PTL DEF NtpSpec

(* Type correctness, and with it that no call sends more than one probe.   *)
THEOREM SntpTypeCorrect == NtpSpec => []NtpTypeOK
<1>1. SntpInv => NtpTypeOK
  BY DEF SntpInv
<1> QED
  BY <1>1, SntpAlways, PTL

(* A call that returns without having set the clock was hindered: stopped,  *)
(* without a socket or an answer in time, reopened with its probe out, or   *)
(* refused by the kernel (sntpd.c:77-93, 419-534).                          *)
THEOREM CallsSync == NtpSpec => []SyncedUnlessHindered
<1>1. SntpInv => SyncedUnlessHindered
  BY DEF SntpInv
<1> QED
  BY <1>1, SntpAlways, PTL

(* The clock is set by the answer to the probe of the same call            *)
(* (sntpd.c:263-289).                                                      *)
THEOREM ClockSetByOwnAnswer == NtpSpec => SetByOwnAnswer
<1> DEFINE Own == clock' # clock \/ (synced' /\ ~synced) =>
                    /\ ~synced /\ probes_sent > 0
                    /\ clock' = time_of_send /\ clock' > clock
<1>1. SntpInv /\ [NtpNext]_ntp_vars => [Own]_ntp_vars
  <2> SUFFICES ASSUME SntpInv, NtpNext PROVE Own
    OBVIOUS
  <2>1. CASE \E p \in net : Answer(p)
    BY <2>1 DEF SntpInv, NtpTypeOK, AnswersWereAskedFor, NotYetSet, Answer, Arrives, Accepts, Acceptable
  <2>2. CASE ~ \E p \in net : Answer(p)
    <3>1. clock' = clock /\ (synced' = synced \/ synced' = FALSE)
      BY <2>2 DEF NtpNext, LoopStep, Call, Signal, Terminate, ToSelect, SetupSocket, Reopens, NetDown,
         NoSocket, Sleep, GiveUp, SendProbe, SendFails, Again, Reject, NoPacket, SelectFails,
         SetFails, ntpc
    <3> QED
      BY <3>1
  <2> QED
    BY <2>1, <2>2
<1> QED
  BY <1>1, SntpAlways, PTL DEF NtpSpec, SetByOwnAnswer
=============================================================================
