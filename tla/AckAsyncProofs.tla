--------------------------- MODULE AckAsyncProofs ---------------------------
(***************************************************************************)
(* The safety properties of AckAsync for any messages, intervals, counts   *)
(* and number of records.                                                  *)
(***************************************************************************)
EXTENDS AckAsync, WellFoundedInduction, TLAPS

USE BoundsAssumption DEF BoundsAssumption, list, AckList

(* A walk that no call has disturbed is at a live record and has           *)
(* remembered a later one, or the end.                                     *)
WalkIsAlive ==
  Walking /\ ~disturbed => /\ cur \in list
                           /\ nxt # AckList => nxt \in list /\ nxt > cur

(* A thread that has answered has ended.                                   *)
EndIsAnswered ==
  /\ scan_time = -1 => pc = "end"
  /\ exiting = "done" => pc = "end"

(* The scans that have seen a record are those of its resends and of the   *)
(* interval under way; re_num counts what is left of the resends, one of   *)
(* which is counted only when the callback returns.                        *)
InCallback(id) == pc = "resend" /\ cur = id
Timely ==
  \A id \in list :
    /\ ack[id].time_cnt < ack[id].re_time
    /\ ack[id].scans = ack[id].sent * ack[id].re_time + ack[id].time_cnt
    /\ InCallback(id) => ack[id].re_num > 0 /\ ack[id].sent + ack[id].re_num = ack[id].asked + 1
    /\ ~InCallback(id) => ack[id].sent + ack[id].re_num = ack[id].asked

BrokenByCall == pc = "broken" => disturbed

IInv == TypeOK /\ WalkIsAlive /\ EndIsAnswered /\ BrokenByCall /\ Timely
-----------------------------------------------------------------------------
(* A non-empty set of natural numbers has a least one.                     *)
LEMMA LeastOf ==
  ASSUME NEW S, S \subseteq Nat, S # {}
  PROVE  \E m \in S : \A k \in S : m <= k
<1> DEFINE R == OpToRel(<, Nat)
<1>1. IsWellFoundedOn(R, Nat)
  BY NatLessThanWellFounded
<1>2. ASSUME NEW x \in Nat, NEW y \in Nat, x < y PROVE <<x, y>> \in R
  BY <1>2 DEF OpToRel
<1> HIDE DEF R
<1>3. PICK m \in S : \A k \in S : <<k, m>> \notin R
  BY <1>1, WFMin
<1>4. ASSUME NEW k \in S PROVE m <= k
  <2>1. ~(k < m)
    BY <1>2, <1>3
  <2> QED
    BY <2>1
<1> QED
  BY <1>4

(* The successor of a record is a later record, if there is one.           *)
LEMMA SuccessorIsLater ==
  ASSUME list \subseteq Nat, NEW from \in Nat
  PROVE  \/ Successor(from) = AckList /\ \A id \in list : id <= from
         \/ Successor(from) \in list /\ Successor(from) > from
<1>1. CASE \E id \in list : id > from
  <2> DEFINE Later == {id \in list : id > from}
  <2>1. PICK id \in Later : \A other \in Later : id <= other
    <3>1. Later \subseteq Nat /\ Later # {}
      BY <1>1
    <3> QED
      BY <3>1, LeastOf
  <2>2. Follows(id, from)
    BY <2>1 DEF Follows
  <2>3. Follows(Successor(from), from)
    BY <1>1, <2>2 DEF Successor
  <2> QED
    BY <2>3 DEF Follows
<1>2. CASE ~ \E id \in list : id > from
  BY <1>2 DEF Successor
<1> QED
  BY <1>1, <1>2

LEMMA ListIsNat == TypeOK => list \subseteq Nat /\ AckList \notin list /\ cur \in Nat /\ nxt \in Nat
BY DEF TypeOK

LEMMA InitIInv == Init => IInv
<1> SUFFICES ASSUME Init PROVE IInv
  OBVIOUS
<1>1. disturbed \in BOOLEAN
  BY DEF Init
<1>2. TypeOK
  BY <1>1 DEF Init, TypeOK
<1>3. WalkIsAlive /\ EndIsAnswered /\ BrokenByCall /\ Timely
  BY DEF Init, WalkIsAlive, EndIsAnswered, BrokenByCall, Timely, Walking
<1> QED
  BY <1>2, <1>3 DEF IInv

(* A walk moves on to a live record or to its end, if no call has          *)
(* disturbed it, and only it itself has freed what it was at.              *)
LEMMA AdvanceKeeps ==
  ASSUME TypeOK, WalkIsAlive, Walking, Advance,
         list' \subseteq list, list \subseteq list' \union {cur}
  PROVE  /\ nextId' = nextId /\ scan_time' = scan_time /\ exiting' = exiting
         /\ disturbed' = disturbed /\ disturbed \in BOOLEAN
         /\ pc' \in {"test", "walk", "broken"}
         /\ cur' \in 0..(nextId - 1) /\ nxt' \in 0..(nextId - 1)
         /\ WalkIsAlive' /\ BrokenByCall'
<1>1. Successor(nxt) \in 0..(nextId - 1)
  BY ListIsNat, SuccessorIsLater DEF TypeOK
<1>2. /\ nextId' = nextId /\ scan_time' = scan_time /\ exiting' = exiting
      /\ disturbed' = disturbed /\ disturbed \in BOOLEAN
  BY DEF Advance, TypeOK
<1>3. /\ pc' \in {"test", "walk", "broken"}
      /\ cur' \in 0..(nextId - 1) /\ nxt' \in 0..(nextId - 1)
  BY <1>1 DEF Advance, TypeOK
<1>4. WalkIsAlive' /\ BrokenByCall'
  <2>1. CASE disturbed
    <3>1. disturbed'
      BY <2>1, <1>2
    <3> QED
      BY <3>1 DEF WalkIsAlive, BrokenByCall
  <2>2. CASE ~disturbed
    <3>1. cur \in list /\ (nxt # AckList => nxt \in list /\ nxt > cur)
      BY <2>2 DEF WalkIsAlive
    <3>2. pc' \in {"test", "walk"}
      BY <3>1 DEF Advance
    <3>3. pc' = "walk" => nxt # AckList /\ cur' = nxt /\ cur' \in list' /\ cur' > cur
      BY <3>1, ListIsNat DEF Advance
    <3>4. pc' = "walk" /\ nxt' # AckList => nxt' \in list' /\ nxt' > cur'
      <4>1. ASSUME pc' = "walk", nxt' # AckList
            PROVE  nxt' \in list' /\ nxt' > cur'
        <5>1. nxt' = Successor(nxt) /\ nxt \in list /\ nxt > cur /\ cur' = nxt
          BY <3>1, <3>3, <4>1 DEF Advance
        <5>2. nxt' \in list /\ nxt' > nxt
          BY <5>1, <4>1, ListIsNat, SuccessorIsLater
        <5>3. nxt' # cur
          BY <5>1, <5>2, ListIsNat
        <5> QED
          BY <5>1, <5>2, <5>3
      <4> QED
        BY <4>1
    <3>5. Walking' => pc' = "walk"
      BY <3>2 DEF Walking
    <3>6. pc' # "broken"
      BY <3>2
    <3>7. WalkIsAlive'
      BY <3>3, <3>4, <3>5 DEF WalkIsAlive
    <3> QED
      BY <3>6, <3>7 DEF BrokenByCall
  <2> QED
    BY <2>1, <2>2
<1> QED
  BY <1>2, <1>3, <1>4
-----------------------------------------------------------------------------
(* A new record is due in what is left of an interval, and no walk is at   *)
(* it.                                                                     *)
LEMMA RecordStep == IInv /\ (\E m \in Msgs : Record(m)) => IInv'
<1> SUFFICES ASSUME IInv, NEW m \in Msgs, Record(m) PROVE IInv'
  OBVIOUS
<1> USE DEF IInv
<1>1. PICK t \in Intervals, n \in Counts, begun \in Nat :
        /\ begun < t
        /\ ack' = [id \in list \union {nextId} |->
                     IF id = nextId THEN [msg |-> m, re_time |-> t, re_num |-> n, time_cnt |-> begun,
                                          asked |-> n, sent |-> 0, scans |-> begun]
                     ELSE ack[id]]
  <2>1. \A t \in Intervals : \A begun \in 0..(t - 1) : begun \in Nat /\ begun < t
    OBVIOUS
  <2> QED
    BY <2>1 DEF Record
<1>2. /\ list' = list \union {nextId} /\ nextId' = nextId + 1 /\ nextId <= MaxRecords
      /\ UNCHANGED <<scan_time, pc, cur, nxt, exiting, disturbed>>
  BY <1>1 DEF Record, walk
<1>3. nextId \notin list /\ cur # nextId /\ nextId \in Nat
  BY DEF TypeOK
<1>4. TypeOK'
  <2>1. ack' \in [list' -> Infos]
    BY <1>1, <1>2 DEF TypeOK, Infos
  <2>2. list' \subseteq 1..(nextId' - 1) /\ nextId' \in 1..(MaxRecords + 1) /\ {cur', nxt'} \subseteq 0..(nextId' - 1)
    BY <1>2 DEF TypeOK
  <2> QED
    BY <1>2, <2>1, <2>2 DEF TypeOK
<1>5. WalkIsAlive' /\ EndIsAnswered' /\ BrokenByCall'
  BY <1>2 DEF WalkIsAlive, EndIsAnswered, BrokenByCall, Walking
<1>6. Timely'
  <2> SUFFICES ASSUME NEW id \in list'
               PROVE  /\ ack'[id].time_cnt < ack'[id].re_time
                      /\ ack'[id].scans = ack'[id].sent * ack'[id].re_time + ack'[id].time_cnt
                      /\ InCallback(id)' => /\ ack'[id].re_num > 0
                                            /\ ack'[id].sent + ack'[id].re_num = ack'[id].asked + 1
                      /\ ~InCallback(id)' => ack'[id].sent + ack'[id].re_num = ack'[id].asked
    BY DEF Timely
  <2>1. CASE id = nextId
    <3>1. /\ ack'[id].time_cnt = begun /\ ack'[id].re_time = t /\ ack'[id].scans = begun
          /\ ack'[id].sent = 0 /\ ack'[id].re_num = n /\ ack'[id].asked = n
      BY <1>1, <1>2, <2>1
    <3>2. begun < t
      BY <1>1
    <3>3. 0 * t = 0 /\ begun \in Nat /\ n \in Nat
      OBVIOUS
    <3>4. ~InCallback(id)'
      BY <1>2, <1>3, <2>1 DEF InCallback
    <3> QED
      BY <3>1, <3>2, <3>3, <3>4
  <2>2. CASE id # nextId
    BY <1>1, <1>2, <2>2 DEF Timely, InCallback
  <2> QED
    BY <2>1, <2>2
<1> QED
  BY <1>4, <1>5, <1>6

(* A call that frees what a walk needs is noted.                           *)
LEMMA FreeKeeps ==
  ASSUME IInv, NEW ids, Free(ids), exiting' \in {"no", "stop", "wait", "done"},
         exiting' = "done" => exiting = "done"
  PROVE  IInv'
<1> USE DEF IInv
<1>1. /\ list' = list \ ids /\ \A id \in list' : ack'[id] = ack[id]
      /\ ack' \in [list' -> Infos]
      /\ UNCHANGED <<nextId, scan_time, pc, cur, nxt>>
  BY DEF Free, Destroy, walk, TypeOK
<1>2. TypeOK'
  <2>1. disturbed' \in BOOLEAN
    BY DEF Free, TypeOK
  <2> QED
    BY <1>1, <2>1 DEF TypeOK
<1>3. WalkIsAlive'
  <2> SUFFICES ASSUME Walking', ~disturbed'
               PROVE  cur' \in list' /\ (nxt' # AckList => nxt' \in list' /\ nxt' > cur')
    BY DEF WalkIsAlive
  <2>1. Walking /\ ~disturbed /\ cur \notin ids /\ nxt \notin ids
    BY <1>1 DEF Free, Walking
  <2> QED
    BY <1>1, <2>1 DEF WalkIsAlive
<1>4. BrokenByCall'
  BY <1>1 DEF BrokenByCall, Free
<1>5. EndIsAnswered'
  BY <1>1 DEF EndIsAnswered
<1>6. Timely'
  BY <1>1 DEF Timely, InCallback
<1> QED
  BY <1>2, <1>3, <1>4, <1>5, <1>6

LEMMA UnrecordStep == IInv /\ (\E m \in Msgs : Unrecord(m)) => IInv'
BY FreeKeeps DEF Unrecord, IInv, TypeOK

LEMMA ExitStarts == IInv /\ Exit => IInv'
BY FreeKeeps DEF Exit

(* Steps that leave the records alone and end or begin no walk.            *)
LEMMA QuietStep ==
  ASSUME IInv, StopThread \/ ExitReturns \/ Test \/ Break
  PROVE  IInv'
<1> USE DEF IInv
<1>1. UNCHANGED <<ack, nextId, cur, nxt, disturbed>>
  BY DEF StopThread, ExitReturns, Test, Break, walk
<1>2. EndIsAnswered' /\ scan_time' \in {-1, 0, 1} /\ exiting' \in {"no", "stop", "wait", "done"}
  <2>1. CASE StopThread
    BY <2>1 DEF StopThread, walk, EndIsAnswered, TypeOK
  <2>2. CASE ExitReturns
    BY <2>2 DEF ExitReturns, walk, EndIsAnswered, TypeOK
  <2>3. CASE Test
    BY <2>3 DEF Test, EndIsAnswered, TypeOK
  <2>4. CASE Break
    BY <2>4 DEF Break, Walking, EndIsAnswered, TypeOK
  <2> QED
    BY <2>1, <2>2, <2>3, <2>4
<1>3. /\ pc' \in {"test", "sleep", "walk", "resend", "end", "broken"}
      /\ pc' = pc \/ pc' \in {"sleep", "end", "broken"}
      /\ pc' = "broken" /\ pc # "broken" => Walking /\ cur \notin list
  BY DEF StopThread, ExitReturns, Test, Break, walk, TypeOK
<1>4. TypeOK'
  BY <1>1, <1>2, <1>3 DEF TypeOK
<1>5. Timely'
  <2>1. \A id \in list : InCallback(id)' <=> InCallback(id)
    BY <1>1 DEF InCallback, StopThread, ExitReturns, Test, Break, walk
  <2> QED
    BY <1>1, <2>1 DEF Timely
<1>6. WalkIsAlive'
  BY <1>1, <1>3 DEF WalkIsAlive, Walking
<1>7. BrokenByCall'
  BY <1>1, <1>3 DEF BrokenByCall, WalkIsAlive
<1> QED
  BY <1>2, <1>4, <1>5, <1>6, <1>7

(* A walk begins at the first record.                                      *)
LEMMA WakeStep == IInv /\ Wake => IInv'
<1> SUFFICES ASSUME IInv, Wake PROVE IInv'
  OBVIOUS
<1> USE DEF IInv
<1>1. UNCHANGED <<ack, nextId, scan_time, exiting, disturbed>> /\ pc = "sleep"
  BY DEF Wake
<1>2. /\ cur' \in list \union {AckList}
      /\ list # {} => cur' \in list
      /\ nxt' # AckList => nxt' \in list /\ nxt' > cur'
  <2>1. cur' = Successor(AckList) /\ (list # {} => \E id \in list : id > AckList)
    BY DEF Wake, TypeOK
  <2>2. cur' \in list \union {AckList} /\ (list # {} => cur' \in list)
    BY <2>1, ListIsNat, SuccessorIsLater
  <2>3. nxt' # AckList => nxt' = Successor(cur')
    BY DEF Wake
  <2>4. cur' \in Nat
    BY <2>2, ListIsNat
  <2> QED
    BY <2>2, <2>3, <2>4, ListIsNat, SuccessorIsLater
<1>3. pc' \in {"test", "walk"} /\ (pc' = "walk" => list # {})
  BY DEF Wake
<1>4. TypeOK'
  BY <1>1, <1>2, <1>3 DEF TypeOK
<1>5. WalkIsAlive' /\ BrokenByCall'
  BY <1>1, <1>2, <1>3 DEF WalkIsAlive, BrokenByCall, Walking
<1>6. EndIsAnswered' /\ Timely'
  BY <1>1, <1>3 DEF EndIsAnswered, Timely, InCallback
<1> QED
  BY <1>4, <1>5, <1>6

(* The steps of a walk that go on: the records that are kept stay well-    *)
(* formed and on time.                                                     *)
LEMMA WalkGoesOn ==
  ASSUME IInv, Walking, Advance,
         list' \subseteq list, list \subseteq list' \union {cur}, ack' \in [list' -> Infos],
         Timely'
  PROVE  IInv'
<1> USE DEF IInv
<1>1. TypeOK'
  BY AdvanceKeeps DEF TypeOK
<1>2. EndIsAnswered'
  BY AdvanceKeeps DEF EndIsAnswered, Walking
<1> QED
  BY <1>1, <1>2, AdvanceKeeps

(* The fields that are counted, and what an interval adds to a count.      *)
LEMMA InfoFields ==
  ASSUME NEW info \in Infos
  PROVE  /\ info.time_cnt \in Nat /\ info.scans \in Nat /\ info.sent \in Nat
         /\ info.re_num \in Nat /\ info.asked \in Nat /\ info.re_time \in Nat \ {0}
         /\ info.sent * info.re_time \in Nat
         /\ info.sent * info.re_time + info.re_time = (info.sent + 1) * info.re_time
<1>1. /\ info.time_cnt \in Nat /\ info.scans \in Nat /\ info.sent \in Nat
      /\ info.re_num \in Nat /\ info.asked \in Nat /\ info.re_time \in Nat \ {0}
  BY DEF Infos
<1>2. \A a \in Nat, b \in Nat : a * b \in Nat /\ a * b + b = (a + 1) * b
  OBVIOUS
<1> QED
  BY <1>1, <1>2

(* Counting in a record leaves a record.                                   *)
LEMMA InfoCounts ==
  ASSUME NEW info \in Infos, NEW n \in Nat, NEW k \in Nat, NEW l \in Nat
  PROVE  /\ [info EXCEPT !.time_cnt = n, !.scans = k] \in Infos
         /\ [info EXCEPT !.time_cnt = n, !.scans = k, !.sent = l] \in Infos
         /\ [info EXCEPT !.re_num = n] \in Infos
BY DEF Infos

LEMMA NotYetStep == IInv /\ NotYet => IInv'
<1> SUFFICES ASSUME IInv, NotYet PROVE IInv'
  OBVIOUS
<1> USE DEF IInv
<1>1. /\ list' = list /\ cur \in list /\ Walking /\ Advance
      /\ ack' = [ack EXCEPT ![cur].time_cnt = @ + 1, ![cur].scans = @ + 1]
      /\ pc = "walk" /\ ack[cur].time_cnt + 1 < ack[cur].re_time
  BY DEF NotYet, TypeOK, Walking, Expires, Infos
<1> DEFINE new == [ack[cur] EXCEPT !.time_cnt = @ + 1, !.scans = @ + 1]
<1>2. ack' \in [list' -> Infos] /\ ack[cur] \in Infos
  <2>1. ack[cur] \in Infos
    BY <1>1 DEF TypeOK
  <2>2. new \in Infos
    <3>1. ack[cur].time_cnt + 1 \in Nat /\ ack[cur].scans + 1 \in Nat
      BY <2>1 DEF Infos
    <3> QED
      BY <2>1, <3>1, InfoCounts
  <2>3. ack' = [ack EXCEPT ![cur] = new]
    BY <1>1
  <2> QED
    BY <1>1, <2>1, <2>2, <2>3 DEF TypeOK
<1>3. Timely'
  <2>1. \A id \in list : ~InCallback(id) /\ ~InCallback(id)'
    BY <1>1, AdvanceKeeps DEF InCallback
  <2>2. ASSUME NEW id \in list
        PROVE  /\ ack'[id].time_cnt < ack'[id].re_time
               /\ ack'[id].scans = ack'[id].sent * ack'[id].re_time + ack'[id].time_cnt
               /\ ack'[id].sent + ack'[id].re_num = ack'[id].asked
    <3>1. CASE id = cur
      <4>1. /\ ack'[id].time_cnt = ack[id].time_cnt + 1 /\ ack'[id].scans = ack[id].scans + 1
            /\ ack'[id].sent = ack[id].sent /\ ack'[id].re_time = ack[id].re_time
            /\ ack'[id].re_num = ack[id].re_num /\ ack'[id].asked = ack[id].asked
        BY <1>1, <1>2, <3>1 DEF Infos
      <4> DEFINE resends == ack[id].sent * ack[id].re_time
      <4>2. ack[id].scans = resends + ack[id].time_cnt /\ ack'[id].sent * ack'[id].re_time = resends
        BY <4>1 DEF Timely
      <4>3. resends \in Int /\ ack[id].time_cnt \in Int
        BY <1>2, <3>1 DEF Infos
      <4>4. ack[id].sent + ack[id].re_num = ack[id].asked
        BY <2>1 DEF Timely
      <4> HIDE DEF resends
      <4>5. ack'[id].scans = resends + ack'[id].time_cnt
        BY <4>1, <4>2, <4>3
      <4> QED
        BY <1>1, <3>1, <4>1, <4>2, <4>4, <4>5
    <3>2. CASE id # cur
      BY <1>1, <2>1, <3>2 DEF Timely, TypeOK
    <3> QED
      BY <3>1, <3>2
  <2> QED
    BY <1>1, <2>1, <2>2 DEF Timely
<1> QED
  BY <1>1, <1>2, <1>3, WalkGoesOn

(* Freeing the record of the walk touches no other.                        *)
LEMMA DropStep ==
  ASSUME IInv, Walking, cur \in list, Destroy({cur}), Advance
  PROVE  IInv'
<1> USE DEF IInv
<1>1. /\ list' = list \ {cur} /\ \A id \in list' : ack'[id] = ack[id]
      /\ ack' \in [list' -> Infos]
  BY DEF Destroy, TypeOK
<1>2. Timely'
  <2>1. \A id \in list' : ~InCallback(id) /\ ~InCallback(id)'
    BY <1>1, AdvanceKeeps DEF InCallback
  <2> QED
    BY <1>1, <2>1 DEF Timely
<1> QED
  BY <1>1, <1>2, WalkGoesOn

LEMMA GiveUpStep == IInv /\ GiveUp => IInv'
BY DropStep DEF GiveUp, Walking

(* Handing a record to the callback, at the end of an interval.            *)
LEMMA ResendCounts ==
  ASSUME IInv, Resend
  PROVE  /\ cur \in list /\ list' = list /\ ack' \in [list -> Infos]
         /\ \A id \in list \ {cur} : ack'[id] = ack[id]
         /\ ack'[cur].sent = ack[cur].sent + 1 /\ ack'[cur].re_num = ack[cur].re_num
         /\ ack'[cur].re_time = ack[cur].re_time /\ ack'[cur].asked = ack[cur].asked
         /\ ack'[cur].time_cnt = 0 /\ ack[cur].re_time > 0 /\ ack[cur].re_num > 0
         /\ ack'[cur].scans = ack'[cur].sent * ack[cur].re_time
         /\ ack[cur].sent + ack[cur].re_num = ack[cur].asked /\ ack[cur] \in Infos
<1> USE DEF IInv
<1> DEFINE new == [ack[cur] EXCEPT !.time_cnt = 0, !.scans = @ + 1, !.sent = @ + 1]
<1>1. /\ cur \in list /\ pc = "walk" /\ Expires(cur) /\ ~Exhausted(cur)
      /\ ack' = [ack EXCEPT ![cur] = new]
  BY DEF Resend
<1>2. ack[cur] \in Infos
  BY <1>1 DEF TypeOK
<1>3. new \in Infos
  <2>1. ack[cur].scans + 1 \in Nat /\ ack[cur].sent + 1 \in Nat
    BY <1>2 DEF Infos
  <2> QED
    BY <1>2, <2>1, InfoCounts
<1>4. /\ list' = list /\ ack' \in [list -> Infos] /\ ack'[cur] = new
      /\ \A id \in list \ {cur} : ack'[id] = ack[id]
  BY <1>1, <1>2, <1>3 DEF TypeOK
<1>5. /\ new.time_cnt = 0 /\ new.scans = ack[cur].scans + 1 /\ new.sent = ack[cur].sent + 1
      /\ new.re_num = ack[cur].re_num /\ new.re_time = ack[cur].re_time /\ new.asked = ack[cur].asked
  BY <1>2 DEF Infos
<1>6. /\ ack[cur].scans = ack[cur].sent * ack[cur].re_time + ack[cur].time_cnt
      /\ ack[cur].time_cnt + 1 = ack[cur].re_time
      /\ ack[cur].sent + ack[cur].re_num = ack[cur].asked
      /\ ack[cur].re_num > 0 /\ ack[cur].re_time > 0
  BY <1>1, <1>2 DEF Timely, InCallback, Expires, Exhausted, Infos
<1>7. ack[cur].sent * ack[cur].re_time + ack[cur].re_time = (ack[cur].sent + 1) * ack[cur].re_time
  BY <1>2, InfoFields
<1>8. ack[cur].sent * ack[cur].re_time \in Int /\ ack[cur].time_cnt \in Int
  BY <1>2, InfoFields
<1>9. ack[cur].scans + 1 = (ack[cur].sent + 1) * ack[cur].re_time
  BY <1>6, <1>7, <1>8
<1> HIDE DEF new
<1> QED
  BY <1>1, <1>2, <1>4, <1>5, <1>6, <1>9

LEMMA ResendStep == IInv /\ Resend => IInv'
<1> SUFFICES ASSUME IInv, Resend PROVE IInv'
  OBVIOUS
<1> USE DEF IInv
<1>1. UNCHANGED <<nextId, scan_time, cur, nxt, exiting, disturbed>> /\ pc = "walk" /\ pc' = "resend"
  BY DEF Resend
<1>2. TypeOK'
  BY <1>1, ResendCounts DEF TypeOK
<1>3. WalkIsAlive' /\ BrokenByCall'
  BY <1>1, ResendCounts DEF WalkIsAlive, BrokenByCall, Walking
<1>4. EndIsAnswered'
  BY <1>1 DEF EndIsAnswered
<1>5. Timely'
  <2>1. ASSUME NEW id \in list
        PROVE  /\ ack'[id].time_cnt < ack'[id].re_time
               /\ ack'[id].scans = ack'[id].sent * ack'[id].re_time + ack'[id].time_cnt
               /\ InCallback(id)' => ack'[id].re_num > 0 /\ ack'[id].sent + ack'[id].re_num = ack'[id].asked + 1
               /\ ~InCallback(id)' => ack'[id].sent + ack'[id].re_num = ack'[id].asked
    <3>1. CASE id = cur
      <4>1. InCallback(id)'
        BY <1>1, <3>1 DEF InCallback
      <4>2. ack'[cur].sent * ack'[cur].re_time \in Int
        BY ResendCounts DEF Infos
      <4>3. ack[cur].sent \in Int /\ ack[cur].re_num \in Int /\ ack[cur].asked \in Int
        BY ResendCounts DEF Infos
      <4> QED
        BY <3>1, <4>1, <4>2, <4>3, ResendCounts
    <3>2. CASE id # cur
      <4>1. ~InCallback(id) /\ ~InCallback(id)' /\ ack'[id] = ack[id]
        BY <1>1, <3>2, ResendCounts DEF InCallback
      <4> QED
        BY <4>1 DEF Timely
    <3> QED
      BY <3>1, <3>2
  <2>2. list' = list
    BY ResendCounts
  <2> QED
    BY <2>1, <2>2 DEF Timely
<1> QED
  BY <1>2, <1>3, <1>4, <1>5

(* The callback has returned.                                              *)
LEMMA ResentStep == IInv /\ Resent => IInv'
<1> SUFFICES ASSUME IInv, Resent PROVE IInv'
  OBVIOUS
<1> USE DEF IInv
<1>1. pc = "resend" /\ cur \in list /\ Advance /\ Walking
  BY DEF Resent, Walking
<1>2. CASE Destroy({cur})
  BY <1>1, <1>2, DropStep
<1>3. CASE ack' = [ack EXCEPT ![cur].re_num = @ - 1]
  <2> DEFINE new == [ack[cur] EXCEPT !.re_num = @ - 1]
  <2>1. ack[cur] \in Infos /\ ack' = [ack EXCEPT ![cur] = new]
    BY <1>1, <1>3 DEF TypeOK
  <2>2. /\ ack[cur].time_cnt < ack[cur].re_time
        /\ ack[cur].scans = ack[cur].sent * ack[cur].re_time + ack[cur].time_cnt
        /\ ack[cur].re_num > 0 /\ ack[cur].sent + ack[cur].re_num = ack[cur].asked + 1
    BY <1>1 DEF Timely, InCallback
  <2>3. new \in Infos
    <3>1. ack[cur].re_num - 1 \in Nat
      BY <2>1, <2>2 DEF Infos
    <3> QED
      BY <2>1, <3>1, InfoCounts
  <2>4. /\ list' = list /\ ack' \in [list' -> Infos] /\ ack'[cur] = new
        /\ \A id \in list \ {cur} : ack'[id] = ack[id]
    BY <1>1, <2>1, <2>3 DEF TypeOK
  <2>5. /\ new.time_cnt = ack[cur].time_cnt /\ new.scans = ack[cur].scans /\ new.sent = ack[cur].sent
        /\ new.re_num = ack[cur].re_num - 1 /\ new.re_time = ack[cur].re_time /\ new.asked = ack[cur].asked
    BY <2>1 DEF Infos
  <2> HIDE DEF new
  <2>6. new.sent + new.re_num = new.asked
    BY <2>1, <2>2, <2>5, InfoFields
  <2>7. \A id \in list : ~InCallback(id)' /\ (id # cur => ~InCallback(id))
    BY <1>1, AdvanceKeeps, <2>4 DEF InCallback
  <2>8. Timely'
    <3>1. ASSUME NEW id \in list
          PROVE  /\ ack'[id].time_cnt < ack'[id].re_time
                 /\ ack'[id].scans = ack'[id].sent * ack'[id].re_time + ack'[id].time_cnt
                 /\ ack'[id].sent + ack'[id].re_num = ack'[id].asked
      <4>1. CASE id = cur
        BY <2>2, <2>4, <2>5, <2>6, <4>1
      <4>2. CASE id # cur
        BY <2>4, <2>7, <4>2 DEF Timely
      <4> QED
        BY <4>1, <4>2
    <3> QED
      BY <2>4, <2>7, <3>1 DEF Timely
  <2> QED
    BY <1>1, <2>4, <2>8, WalkGoesOn
<1> QED
  BY <1>2, <1>3 DEF Resent
-----------------------------------------------------------------------------
(* Every step keeps the invariant.                                         *)
LEMMA StepIInv == IInv /\ [Next]_vars => IInv'
<1> SUFFICES ASSUME IInv, [Next]_vars PROVE IInv'
  OBVIOUS
<1>1. CASE UNCHANGED vars
  BY <1>1 DEF IInv, vars, walk, TypeOK, WalkIsAlive, Walking, EndIsAnswered, BrokenByCall, Timely, InCallback
<1>2. CASE ThreadStep
  BY <1>2, QuietStep, WakeStep, NotYetStep, GiveUpStep, ResendStep, ResentStep DEF ThreadStep
<1>3. CASE ExitStep \/ Exit
  BY <1>3, QuietStep, ExitStarts DEF ExitStep
<1> QED
  BY <1>1, <1>2, <1>3, RecordStep, UnrecordStep DEF Next

LEMMA IInvAlways == Spec => []IInv
BY InitIInv, StepIInv, PTL DEF Spec

(* Type correctness of the resender.                                       *)
THEOREM TypeCorrect == Spec => []TypeOK
<1>1. IInv => TypeOK
  BY DEF IInv
<1> QED
  BY <1>1, IInvAlways, PTL

(* Only a call that frees a record in the middle of a walk makes the       *)
(* thread use freed memory, and ack_async_exit frees the context last      *)
(* (ack_async.c:155, 250-271).                                             *)
THEOREM OwnFreesAreSafe == Spec => []NothingFreedIsUsed
<1>1. IInv => NothingFreedIsUsed
  BY DEF IInv, BrokenByCall, EndIsAnswered, NothingFreedIsUsed
<1> QED
  BY <1>1, IInvAlways, PTL

(* Resends come at the ends of intervals and are never more than asked     *)
(* for, and no record is given up early (ack_async.c:159-181).             *)
THEOREM ResendsAreOnSchedule == Spec => OnSchedule
<1> DEFINE Kept(id) ==
             id \in list' /\ ack'[id].sent # ack[id].sent =>
               /\ ack'[id].sent <= ack[id].asked
               /\ ack'[id].scans = ack'[id].sent * ack[id].re_time
           GivenUp(id) ==
             cur = id /\ pc = "walk" /\ cur' # cur /\ id \notin list' =>
               /\ ack[id].sent = ack[id].asked
               /\ ack[id].scans + 1 = (ack[id].asked + 1) * ack[id].re_time
<1>1. ASSUME IInv, Next, NEW id \in list PROVE Kept(id) /\ GivenUp(id)
  <2>1. CASE Resend
    <3>1. Kept(id)
      BY <1>1, <2>1, ResendCounts DEF Infos
    <3>2. GivenUp(id)
      BY <2>1 DEF Resend
    <3> QED
      BY <3>1, <3>2
  <2>2. CASE GiveUp
    <3>1. Kept(id)
      BY <2>2 DEF GiveUp, Destroy
    <3>2. ASSUME cur = id PROVE GivenUp(id)
      <4>1. pc = "walk" /\ ack[id] \in Infos /\ Expires(id) /\ Exhausted(id)
        BY <1>1, <2>2, <3>2 DEF GiveUp, IInv, TypeOK
      <4>2. /\ ack[id].scans = ack[id].sent * ack[id].re_time + ack[id].time_cnt
            /\ ack[id].time_cnt < ack[id].re_time
            /\ ack[id].sent + ack[id].re_num = ack[id].asked
        BY <1>1, <4>1 DEF IInv, Timely, InCallback
      <4>3. /\ ack[id].time_cnt + 1 = ack[id].re_time
            /\ ack[id].sent = ack[id].asked
        BY <4>1, <4>2, InfoFields DEF Expires, Exhausted
      <4>4. /\ ack[id].sent * ack[id].re_time + ack[id].re_time = (ack[id].sent + 1) * ack[id].re_time
            /\ ack[id].sent * ack[id].re_time \in Int /\ ack[id].time_cnt \in Int
        BY <4>1, InfoFields
      <4> QED
        BY <4>2, <4>3, <4>4
    <3> QED
      BY <3>1, <3>2
  <2>3. CASE NotYet
    BY <1>1, <2>3 DEF NotYet, IInv, TypeOK, Infos
  <2>4. CASE Resent
    BY <1>1, <2>4 DEF Resent, Destroy, IInv, TypeOK, Infos
  <2>5. CASE ~(Resend \/ GiveUp \/ NotYet \/ Resent)
    <3>1. \A i \in list : i \in list' => ack'[i] = ack[i]
      <4>1. nextId \notin list
        BY <1>1 DEF IInv, TypeOK
      <4> QED
        BY <1>1, <2>5, <4>1 DEF Next, ThreadStep, ExitStep, Record, Unrecord, Exit, Free, Destroy, StopThread,
           ExitReturns, Test, Wake, Break
    <3>2. pc = "walk" => cur' = cur
      BY <1>1, <2>5 DEF Next, ThreadStep, ExitStep, Record, Unrecord, Exit, Free, StopThread,
         ExitReturns, Test, Wake, Break, walk
    <3> QED
      BY <3>1, <3>2
  <2> QED
    BY <2>1, <2>2, <2>3, <2>4, <2>5
<1> DEFINE Sched == \A id \in list :
       /\ id \in list' /\ ack'[id].sent # ack[id].sent =>
            /\ ack'[id].sent <= ack[id].asked
            /\ ack'[id].scans = ack'[id].sent * ack[id].re_time
       /\ cur = id /\ pc = "walk" /\ cur' # cur /\ id \notin list' =>
            /\ ack[id].sent = ack[id].asked
            /\ ack[id].scans + 1 = (ack[id].asked + 1) * ack[id].re_time
<1>2. IInv /\ [Next]_vars => [Sched]_vars
  BY <1>1
<1> QED
  BY <1>2, IInvAlways, PTL DEF Spec, OnSchedule
=============================================================================
