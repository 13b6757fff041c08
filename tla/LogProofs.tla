----------------------------- MODULE LogProofs ------------------------------
(***************************************************************************)
(* The safety properties of Log for any number of writers, any size of the *)
(* ring and of the buffers and any width of the indices, and the steps of  *)
(* its refinement of ByteFifo.                                             *)
(***************************************************************************)
EXTENDS Log, FiniteSetTheorems, SequenceTheorems, TLAPS

USE SizeAssumption DEF SizeAssumption

(* The mutex is held exactly by the writer that has copied.                *)
HolderHasCopied == \A w \in Writers : wpc[w] = "copied" <=> holder = w

(* What was copied fits beside what is in the ring, and what was read is   *)
(* still there.                                                            *)
CopiedFits == Used + Copied <= Size
GotIsThere == rpc = "consume" => got <= Used

(* The output buffer is clear behind what was read.                        *)
BufferIsClear ==
  /\ rpc \in {"wait", "read"} => \A i \in BuffCells : outBuff[i] = Nul
  /\ rpc \in {"consume", "print"} => \A i \in BuffCells : i >= got => outBuff[i] = Nul

IInv == TypeOK /\ HolderHasCopied /\ CopiedFits /\ GotIsThere /\ BufferIsClear /\ WakeupsSuffice
-----------------------------------------------------------------------------
(* Arithmetic of remainders.                                               *)

LEMMA ModUnique ==
  ASSUME NEW m \in Nat, m > 0, NEW x \in Int, NEW k \in Int, NEW r \in 0..(m - 1), x = k * m + r
  PROVE  x % m = r
BY SMT

LEMMA ModDiv ==
  ASSUME NEW m \in Nat, m > 0, NEW x \in Int
  PROVE  x = (x \div m) * m + (x % m) /\ x \div m \in Int /\ x % m \in 0..(m - 1)
BY SMT

LEMMA ModShift ==
  ASSUME NEW m \in Nat, m > 0, NEW x \in Int, NEW y \in Int, NEW k \in Int, y = x + k * m
  PROVE  y % m = x % m
<1> DEFINE q == x \div m
           r == x % m
<1>1. x = q * m + r /\ q \in Int /\ r \in 0..(m - 1)
  BY ModDiv
<1> HIDE DEF q, r
<1>2. y = (q + k) * m + r /\ q + k \in Int
  BY <1>1
<1>3. y % m = r
  BY <1>1, <1>2, ModUnique
<1>4. x % m = r
  BY <1>1, ModUnique
<1> QED
  BY <1>3, <1>4

(* Next to the modulus.                                                    *)
LEMMA ModNear ==
  ASSUME NEW m \in Nat, m > 0, NEW x \in Int
  PROVE  /\ 0 <= x /\ x < m => x % m = x
         /\ -m <= x /\ x < 0 => x % m = x + m
         /\ m <= x /\ x < 2 * m => x % m = x - m
BY SMT

LEMMA SizeIsPositive == Size \in Nat /\ Size > 0 /\ Range32 \in Nat /\ Range32 > 0
OBVIOUS
-----------------------------------------------------------------------------
(* Bytes in the ring.                                                      *)

LEMMA UsedIs ==
  ASSUME TypeOK
  PROVE  /\ Used \in 0..(Range32 - 1)
         /\ Used = IF in >= out THEN in - out ELSE in - out + Range32
BY ModNear DEF TypeOK, Used

(* The room a writer sees is what is not used.                             *)
LEMMA RoomIs ==
  ASSUME TypeOK, Used <= Size
  PROVE  Room = Size - Used
<1>1. in \in 0..(Range32 - 1) /\ out \in 0..(Range32 - 1)
  BY DEF TypeOK
<1>2. CASE in >= out
  <2>1. Used = in - out
    BY <1>2, UsedIs
  <2> QED
    BY <1>1, <1>2, <2>1, ModNear DEF Room
<1>3. CASE in < out
  <2>1. Used = in - out + Range32
    BY <1>1, <1>3, UsedIs
  <2>2. Size - in + out = Size - Used + Range32
    BY <1>1, <2>1
  <2>3. Size - Used \in 0..(Range32 - 1)
    BY UsedIs
  <2> QED
    BY <1>1, <2>2, <2>3, ModNear DEF Room
<1> QED
  BY <1>1, <1>2, <1>3

LEMMA InMoves ==
  ASSUME TypeOK, NEW n \in Nat, Used + n <= Size, in' = (in + n) % Range32, out' = out
  PROVE  Used' = Used + n /\ in' \in 0..(Range32 - 1)
<1>1. in \in 0..(Range32 - 1) /\ out \in 0..(Range32 - 1)
  BY DEF TypeOK
<1>2. in' \in 0..(Range32 - 1) /\ (in' = in + n \/ in' = in + n - Range32)
  BY <1>1, UsedIs, ModNear
<1>3. Used' = IF in' >= out THEN in' - out ELSE in' - out + Range32
  BY <1>1, <1>2, ModNear DEF Used
<1>4. Used = IF in >= out THEN in - out ELSE in - out + Range32
  BY UsedIs
<1> DEFINE u == Used
           v == Used'
<1>5. u + n < Range32
  BY <1>1, UsedIs
<1> HIDE DEF u, v
<1>6. v = u + n
  <2>1. u = IF in >= out THEN in - out ELSE in - out + Range32
    BY <1>4 DEF u
  <2>2. v = IF in' >= out THEN in' - out ELSE in' - out + Range32
    BY <1>3 DEF v
  <2>3. CASE in' = in + n
    BY <1>1, <1>2, <1>5, <2>1, <2>2, <2>3
  <2>4. CASE in' = in + n - Range32
    BY <1>1, <1>2, <1>5, <2>1, <2>2, <2>4
  <2> QED
    BY <1>2, <2>3, <2>4
<1> QED
  BY <1>2, <1>6 DEF u, v

LEMMA OutMoves ==
  ASSUME TypeOK, NEW n \in Nat, n <= Used, out' = (out + n) % Range32, in' = in
  PROVE  Used' = Used - n /\ out' \in 0..(Range32 - 1)
<1>1. in \in 0..(Range32 - 1) /\ out \in 0..(Range32 - 1)
  BY DEF TypeOK
<1>2. out' \in 0..(Range32 - 1) /\ (out' = out + n \/ out' = out + n - Range32)
  BY <1>1, UsedIs, ModNear
<1>3. Used' = IF in >= out' THEN in - out' ELSE in - out' + Range32
  BY <1>1, <1>2, ModNear DEF Used
<1> QED
  BY <1>1, <1>2, <1>3, UsedIs
-----------------------------------------------------------------------------
(* Wakeups.                                                                *)

LEMMA Multiply ==
  ASSUME NEW n \in Int
  PROVE  /\ BuffSize * n \in Int
         /\ BuffSize * (n + 1) = BuffSize * n + BuffSize
         /\ BuffSize * (n - 1) = BuffSize * n - BuffSize
         /\ n \in Nat => BuffSize * n \in Nat
BY SMT

LEMMA PostingIs == IsFiniteSet(Posting) /\ Cardinality(Posting) \in Nat
BY FS_Subset, FS_CardinalityType DEF Posting

LEMMA WakeupsIs ==
  ASSUME TypeOK
  PROVE  Wakeups \in Nat
BY PostingIs DEF TypeOK, Wakeups

LEMMA InitIInv == Init => IInv
<1> SUFFICES ASSUME Init PROVE IInv
  OBVIOUS
<1>1. TypeOK
  BY DEF Init, TypeOK, Bytes, Cells, BuffCells
<1>2. Used = 0
  BY <1>1, UsedIs DEF Init
<1>3. HolderHasCopied /\ CopiedFits /\ GotIsThere /\ BufferIsClear
  BY <1>2 DEF Init, HolderHasCopied, CopiedFits, Copied, GotIsThere, BufferIsClear
<1>4. BuffSize * Wakeups \in Nat /\ Left = 0
  BY <1>1, <1>2, WakeupsIs, Multiply DEF Left, Init
<1> QED
  BY <1>1, <1>2, <1>3, <1>4 DEF IInv, WakeupsSuffice

(* What only the writers' own state and the semaphore may disturb.         *)
LEMMA RingUnchanged ==
  ASSUME UNCHANGED <<in, out>>
  PROVE  Used' = Used /\ Room' = Room
BY DEF Used, Room
-----------------------------------------------------------------------------
LEMMA FormatStep ==
  ASSUME IInv, NEW w \in Writers, Format(w)
  PROVE  IInv'
<1> USE DEF IInv
<1>1. /\ wpc[w] = "idle" /\ wpc' = [wpc EXCEPT ![w] = "formatted"]
      /\ UNCHANGED <<holder, buff, in, out, sem, outBuff, got, rpc>>
  BY DEF Format, Goto, reader
<1>2. fmt' \in [BuffCells -> Bytes]
  BY DEF Format, TypeOK, Bytes, BuffCells
<1>3. PICK n \in 1..MaxText :
        len' = [len EXCEPT ![w] = IF n > BuffSize THEN BuffSize - 1 ELSE n]
  BY DEF Format
<1>4. len' \in [Writers -> 0..BuffSize]
  BY <1>3 DEF TypeOK
<1>5. TypeOK'
  BY <1>1, <1>2, <1>4 DEF TypeOK
<1>6. HolderHasCopied'
  BY <1>1 DEF HolderHasCopied, TypeOK
<1>7. Used' = Used
  BY <1>1, RingUnchanged
<1>8. Copied' = Copied
  BY <1>1, <1>3 DEF Copied, HolderHasCopied, TypeOK
<1>9. CopiedFits' /\ GotIsThere' /\ BufferIsClear'
  BY <1>1, <1>7, <1>8 DEF CopiedFits, GotIsThere, BufferIsClear
<1>10. Posting' = Posting
  BY <1>1 DEF Posting, TypeOK
<1>11. Wakeups' = Wakeups /\ Left' = Left
  BY <1>1, <1>7, <1>10 DEF Wakeups, Left
<1> QED
  BY <1>5, <1>6, <1>7, <1>9, <1>11 DEF WakeupsSuffice

LEMMA CopyStep ==
  ASSUME IInv, NEW w \in Writers, Copy(w)
  PROVE  IInv'
<1> USE DEF IInv
<1> DEFINE n == FIFO_MIN(len[w], Room)
<1>1. /\ wpc[w] = "formatted" /\ wpc' = [wpc EXCEPT ![w] = "copied"]
      /\ holder = None /\ holder' = w /\ len' = [len EXCEPT ![w] = n]
      /\ UNCHANGED <<fmt, in, out, sem, outBuff, got, rpc>>
  BY DEF Copy, Goto, reader
<1>2. buff' \in [Cells -> Bytes]
  <2>1. \A c \in Cells : (c - in) % Size < n => (c - in) % Size \in BuffCells
    <3>1. n <= BuffSize
      <4>1. Room \in Nat /\ len[w] \in 0..BuffSize
        BY RoomIs, UsedIs DEF TypeOK, WakeupsSuffice
      <4> QED
        BY <4>1 DEF FIFO_MIN
    <3> SUFFICES ASSUME NEW c \in Cells, (c - in) % Size < n
                 PROVE  (c - in) % Size \in BuffCells
      OBVIOUS
    <3>2. c - in \in Int
      BY DEF TypeOK, Cells
    <3>3. (c - in) % Size \in 0..(Size - 1)
      BY <3>2, ModDiv
    <3>4. n \in Int
      BY RoomIs, UsedIs DEF TypeOK, FIFO_MIN, WakeupsSuffice
    <3> HIDE DEF n
    <3> QED
      BY <3>1, <3>3, <3>4 DEF BuffCells
  <2> QED
    BY <2>1 DEF Copy, TypeOK
<1>3. n \in 0..BuffSize /\ Used + n <= Size
  BY RoomIs, UsedIs DEF TypeOK, FIFO_MIN, WakeupsSuffice
<1> HIDE DEF n
<1>4. TypeOK'
  <2>1. len' \in [Writers -> 0..BuffSize]
    BY <1>1, <1>3 DEF TypeOK
  <2> QED
    BY <1>1, <1>2, <2>1 DEF TypeOK
<1>5. HolderHasCopied'
  BY <1>1 DEF HolderHasCopied, TypeOK
<1>6. Used' = Used
  BY <1>1, RingUnchanged
<1>7. Copied' = n
  BY <1>1 DEF Copied, TypeOK
<1>8. CopiedFits' /\ GotIsThere' /\ BufferIsClear'
  BY <1>1, <1>3, <1>6, <1>7 DEF CopiedFits, GotIsThere, BufferIsClear
<1>9. Posting' = Posting
  BY <1>1 DEF Posting, TypeOK
<1>10. Wakeups' = Wakeups /\ Left' = Left
  BY <1>1, <1>6, <1>9 DEF Wakeups, Left
<1> QED
  BY <1>4, <1>5, <1>6, <1>8, <1>10 DEF WakeupsSuffice

LEMMA PublishStep ==
  ASSUME IInv, NEW w \in Writers, Publish(w)
  PROVE  IInv'
<1> USE DEF IInv
<1> DEFINE n == len[w]
<1>1. /\ wpc[w] = "copied" /\ wpc' = [wpc EXCEPT ![w] = "published"]
      /\ holder' = None /\ in' = (in + n) % Range32
      /\ UNCHANGED <<fmt, len, buff, out, sem, outBuff, got, rpc>>
  BY DEF Publish, Goto, reader
<1>2. n \in 0..BuffSize /\ holder = w /\ Copied = n
  BY <1>1 DEF TypeOK, HolderHasCopied, Copied
<1> HIDE DEF n
<1>3. Used' = Used + n /\ in' \in 0..(Range32 - 1)
  BY <1>1, <1>2, InMoves DEF CopiedFits
<1>4. TypeOK'
  BY <1>1, <1>3 DEF TypeOK
<1>5. HolderHasCopied'
  BY <1>1, <1>2 DEF HolderHasCopied, TypeOK
<1>6. CopiedFits' /\ GotIsThere' /\ BufferIsClear'
  <2>1. Used' <= Size /\ Copied' = 0 /\ Used' >= Used
    BY <1>1, <1>2, <1>3, UsedIs DEF CopiedFits, Copied
  <2>2. CopiedFits'
    BY <2>1, <1>3, <1>2, UsedIs DEF CopiedFits
  <2>3. GotIsThere'
    BY <1>1, <1>2, <1>3, UsedIs DEF GotIsThere, TypeOK
  <2> QED
    BY <1>1, <2>2, <2>3 DEF BufferIsClear
<1>7. Posting' = Posting \union {w} /\ w \notin Posting
  BY <1>1 DEF Posting, TypeOK
<1>8. Wakeups' = Wakeups + 1
  <2>1. Cardinality(Posting)' = Cardinality(Posting) + 1
    BY <1>7, PostingIs, FS_AddElement
  <2> QED
    BY <1>1, <2>1, PostingIs DEF Wakeups, TypeOK
<1>9. Left' = Left + n /\ Left \in Int
  BY <1>1, <1>2, <1>3, UsedIs DEF Left, TypeOK
<1>10. Left' <= BuffSize * Wakeups'
  BY <1>2, <1>8, <1>9, WakeupsIs, Multiply DEF WakeupsSuffice
<1> QED
  BY <1>2, <1>3, <1>4, <1>5, <1>6, <1>10 DEF WakeupsSuffice, CopiedFits

LEMMA PostStep ==
  ASSUME IInv, NEW w \in Writers, Post(w)
  PROVE  IInv'
<1> USE DEF IInv
<1>1. /\ wpc[w] = "published" /\ wpc' = [wpc EXCEPT ![w] = "idle"]
      /\ sem' = sem + 1 /\ len' = [len EXCEPT ![w] = 0]
      /\ UNCHANGED <<fmt, holder, buff, in, out, outBuff, got, rpc>>
  BY DEF Post, Goto, reader
<1>2. TypeOK'
  BY <1>1 DEF TypeOK
<1>3. HolderHasCopied'
  BY <1>1 DEF HolderHasCopied, TypeOK
<1>4. Used' = Used
  BY <1>1, RingUnchanged
<1>5. Copied' = Copied
  BY <1>1 DEF Copied, HolderHasCopied, TypeOK
<1>6. CopiedFits' /\ GotIsThere' /\ BufferIsClear'
  BY <1>1, <1>4, <1>5 DEF CopiedFits, GotIsThere, BufferIsClear
<1>7. Posting' = Posting \ {w} /\ w \in Posting
  BY <1>1 DEF Posting, TypeOK
<1>8. Wakeups' = Wakeups
  <2>1. Cardinality(Posting)' = Cardinality(Posting) - 1
    BY <1>7, PostingIs, FS_RemoveElement
  <2> QED
    BY <1>1, <2>1, PostingIs DEF Wakeups, TypeOK
<1>9. Left' = Left
  BY <1>1, <1>4 DEF Left
<1> QED
  BY <1>2, <1>3, <1>4, <1>6, <1>8, <1>9 DEF WakeupsSuffice
-----------------------------------------------------------------------------
(* What the reader does leaves the writers as they are.                    *)
LEMMA WritersUnchanged ==
  ASSUME UNCHANGED writers
  PROVE  /\ Posting' = Posting /\ Copied' = Copied
         /\ HolderHasCopied => HolderHasCopied'
BY DEF writers, Posting, Copied, HolderHasCopied

LEMMA SemWaitStep ==
  ASSUME IInv, SemWait \/ Interrupted
  PROVE  IInv'
<1> USE DEF IInv
<1>1. /\ rpc = "wait" /\ rpc' = "read" /\ UNCHANGED <<fmt, len, wpc, holder>>
      /\ UNCHANGED <<buff, in, out, outBuff, got>>
      /\ (sem > 0 /\ sem' = sem - 1) \/ sem' = sem
  BY DEF SemWait, Interrupted, writers
<1>2. TypeOK'
  BY <1>1 DEF TypeOK
<1>3. Used' = Used
  BY <1>1, RingUnchanged
<1>4. Posting' = Posting /\ Copied' = Copied /\ HolderHasCopied'
  BY <1>1, WritersUnchanged DEF writers
<1>5. CopiedFits' /\ GotIsThere' /\ BufferIsClear'
  BY <1>1, <1>3, <1>4 DEF CopiedFits, GotIsThere, BufferIsClear
<1>6. Left' = Left /\ Left \in Int
  BY <1>1, <1>3, UsedIs DEF Left
<1>7. Wakeups' = Wakeups \/ Wakeups' = Wakeups + 1
  BY <1>1, <1>4, PostingIs DEF Wakeups, TypeOK
<1>8. Left' <= BuffSize * Wakeups'
  BY <1>6, <1>7, WakeupsIs, Multiply DEF WakeupsSuffice
<1> QED
  BY <1>2, <1>3, <1>4, <1>5, <1>8 DEF WakeupsSuffice

LEMMA ReadStep ==
  ASSUME IInv, Read
  PROVE  IInv'
<1> USE DEF IInv
<1>1. /\ rpc = "read" /\ rpc' = "consume" /\ got' = FIFO_MIN(BuffSize, Used)
      /\ UNCHANGED <<fmt, len, wpc, holder, buff, in, out, sem>>
      /\ outBuff' = [i \in BuffCells |-> IF i < got' THEN buff[(out + i) % Size] ELSE outBuff[i]]
  BY DEF Read, writers
<1>2. got' \in 0..BuffSize /\ got' <= Used /\ (got' = BuffSize \/ got' = Used)
  BY <1>1, UsedIs DEF FIFO_MIN
<1>3. outBuff' \in [BuffCells -> Bytes]
  <2>1. \A i \in BuffCells : (out + i) % Size \in Cells
    BY ModDiv DEF TypeOK, BuffCells, Cells
  <2> QED
    BY <1>1, <2>1 DEF TypeOK
<1>4. TypeOK'
  BY <1>1, <1>2, <1>3 DEF TypeOK
<1>5. Used' = Used
  BY <1>1, RingUnchanged
<1>6. Posting' = Posting /\ Copied' = Copied /\ HolderHasCopied'
  BY <1>1, WritersUnchanged DEF writers
<1>7. CopiedFits' /\ GotIsThere'
  BY <1>2, <1>5, <1>6 DEF CopiedFits, GotIsThere
<1>8. BufferIsClear'
  BY <1>1, <1>2 DEF BufferIsClear, BuffCells
<1>9. Left' = Used - got' /\ Left = Used
  BY <1>1, <1>5, UsedIs DEF Left
<1>10. Wakeups = Wakeups' + 1 /\ Wakeups' \in Nat
  BY <1>1, <1>6, PostingIs DEF Wakeups, TypeOK
<1>11. Left' <= BuffSize * Wakeups'
  <2>1. BuffSize * Wakeups = BuffSize * Wakeups' + BuffSize /\ BuffSize * Wakeups' \in Nat
    <3> DEFINE k == Wakeups'
    <3>1. Wakeups = k + 1 /\ k \in Nat
      BY <1>10
    <3> HIDE DEF k
    <3>2. BuffSize * (k + 1) = BuffSize * k + BuffSize /\ BuffSize * k \in Nat
      BY <3>1, Multiply
    <3> QED
      BY <3>1, <3>2 DEF k
  <2>2. Used <= BuffSize * Wakeups' + BuffSize
    BY <1>9, <2>1 DEF WakeupsSuffice
  <2> QED
    BY <1>2, <1>9, <2>1, <2>2, UsedIs
<1> QED
  BY <1>4, <1>5, <1>6, <1>7, <1>8, <1>11 DEF WakeupsSuffice

LEMMA ConsumeStep ==
  ASSUME IInv, Consume
  PROVE  IInv'
<1> USE DEF IInv
<1>1. /\ rpc = "consume" /\ rpc' = "print" /\ out' = (out + got) % Range32
      /\ UNCHANGED <<fmt, len, wpc, holder, buff, in, sem, outBuff, got>>
  BY DEF Consume, writers
<1>2. got \in Nat /\ got <= Used
  BY <1>1 DEF GotIsThere, TypeOK
<1>3. Used' = Used - got /\ out' \in 0..(Range32 - 1)
  BY <1>1, <1>2, OutMoves
<1>4. TypeOK'
  BY <1>1, <1>3 DEF TypeOK
<1>5. Posting' = Posting /\ Copied' = Copied /\ HolderHasCopied'
  BY <1>1, WritersUnchanged DEF writers
<1>6. Copied \in Nat
  BY DEF Copied, TypeOK
<1>7. Used' <= Size /\ CopiedFits'
  BY <1>2, <1>3, <1>5, <1>6, UsedIs DEF CopiedFits
<1>8. GotIsThere' /\ BufferIsClear'
  BY <1>1 DEF GotIsThere, BufferIsClear
<1>9. Left' = Left /\ Wakeups' = Wakeups
  BY <1>1, <1>3, <1>5 DEF Left, Wakeups
<1> QED
  BY <1>4, <1>5, <1>7, <1>8, <1>9 DEF WakeupsSuffice

LEMMA PrintStep ==
  ASSUME IInv, Output
  PROVE  IInv'
<1> USE DEF IInv
<1>1. /\ rpc = "print" /\ rpc' = "wait" /\ got' = 0
      /\ UNCHANGED <<fmt, len, wpc, holder, buff, in, out, sem>>
      /\ outBuff' = [i \in BuffCells |-> IF i < got THEN Nul ELSE outBuff[i]]
  BY DEF Output, writers
<1>2. TypeOK'
  <2>1. outBuff' \in [BuffCells -> Bytes]
    BY <1>1 DEF TypeOK, Bytes
  <2> QED
    BY <1>1, <2>1 DEF TypeOK
<1>3. Used' = Used
  BY <1>1, RingUnchanged
<1>4. Posting' = Posting /\ Copied' = Copied /\ HolderHasCopied'
  BY <1>1, WritersUnchanged DEF writers
<1>5. CopiedFits' /\ GotIsThere'
  BY <1>1, <1>3, <1>4 DEF CopiedFits, GotIsThere
<1>6. BufferIsClear'
  BY <1>1 DEF BufferIsClear, TypeOK, BuffCells
<1>7. Left' = Left /\ Wakeups' = Wakeups
  BY <1>1, <1>3, <1>4 DEF Left, Wakeups
<1> QED
  BY <1>2, <1>3, <1>4, <1>5, <1>6, <1>7 DEF WakeupsSuffice

LEMMA StutterStep ==
  ASSUME IInv, UNCHANGED vars
  PROVE  IInv'
<1> USE DEF IInv
<1>1. UNCHANGED <<fmt, len, wpc, holder, buff, in, out, sem, outBuff, got, rpc>>
  BY DEF vars, writers, reader
<1> QED
  BY <1>1 DEF TypeOK, HolderHasCopied, CopiedFits, Copied, GotIsThere, BufferIsClear,
              WakeupsSuffice, Wakeups, Posting, Left, Used

LEMMA Invariance == Spec => []IInv
<1>1. Init => IInv
  BY InitIInv
<1>2. IInv /\ [Next]_vars => IInv'
  <2> SUFFICES ASSUME IInv, [Next]_vars PROVE IInv'
    OBVIOUS
  <2>1. ASSUME NEW w \in Writers, Format(w) \/ WriterStep(w) PROVE IInv'
    BY <2>1, FormatStep, CopyStep, PublishStep, PostStep DEF WriterStep
  <2>2. ASSUME ReaderStep \/ Interrupted PROVE IInv'
    BY <2>2, SemWaitStep, ReadStep, ConsumeStep, PrintStep DEF ReaderStep
  <2>3. CASE UNCHANGED vars
    BY <2>3, StutterStep
  <2> QED
    BY <2>1, <2>2, <2>3 DEF Next
<1> QED
  BY <1>1, <1>2, PTL DEF Spec

(* Every variable of the log, the buffers' cells and the indices of an     *)
(* unsigned int's width included, keeps its type, whatever the threads of  *)
(* salof.c do and in whatever order.                                       *)
THEOREM TypeCorrect == Spec => []TypeOK
<1>1. IInv => TypeOK
  BY DEF IInv
<1> QED
  BY <1>1, Invariance, PTL

(* salof_task never sleeps beside bytes for which no post of               *)
(* salof_fifo_write is left, and fifo->in - fifo->out never exceeds the    *)
(* ring, however often the two wrap.                                       *)
THEOREM WakeupsAlwaysSuffice == Spec => []WakeupsSuffice
<1>1. IInv => WakeupsSuffice
  BY DEF IInv
<1> QED
  BY <1>1, Invariance, PTL

(* Behind the bytes of every read _out_buff of salof_task is zero.         *)
THEOREM PrintsAreTerminated == Spec => []PrintIsTerminated
<1>1. IInv => PrintIsTerminated
  BY DEF IInv, BufferIsClear, PrintIsTerminated
<1> QED
  BY <1>1, Invariance, PTL
-----------------------------------------------------------------------------
(* Sequences that are written as functions.                                *)

LEMMA FunctionIsSequence ==
  ASSUME NEW n \in Nat, NEW S, NEW f \in [1..n -> S]
  PROVE  f \in Seq(S) /\ Len(f) = n
BY SMT

LEMMA Appended ==
  ASSUME NEW S, NEW f \in Seq(S), NEW g \in Seq(S), NEW h \in Seq(S),
         Len(h) = Len(f) + Len(g),
         \A k \in 1..Len(f) : h[k] = f[k],
         \A k \in 1..Len(g) : h[Len(f) + k] = g[k]
  PROVE  h = f \o g
<1>1. /\ f \o g \in Seq(S) /\ Len(f \o g) = Len(f) + Len(g)
      /\ \A i \in 1..(Len(f) + Len(g)) :
           (f \o g)[i] = IF i <= Len(f) THEN f[i] ELSE g[i - Len(f)]
  BY ConcatProperties
<1>2. Len(f) \in Nat /\ Len(g) \in Nat
  BY LenProperties
<1>3. ASSUME NEW i \in 1..Len(h) PROVE h[i] = (f \o g)[i]
  <2>1. CASE i <= Len(f)
    BY <1>1, <1>2, <2>1
  <2>2. CASE i > Len(f)
    <3>1. i - Len(f) \in 1..Len(g) /\ i = Len(f) + (i - Len(f)) /\ ~(i <= Len(f))
      BY <1>2, <2>2
    <3> QED
      BY <1>1, <3>1
  <2> QED
    BY <1>2, <2>1, <2>2
<1> QED
  BY <1>1, <1>3, SeqEqual

LEMMA FirstPart ==
  ASSUME NEW S, NEW n \in Nat, NEW m \in 0..n,
         NEW f \in [1..n -> S], NEW g \in [1..m -> S],
         \A k \in 1..m : g[k] = f[k]
  PROVE  g = SubSeq(f, 1, m)
BY FunctionIsSequence, SMT

LEMMA LastPart ==
  ASSUME NEW S, NEW f \in Seq(S), NEW g \in Seq(S), NEW m \in 0..Len(f),
         Len(g) = Len(f) - m,
         \A k \in 1..Len(g) : g[k] = f[m + k]
  PROVE  g = SubSeq(f, m + 1, Len(f))
BY SMT
-----------------------------------------------------------------------------
(* The cells of the ring.                                                  *)

LEMMA RangeIsMultiple == \E d \in Int : Range32 = d * Size
<1>1. Range32 = (Range32 \div Size) * Size + (Range32 % Size) /\ Range32 \div Size \in Int
  BY ModDiv
<1> QED
  BY <1>1, PowerAssumption DEF PowerAssumption

(* How far from in the cell of the byte is that is p after out.            *)
LEMMA CellFromIn ==
  ASSUME TypeOK, Used <= Size, NEW p \in 0..(Size - 1)
  PROVE  (((out + p) % Size) - in) % Size = IF p < Used THEN p - Used + Size ELSE p - Used
<1> DEFINE x == out + p
           r == x % Size
           q == x \div Size
           u == Used
<1>1. in \in Nat /\ out \in Nat /\ x \in Int
  BY DEF TypeOK
<1>2. x = q * Size + r /\ q \in Int /\ r \in Int
  BY <1>1, ModDiv
<1>3. u \in 0..Size /\ (x - in = p - u \/ x - in = p - u + Range32)
  BY <1>1, UsedIs
<1>4. x = out + p /\ r = x % Size /\ u = Used
  OBVIOUS
<1> HIDE DEF x, r, q, u
<1>5. (r - in) % Size = (x - in) % Size
  <2> DEFINE y == x - in
             z == r - in
  <2>1. y = z + q * Size /\ y \in Int /\ z \in Int
    BY <1>1, <1>2
  <2>2. y % Size = z % Size
    <3> HIDE DEF y, z
    <3> QED
      BY <1>2, <2>1, SizeIsPositive, ModShift
  <2> QED
    BY <2>2
<1>6. (x - in) % Size = (p - u) % Size
  <2>1. PICK d \in Int : Range32 = d * Size
    BY RangeIsMultiple
  <2> DEFINE y == x - in
             z == p - u
  <2>2. y \in Int /\ z \in Int /\ (y = z \/ y = z + d * Size)
    BY <1>1, <1>3, <2>1
  <2>3. y % Size = z % Size
    <3> HIDE DEF y, z
    <3> QED
      BY <2>1, <2>2, SizeIsPositive, ModShift
  <2> QED
    BY <2>3
<1>7. (p - u) % Size = IF p < u THEN p - u + Size ELSE p - u
  BY <1>3, ModNear
<1> QED
  BY <1>4, <1>5, <1>6, <1>7

(* The cell of a byte does not change when out moves, wrapping or not.     *)
LEMMA CellAfterOut ==
  ASSUME TypeOK, NEW n \in Nat, NEW j \in Int
  PROVE  (((out + n) % Range32) + j) % Size = (out + n + j) % Size
<1> DEFINE x == out + n
           r == x % Range32
           q == x \div Range32
<1>1. x \in Int
  BY DEF TypeOK
<1>2. x = q * Range32 + r /\ q \in Int /\ r \in Int
  BY <1>1, ModDiv
<1> HIDE DEF x, r, q
<1>3. PICK d \in Int : Range32 = d * Size
  BY RangeIsMultiple
<1>4. q * Range32 = (q * d) * Size /\ q * d \in Int
  BY <1>2, <1>3
<1> DEFINE y == x + j
           z == r + j
           k == q * d
<1>5. y = z + k * Size /\ y \in Int /\ z \in Int /\ k \in Int
  BY <1>1, <1>2, <1>4
<1>6. y % Size = z % Size
  <2> HIDE DEF y, z, k
  <2> QED
    BY <1>5, SizeIsPositive, ModShift
<1> QED
  BY <1>6 DEF x, r

(* What the refinement shows are sequences of bytes.                       *)
LEMMA InLogIs ==
  ASSUME IInv
  PROVE  /\ Left \in Nat /\ Copied \in Nat /\ Used - Left \in Nat /\ Used + Copied <= Size
         /\ InLog \in [1..(Left + Copied) -> Bytes]
         /\ Len(InLog) = Left + Copied
<1> USE DEF IInv
<1>1. Left \in Nat /\ Used - Left \in Nat
  <2>1. Used \in Nat /\ got \in Nat /\ (rpc = "consume" => got <= Used)
    BY UsedIs DEF GotIsThere, TypeOK
  <2> QED
    BY <2>1 DEF Left
<1>2. Copied \in Nat /\ Used + Copied <= Size
  BY DEF Copied, CopiedFits, TypeOK
<1>3. ASSUME NEW k \in 1..(Left + Copied)
      PROVE  buff[(out + (Used - Left) + k - 1) % Size] \in Bytes
  <2>1. out + (Used - Left) + k - 1 \in Int
    BY <1>1, <1>2 DEF TypeOK
  <2>2. (out + (Used - Left) + k - 1) % Size \in Cells
    BY <2>1, ModDiv DEF Cells
  <2> QED
    BY <2>2 DEF TypeOK
<1>4. InLog \in [1..(Left + Copied) -> Bytes]
  BY <1>3 DEF InLog
<1> QED
  BY <1>1, <1>2, <1>4, FunctionIsSequence

LEMMA InLogIsNext ==
  IInv' => (InLog \in [1..(Left + Copied) -> Bytes] /\ Used + Copied <= Size)'
<1>1. IInv => InLog \in [1..(Left + Copied) -> Bytes] /\ Used + Copied <= Size
  BY InLogIs
<1> QED
  BY <1>1, PTL

(* The byte at place k of the log is in the ring.                          *)
LEMMA InLogAt ==
  ASSUME IInv, NEW k \in 1..(Left + Copied)
  PROVE  /\ (Used - Left) + k - 1 \in 0..(Size - 1)
         /\ InLog[k] = buff[(out + (Used - Left) + k - 1) % Size]
<1>1. (Used - Left) + k - 1 \in 0..(Size - 1)
  BY InLogIs, UsedIs DEF IInv
<1> QED
  BY <1>1 DEF InLog
-----------------------------------------------------------------------------
LEMMA FormatMaps ==
  ASSUME IInv, IInv', NEW w \in Writers, Format(w)
  PROVE  Fifo!Write
<1>1. /\ wpc[w] = "idle" /\ UNCHANGED <<holder, buff, in, out, sem, outBuff, got, rpc>>
  BY DEF Format, Goto, reader
<1>2. PICK n : len' = [len EXCEPT ![w] = n]
  BY DEF Format
<1>3. Copied' = Copied
  BY <1>1, <1>2 DEF IInv, Copied, HolderHasCopied, TypeOK
<1>4. InLog' = InLog /\ InHand' = InHand
  BY <1>1, <1>3 DEF InLog, InHand, Left, Used
<1>5. fmt' \in [0..(BuffSize - 1) -> Bytes]
  BY DEF IInv, TypeOK, BuffCells
<1> QED
  BY <1>4, <1>5 DEF Fifo!Write

LEMMA CopyMaps ==
  ASSUME IInv, IInv', NEW w \in Writers, Copy(w)
  PROVE  Fifo!Put \/ UNCHANGED Fifo!vars
<1> DEFINE n == FIFO_MIN(len[w], Room)
<1>1. /\ holder = None /\ holder' = w /\ len' = [len EXCEPT ![w] = n]
      /\ UNCHANGED <<fmt, in, out, sem, outBuff, got, rpc>>
      /\ buff' = [c \in Cells |-> IF (c - in) % Size < n THEN fmt[(c - in) % Size] ELSE buff[c]]
  BY DEF Copy, Goto, reader
<1>2. n \in 0..BuffSize
  BY RoomIs, UsedIs DEF IInv, TypeOK, FIFO_MIN, WakeupsSuffice
<1> HIDE DEF n
<1>3. Copied = 0 /\ Copied' = n /\ Used' = Used /\ Left' = Left
  BY <1>1 DEF IInv, TypeOK, Copied, Used, Left
<1>4. InHand' = InHand
  BY <1>1 DEF InHand
<1>5. /\ Left \in Nat /\ Used \in Nat /\ Used - Left \in Nat /\ Used + n <= Size
      /\ InLog \in [1..Left -> Bytes] /\ Len(InLog) = Left
      /\ InLog' \in [1..(Left + n) -> Bytes]
  <2>1. /\ InLog' \in [1..(Left' + Copied') -> Bytes] /\ Used' + Copied' <= Size
    BY InLogIsNext
  <2> QED
    BY <1>2, <1>3, <2>1, InLogIs, UsedIs DEF IInv
<1>6. ASSUME NEW k \in 1..(Left + n)
      PROVE  InLog'[k] = IF k <= Left THEN InLog[k] ELSE fmt[k - Left - 1]
  <2> DEFINE p == (Used - Left) + k - 1
             c == (out + p) % Size
             f == (c - in) % Size
  <2>1. p \in 0..(Size - 1)
    BY <1>2, <1>5
  <2>2. out + (Used - Left) + k - 1 = out + p /\ out + p \in Int
    BY <1>5 DEF IInv, TypeOK
  <2>3. c \in Cells
    BY <2>2, ModDiv DEF Cells
  <2>4. f = IF p < Used THEN p - Used + Size ELSE p - Used
    BY <2>1, CellFromIn DEF IInv, WakeupsSuffice
  <2>5. InLog'[k] = buff'[c]
    <3>1. InLog'[k] = buff'[(out' + (Used' - Left') + k - 1) % Size]
      BY <1>2, <1>3, <1>5 DEF InLog
    <3> QED
      BY <1>1, <1>3, <2>2, <3>1
  <2>6. buff'[c] = IF f < n THEN fmt[f] ELSE buff[c]
    BY <1>1, <2>3
  <2>7. CASE k <= Left
    <3>1. ~(f < n)
      <4> HIDE DEF f
      <4>1. p < Used
        BY <1>5, <2>7
      <4>2. f = p - Used + Size /\ p - Used + Size >= n
        BY <1>2, <1>5, <2>1, <2>4, <4>1
      <4> HIDE DEF p
      <4> QED
        BY <1>2, <1>5, <2>1, <4>2
    <3>2. InLog[k] = buff[c]
      <4>1. k \in 1..(Left + Copied)
        BY <1>3, <1>5, <2>7
      <4> QED
        BY <2>2, <4>1, InLogAt
    <3> QED
      BY <2>5, <2>6, <2>7, <3>1, <3>2
  <2>8. CASE k > Left
    <3>1. f = k - Left - 1 /\ f < n
      <4> HIDE DEF f
      <4> QED
        BY <1>2, <1>5, <2>4, <2>8
    <3>2. ~(k <= Left)
      BY <1>5, <2>8
    <3> QED
      BY <2>5, <2>6, <3>1, <3>2
  <2> QED
    BY <1>5, <2>7, <2>8
<1>7. CASE n = 0
  <2>1. InLog' = InLog
    BY <1>5, <1>6, <1>7
  <2> QED
    BY <1>1, <1>4, <2>1 DEF Fifo!vars
<1>8. CASE n # 0
  <2> DEFINE piece == [k \in 1..n |-> fmt[k - 1]]
  <2>1. piece \in [1..n -> Bytes]
    BY <1>2 DEF IInv, TypeOK, BuffCells
  <2>2. \A k \in 1..Left : InLog'[k] = InLog[k]
    BY <1>2, <1>5, <1>6
  <2>3. \A k \in 1..n : InLog'[Left + k] = piece[k]
    <3> SUFFICES ASSUME NEW k \in 1..n PROVE InLog'[Left + k] = fmt[k - 1]
      OBVIOUS
    <3>1. Left + k \in 1..(Left + n) /\ ~(Left + k <= Left) /\ (Left + k) - Left - 1 = k - 1
      BY <1>2, <1>5
    <3> QED
      BY <1>6, <3>1
  <2>4. InLog' = InLog \o piece
    <3> DEFINE f == InLog
               h == InLog'
    <3>1. n \in Nat /\ Left \in Nat
      BY <1>2, <1>5
    <3>2. /\ f \in Seq(Bytes) /\ Len(f) = Left /\ piece \in Seq(Bytes) /\ Len(piece) = n
          /\ h \in Seq(Bytes) /\ Len(h) = Left + n
      <4> HIDE DEF piece
      <4> QED
        BY <1>5, <2>1, <3>1, FunctionIsSequence
    <3>3. /\ Len(h) = Len(f) + Len(piece)
          /\ \A k \in 1..Len(f) : h[k] = f[k]
          /\ \A k \in 1..Len(piece) : h[Len(f) + k] = piece[k]
      <4> HIDE DEF piece
      <4> QED
        BY <2>2, <2>3, <3>2
    <3>4. h = f \o piece
      <4> HIDE DEF f, h, piece
      <4> QED
        BY <3>2, <3>3, Appended
    <3> QED
      BY <3>4
  <2>5. n \in 1..BuffSize /\ Len(InLog) + n <= Size
    BY <1>2, <1>5, <1>8
  <2> QED
    BY <1>1, <1>4, <2>4, <2>5 DEF Fifo!Put
<1> QED
  BY <1>7, <1>8

LEMMA PublishMaps ==
  ASSUME IInv, NEW w \in Writers, Publish(w)
  PROVE  UNCHANGED Fifo!vars
<1>1. /\ wpc[w] = "copied" /\ holder' = None /\ in' = (in + len[w]) % Range32
      /\ UNCHANGED <<fmt, len, buff, out, sem, outBuff, got, rpc>>
  BY DEF Publish, Goto, reader
<1>2. holder = w /\ holder # None /\ len[w] \in Nat
  BY <1>1 DEF IInv, TypeOK, HolderHasCopied
<1>3. Copied = len[w] /\ Copied' = 0
  BY <1>1, <1>2 DEF Copied
<1>4. Used' = Used + len[w]
  BY <1>1, <1>2, <1>3, InMoves DEF IInv, CopiedFits
<1>5. Left \in Nat /\ Used - Left \in Nat /\ Used \in Nat
  BY InLogIs, UsedIs DEF IInv
<1>6. Left' = Left + len[w]
  BY <1>1, <1>2, <1>4, <1>5 DEF Left, IInv, TypeOK
<1>7. Left' + Copied' = Left + Copied /\ Used' - Left' = Used - Left
  BY <1>2, <1>3, <1>4, <1>5, <1>6
<1>8. InLog' = InLog
  BY <1>1, <1>7 DEF InLog
<1> QED
  BY <1>1, <1>8 DEF InHand, Fifo!vars

LEMMA PostMaps ==
  ASSUME IInv, NEW w \in Writers, Post(w)
  PROVE  UNCHANGED Fifo!vars
<1>1. /\ wpc[w] = "published" /\ len' = [len EXCEPT ![w] = 0]
      /\ UNCHANGED <<fmt, holder, buff, in, out, outBuff, got, rpc>>
  BY DEF Post, Goto, reader
<1>2. Copied' = Copied
  BY <1>1 DEF IInv, Copied, HolderHasCopied, TypeOK
<1> QED
  BY <1>1, <1>2 DEF InLog, InHand, Left, Used, Fifo!vars

LEMMA SemWaitMaps ==
  ASSUME IInv, SemWait \/ Interrupted
  PROVE  UNCHANGED Fifo!vars
<1>1. /\ rpc = "wait" /\ rpc' = "read"
      /\ UNCHANGED <<fmt, len, holder, buff, in, out, outBuff, got>>
  BY DEF SemWait, Interrupted, writers
<1> QED
  BY <1>1 DEF InLog, InHand, Left, Used, Copied, Fifo!vars

LEMMA ReadMaps ==
  ASSUME IInv, IInv', Read
  PROVE  Fifo!Take \/ UNCHANGED Fifo!vars
<1> DEFINE n == got'
<1>1. /\ rpc = "read" /\ rpc' = "consume" /\ got' = FIFO_MIN(BuffSize, Used)
      /\ UNCHANGED <<fmt, len, wpc, holder, buff, in, out, sem>>
      /\ outBuff' = [i \in BuffCells |-> IF i < n THEN buff[(out + i) % Size] ELSE outBuff[i]]
  BY DEF Read, writers
<1>2. n \in 0..BuffSize /\ n <= Used /\ Used \in Nat
  BY <1>1, UsedIs DEF FIFO_MIN, IInv
<1>3. Left = Used /\ Used' = Used /\ Left' = Used - n /\ Copied' = Copied /\ Copied \in Nat
  <2>1. Used' = Used /\ Copied' = Copied /\ Copied \in Nat
    BY <1>1, InLogIs DEF Used, Copied
  <2>2. Left = Used /\ Left' = Used - n
    BY <1>1, <1>2, <2>1 DEF Left
  <2> QED
    BY <2>1, <2>2
<1>4. InHand = <<>>
  BY <1>1 DEF InHand
<1>5. /\ InHand' = [k \in 1..n |-> outBuff'[k - 1]]
      /\ InHand' \in [1..n -> Bytes]
  <2>1. InHand' = [k \in 1..n |-> outBuff'[k - 1]]
    BY <1>1 DEF InHand
  <2>2. outBuff' \in [BuffCells -> Bytes]
    BY DEF IInv, TypeOK
  <2> HIDE DEF n
  <2>3. \A k \in 1..n : outBuff'[k - 1] \in Bytes
    BY <1>2, <2>2 DEF BuffCells
  <2> QED
    BY <2>1, <2>3
<1> HIDE DEF n
<1>6. /\ InLog \in [1..(Used + Copied) -> Bytes] /\ Len(InLog) = Used + Copied
      /\ InLog' \in [1..((Used + Copied) - n) -> Bytes]
  <2>1. InLog' \in [1..(Left' + Copied') -> Bytes]
    BY InLogIsNext
  <2>2. Left' + Copied' = (Used + Copied) - n
    BY <1>2, <1>3
  <2> QED
    BY <1>3, <2>1, <2>2, InLogIs
<1>7. ASSUME NEW k \in 1..(Used + Copied) PROVE InLog[k] = buff[(out + k - 1) % Size]
  <2>1. k \in 1..(Left + Copied) /\ out + (Used - Left) + k - 1 = out + k - 1
    BY <1>2, <1>3 DEF IInv, TypeOK
  <2> QED
    BY <2>1, InLogAt
<1>8. \A k \in 1..n : InHand'[k] = InLog[k]
  <2> SUFFICES ASSUME NEW k \in 1..n PROVE InHand'[k] = InLog[k]
    OBVIOUS
  <2>1. k \in 1..(Used + Copied) /\ k - 1 \in BuffCells /\ k - 1 < n /\ out + (k - 1) = out + k - 1
    BY <1>2, <1>3 DEF BuffCells, IInv, TypeOK
  <2>2. InHand'[k] = outBuff'[k - 1]
    BY <1>5
  <2>3. outBuff'[k - 1] = buff[(out + (k - 1)) % Size]
    BY <1>1, <2>1
  <2> QED
    BY <1>7, <2>1, <2>2, <2>3
<1>9. \A k \in 1..((Used + Copied) - n) : InLog'[k] = InLog[n + k]
  <2> SUFFICES ASSUME NEW k \in 1..((Used + Copied) - n) PROVE InLog'[k] = InLog[n + k]
    OBVIOUS
  <2>1. /\ n + k \in 1..(Used + Copied) /\ k \in 1..(Left' + Copied')
        /\ out' + (Used' - Left') + k - 1 = out + (n + k) - 1
    BY <1>1, <1>2, <1>3 DEF IInv, TypeOK
  <2>2. InLog'[k] = buff'[(out' + (Used' - Left') + k - 1) % Size]
    BY <2>1 DEF InLog
  <2> QED
    BY <1>1, <1>7, <2>1, <2>2
<1>10. CASE n = 0
  <2>1. InLog' = InLog
    BY <1>2, <1>3, <1>6, <1>9, <1>10
  <2>2. InHand' = <<>>
    BY <1>5, <1>10
  <2> QED
    BY <1>1, <1>4, <2>1, <2>2 DEF Fifo!vars
<1>11. CASE n # 0
  <2> DEFINE f == InLog
             g == InLog'
             h == InHand'
             t == Used + Copied
  <2>1. /\ t \in Nat /\ n \in 0..t /\ f \in [1..t -> Bytes] /\ g \in [1..(t - n) -> Bytes]
        /\ h \in [1..n -> Bytes]
        /\ \A k \in 1..n : h[k] = f[k]
        /\ \A k \in 1..(t - n) : g[k] = f[n + k]
    BY <1>2, <1>3, <1>5, <1>6, <1>8, <1>9
  <2>2. h = SubSeq(f, 1, n) /\ g = SubSeq(f, n + 1, Len(f))
    <3> HIDE DEF f, g, h, t
    <3>1. h = SubSeq(f, 1, n)
      BY <2>1, FirstPart
    <3>2. g = SubSeq(f, n + 1, Len(f))
      <4>1. f \in Seq(Bytes) /\ Len(f) = t
        BY <2>1, FunctionIsSequence
      <4>2. g \in Seq(Bytes) /\ Len(g) = t - n
        <5>1. t - n \in Nat
          BY <2>1
        <5> QED
          BY <2>1, <5>1, FunctionIsSequence
      <4>3. n \in 0..Len(f) /\ Len(g) = Len(f) - n /\ \A k \in 1..Len(g) : g[k] = f[n + k]
        BY <2>1, <4>1, <4>2
      <4> QED
        BY <4>1, <4>2, <4>3, LastPart
    <3> QED
      BY <3>1, <3>2
  <2>3. n \in 1..BuffSize /\ n <= Len(InLog)
    BY <1>2, <1>3, <1>6, <1>11
  <2> QED
    BY <1>1, <1>4, <2>2, <2>3 DEF Fifo!Take
<1> QED
  BY <1>10, <1>11

LEMMA ConsumeMaps ==
  ASSUME IInv, Consume
  PROVE  UNCHANGED Fifo!vars
<1>1. /\ rpc = "consume" /\ rpc' = "print" /\ out' = (out + got) % Range32
      /\ UNCHANGED <<fmt, len, wpc, holder, buff, in, sem, outBuff, got>>
  BY DEF Consume, writers
<1>2. got \in Nat /\ got <= Used /\ Used \in Nat /\ out \in Nat
  BY <1>1, UsedIs DEF IInv, GotIsThere, TypeOK
<1>3. Used' = Used - got
  BY <1>1, <1>2, OutMoves DEF IInv
<1>4. Copied' = Copied /\ Copied \in Nat /\ InHand' = InHand
  BY <1>1, InLogIs DEF Copied, InHand
<1>5. Left = Used - got /\ Left' = Used - got
  BY <1>1, <1>2, <1>3 DEF Left
<1>6. ASSUME NEW k \in 1..(Left + Copied)
      PROVE  (out' + (Used' - Left') + k - 1) % Size = (out + (Used - Left) + k - 1) % Size
  <2> DEFINE j == k - 1
  <2>1. (((out + got) % Range32) + j) % Size = (out + got + j) % Size
    <3>1. j \in Int
      BY <1>4, <1>5
    <3> HIDE DEF j
    <3> QED
      BY <1>2, <3>1, CellAfterOut DEF IInv
  <2>2. (out + got) % Range32 \in Nat
    BY <1>2, ModDiv, SizeIsPositive
  <2>3. out' + (Used' - Left') + k - 1 = ((out + got) % Range32) + j
    BY <1>1, <1>2, <1>3, <1>5, <2>2
  <2>4. out + (Used - Left) + k - 1 = out + got + j
    BY <1>2, <1>5
  <2> QED
    BY <2>1, <2>3, <2>4
<1>7. InLog' = InLog
  <2>1. Left' + Copied' = Left + Copied /\ buff' = buff
    BY <1>1, <1>4, <1>5
  <2> QED
    BY <1>6, <2>1 DEF InLog
<1> QED
  BY <1>1, <1>4, <1>7 DEF Fifo!vars

LEMMA PrintMaps ==
  ASSUME IInv, Output
  PROVE  Fifo!Output \/ UNCHANGED Fifo!vars
<1>1. /\ rpc = "print" /\ rpc' = "wait" /\ UNCHANGED <<fmt, len, wpc, holder, buff, in, out, sem>>
  BY DEF Output, writers
<1>2. InLog' = InLog
  BY <1>1 DEF InLog, Left, Used, Copied
<1>3. InHand' = <<>>
  BY <1>1 DEF InHand
<1> QED
  BY <1>1, <1>2, <1>3 DEF Fifo!Output, Fifo!vars

LEMMA StutterMaps == UNCHANGED vars => UNCHANGED Fifo!vars
BY DEF vars, writers, reader, InLog, InHand, Left, Used, Copied, Fifo!vars

(* Whatever the threads do, salof_fifo_write and salof_fifo_read do to the *)
(* bytes in the log what the steps of ByteFifo do to its queue: none is    *)
(* lost, repeated, reordered or overwritten before it is read.             *)
THEOREM StepsOfByteFifo == Spec => Fifo!Init /\ [][Fifo!Next]_(Fifo!vars)
<1>1. Init => Fifo!Init
  <2> SUFFICES ASSUME Init PROVE Fifo!Init
    OBVIOUS
  <2>1. IInv /\ rpc = "wait" /\ holder = None
    BY InitIInv DEF Init
  <2>2. Used = 0 /\ Left = 0 /\ Copied = 0
    BY <2>1, UsedIs DEF Init, IInv, Left, Copied
  <2>3. InLog = <<>> /\ InHand = <<>>
    BY <2>1, <2>2 DEF InLog, InHand
  <2>4. fmt \in [0..(BuffSize - 1) -> Bytes]
    BY <2>1 DEF IInv, TypeOK, BuffCells
  <2> QED
    BY <2>3, <2>4 DEF Fifo!Init
<1>2. IInv /\ IInv' /\ [Next]_vars => [Fifo!Next]_(Fifo!vars)
  <2> SUFFICES ASSUME IInv, IInv', [Next]_vars PROVE [Fifo!Next]_(Fifo!vars)
    OBVIOUS
  <2> USE DEF Fifo!Next
  <2>1. ASSUME NEW w \in Writers, Format(w) \/ WriterStep(w) PROVE [Fifo!Next]_(Fifo!vars)
    BY <2>1, FormatMaps, CopyMaps, PublishMaps, PostMaps DEF WriterStep
  <2>2. ASSUME ReaderStep \/ Interrupted PROVE [Fifo!Next]_(Fifo!vars)
    BY <2>2, SemWaitMaps, ReadMaps, ConsumeMaps, PrintMaps DEF ReaderStep
  <2>3. CASE UNCHANGED vars
    BY <2>3, StutterMaps
  <2> QED
    BY <2>1, <2>2, <2>3 DEF Next
<1> QED
  BY <1>1, <1>2, Invariance, PTL DEF Spec
=============================================================================
