-------------------------------- MODULE Log --------------------------------
(***************************************************************************)
(* The log of src/src/mqttc/common/log: salof formats a line in a static   *)
(* buffer and writes it to a ring of bytes under a mutex, posts a          *)
(* semaphore, and salof_task, woken by it, reads the ring without the      *)
(* mutex and prints what it finds.                                         *)
(*                                                                         *)
(* in and out run freely and wrap at the width of an unsigned int.  A      *)
(* writer is split where another thread may come between: after the        *)
(* formatting, with the mutex, before in moves and before the post.  The   *)
(* reader is split before and after its copy and after out has moved.      *)
(* fifo->in and fifo->out are each read once by an operation, as the -O2   *)
(* of the Makefile compiles FIFO_MIN; formatting and copying a line are    *)
(* one step each.                                                          *)
(*                                                                         *)
(* Memory is taken to be sequentially consistent.  The code asks for less: *)
(* the bytes and in (fifo.c:87, 89), the bytes and out (fifo.c:110, 112)   *)
(* are plain accesses with no barrier between, which an ARM may reorder;   *)
(* what that would do to the reader is not in this module.                 *)
(***************************************************************************)
EXTENDS Integers, FiniteSets

CONSTANTS
  Writers,    \* the threads that log; also the letters of their texts
  Size,       \* SALOF_FIFO_SIZE
  BuffSize,   \* SALOF_BUFF_SIZE
  Range32,    \* unsigned ints wrap here, 2^32 in the code
  MaxText,    \* bound on the length of a text before it is cut
  MaxPosts,   \* bound on the count of the semaphore
  Nul, None

ASSUME SizeAssumption ==
  /\ BuffSize \in Nat /\ BuffSize > 2
  /\ Size \in Nat /\ Range32 \in Nat /\ BuffSize <= Size /\ Size < Range32
  /\ MaxText \in Nat /\ MaxPosts \in Nat
  /\ IsFiniteSet(Writers) /\ None \notin Writers

(* Size is a power of two, and so divides 2^32.                            *)
ASSUME PowerAssumption == Range32 % Size = 0

VARIABLES
  fmt,      \* _salof_format_buff
  len,      \* the bytes each writer is to write, later those that fit
  wpc,      \* where each writer is
  holder,   \* the writer that holds fifo->mutex, or None
  buff,     \* fifo->buff
  in, out,
  sem,      \* fifo->sem
  outBuff,  \* _out_buff
  got,      \* _len
  rpc       \* where salof_task is

writers == <<fmt, len, wpc, holder>>
reader == <<outBuff, got, rpc>>
vars == <<writers, buff, in, out, sem, reader>>

Bytes == Writers \union {Nul}
Cells == 0..(Size - 1)
BuffCells == 0..(BuffSize - 1)

FIFO_MIN(a, b) == IF a < b THEN a ELSE b

(* Bytes to read and bytes free, in the arithmetic of unsigned ints.       *)
Used == (in - out) % Range32
Room == (Size - in + out) % Range32

(* salof_init: the ring is empty and the task started.                     *)
Init ==
  /\ fmt = [i \in BuffCells |-> Nul] /\ len = [w \in Writers |-> 0]
  /\ wpc = [w \in Writers |-> "idle"] /\ holder = None
  /\ buff = [c \in Cells |-> Nul]
  /\ in = 0 /\ out = 0 /\ sem = 0
  /\ outBuff = [i \in BuffCells |-> Nul] /\ got = 0 /\ rpc = "wait"
-----------------------------------------------------------------------------
(* salof                                                                   *)
Goto(w, from, to) == wpc[w] = from /\ wpc' = [wpc EXCEPT ![w] = to]
Busy == {w \in Writers : wpc[w] # "idle"}

(* salof_format_nstr with a text of n letters.  It has room for one less   *)
(* than the buffer, keeps one more for the Nul, and returns the length of  *)
(* the text before it was cut.                                             *)
Format(w) ==
  /\ Goto(w, "idle", "formatted")
  /\ sem + Cardinality(Busy) < MaxPosts
  /\ \E n \in 1..MaxText :
       LET end == FIFO_MIN(n, BuffSize - 2) IN
       /\ fmt' = [i \in BuffCells |-> IF i < end THEN w ELSE IF i = end THEN Nul ELSE fmt[i]]
       /\ len' = [len EXCEPT ![w] = IF n > BuffSize THEN BuffSize - 1 ELSE n]
  /\ UNCHANGED <<holder, buff, in, out, sem, reader>>

(* Mutant of Copy: what goes over the end of the ring is not copied.       *)
CopyOnePiece(w) ==
  /\ Goto(w, "formatted", "copied")
  /\ holder = None
  /\ holder' = w
  /\ LET n == FIFO_MIN(len[w], Room) IN
     /\ len' = [len EXCEPT ![w] = n]
     /\ buff' = [c \in Cells |-> IF c >= in % Size /\ c - (in % Size) < n
                                   THEN fmt[c - (in % Size)] ELSE buff[c]]
  /\ UNCHANGED <<fmt, in, out, sem, reader>>

(* salof_fifo_write: what fits is copied from the static buffer, in two    *)
(* pieces if it goes over the end of the ring.                             *)
Copy(w) ==
  /\ Goto(w, "formatted", "copied")
  /\ holder = None
  /\ holder' = w
  /\ LET n == FIFO_MIN(len[w], Room) IN
     /\ len' = [len EXCEPT ![w] = n]
     /\ buff' = [c \in Cells |-> IF (c - in) % Size < n THEN fmt[(c - in) % Size] ELSE buff[c]]
  /\ UNCHANGED <<fmt, in, out, sem, reader>>

Publish(w) ==
  /\ Goto(w, "copied", "published")
  /\ in' = (in + len[w]) % Range32
  /\ holder' = None
  /\ UNCHANGED <<fmt, len, buff, out, sem, reader>>

(* Mutant of Post: the semaphore is binary.                                *)
PostBinary(w) ==
  /\ Goto(w, "published", "idle")
  /\ sem' = 1
  /\ len' = [len EXCEPT ![w] = 0]
  /\ UNCHANGED <<fmt, holder, buff, in, out, reader>>

(* The post comes even if nothing fitted; len is a local variable.         *)
Post(w) ==
  /\ Goto(w, "published", "idle")
  /\ sem' = sem + 1
  /\ len' = [len EXCEPT ![w] = 0]
  /\ UNCHANGED <<fmt, holder, buff, in, out, reader>>
-----------------------------------------------------------------------------
(* salof_task                                                              *)
SemWait ==
  /\ rpc = "wait" /\ sem > 0
  /\ sem' = sem - 1
  /\ rpc' = "read"
  /\ UNCHANGED <<writers, buff, in, out, outBuff, got>>

(* A signal ends sem_wait, and its result is not looked at.                *)
Interrupted ==
  /\ rpc = "wait"
  /\ rpc' = "read"
  /\ UNCHANGED <<writers, buff, in, out, sem, outBuff, got>>

(* salof_fifo_read copies to _out_buff, in two pieces over the end.        *)
Read ==
  /\ rpc = "read"
  /\ got' = FIFO_MIN(BuffSize, Used)
  /\ outBuff' = [i \in BuffCells |-> IF i < got' THEN buff[(out + i) % Size] ELSE outBuff[i]]
  /\ rpc' = "consume"
  /\ UNCHANGED <<writers, buff, in, out, sem>>

Consume ==
  /\ rpc = "consume"
  /\ out' = (out + got) % Range32
  /\ rpc' = "print"
  /\ UNCHANGED <<writers, buff, in, sem, outBuff, got>>

(* Mutant of Output: the buffer is not cleared.                             *)
OutputUncleared ==
  /\ rpc = "print"
  /\ got' = 0
  /\ rpc' = "wait"
  /\ UNCHANGED <<writers, buff, in, out, sem, outBuff>>

(* salof_handler prints up to the first Nul and clears what it was given.  *)
(* _len is not looked at again before the next read sets it.               *)
Output ==
  /\ rpc = "print"
  /\ outBuff' = [i \in BuffCells |-> IF i < got THEN Nul ELSE outBuff[i]]
  /\ got' = 0
  /\ rpc' = "wait"
  /\ UNCHANGED <<writers, buff, in, out, sem>>
-----------------------------------------------------------------------------
WriterStep(w) == Copy(w) \/ Publish(w) \/ Post(w)
ReaderStep == SemWait \/ Read \/ Consume \/ Output

Next ==
  \/ \E w \in Writers : Format(w) \/ WriterStep(w)
  \/ ReaderStep \/ Interrupted

Spec ==
  /\ Init /\ [][Next]_vars
  /\ \A w \in Writers : WF_vars(WriterStep(w))
  /\ WF_vars(ReaderStep)
-----------------------------------------------------------------------------
(* The indices stay within an unsigned int, the semaphore is never below   *)
(* zero, and no more than a buffer is read or written at once.             *)
TypeOK ==
  /\ fmt \in [BuffCells -> Bytes] /\ buff \in [Cells -> Bytes] /\ outBuff \in [BuffCells -> Bytes]
  /\ len \in [Writers -> 0..BuffSize]
  /\ wpc \in [Writers -> {"idle", "formatted", "copied", "published"}]
  /\ holder \in Writers \union {None}
  /\ in \in 0..(Range32 - 1) /\ out \in 0..(Range32 - 1)
  /\ sem \in Nat
  /\ got \in 0..BuffSize
  /\ rpc \in {"wait", "read", "consume", "print"}

(* The indices never tell more than the ring holds, however often they     *)
(* wrap, and every byte in it has a post under way: the reader that goes   *)
(* back to sleep leaves nothing behind that no wakeup is left for, though  *)
(* it takes only a buffer full at each and may be woken for nothing.       *)
Posting == {w \in Writers : wpc[w] = "published"}
Left == Used - (IF rpc = "consume" THEN got ELSE 0)
Wakeups == sem + Cardinality(Posting) + (IF rpc = "read" THEN 1 ELSE 0)
WakeupsSuffice ==
  /\ Used <= Size
  /\ Left <= BuffSize * Wakeups

(* The ring is a FIFO of bytes of which none is lost, repeated or          *)
(* overwritten before it is read, although writers and reader share no     *)
(* mutex, and all that is accepted is read in the end.                     *)
Copied == IF holder = None THEN 0 ELSE len[holder]
InLog == [k \in 1..(Left + Copied) |-> buff[(out + (Used - Left) + k - 1) % Size]]
InHand == [k \in 1..(IF rpc \in {"consume", "print"} THEN got ELSE 0) |-> outBuff[k - 1]]
Fifo == INSTANCE ByteFifo WITH
  Capacity <- Size, Chunk <- BuffSize,
  line <- fmt, queue <- InLog, chunk <- InHand
ImplementsByteFifo == Fifo!Spec

(* What send_buff gives to fputs ends where the read ended, because the    *)
(* buffer was cleared behind every line before; only a read that fills the *)
(* buffer leaves fputs without an end.                                     *)
PrintIsTerminated ==
  rpc = "print" => \A i \in BuffCells : i >= got => outBuff[i] = Nul
=============================================================================
