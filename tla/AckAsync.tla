------------------------------ MODULE AckAsync ------------------------------
(***************************************************************************)
(* The request resender of src/src/ack_async/ack_async.c: a request that   *)
(* waits for its answer is recorded, a thread scans the records once a     *)
(* second and hands the ones whose time has come to a callback that sends  *)
(* them again, the answer unrecords them, and ack_async_exit frees them    *)
(* and ends the thread.  Nothing is locked.                                *)
(*                                                                         *)
(* Records are numbered as they are made.  They are appended to ack_list,  *)
(* so the list is the set of the records that are not freed, in the order  *)
(* of their numbers.  The walk of the thread is one step for each record,  *)
(* and two for one that is sent again; calls of the interface come between *)
(* any two steps, from other threads or from the callback.  What is inside *)
(* a step, such as the four assignments that link a record, is not split.  *)
(***************************************************************************)
EXTENDS Integers

CONSTANTS
  Msgs,        \* the pairs of cmd and msg_id
  MaxRecords,  \* bound on the number of records made
  Intervals,   \* the resend intervals asked for, in scans
  Counts       \* the numbers of resends asked for

ASSUME BoundsAssumption ==
  /\ MaxRecords \in Nat
  /\ Intervals \subseteq Nat \ {0}
  /\ Counts \subseteq Nat

VARIABLES
  ack,        \* ack_list: the ack_info of every record that is not freed
  nextId,     \* the number of the next record
  scan_time,  \* 1 while the thread is to scan, 0 to stop it, -1 when it has
  pc,         \* where ack_list_handler is
  cur,        \* the record of the walk
  nxt,        \* the one it has remembered to visit next
  exiting,    \* how far ack_async_exit has come
  disturbed   \* history: a call has freed cur or nxt in the middle of a walk

walk == <<pc, cur, nxt>>
vars == <<ack, nextId, scan_time, walk, exiting, disturbed>>

(* The last three fields are history: the resends asked for, those done,   *)
(* and the scans that have seen the record, with those its time_cnt        *)
(* claimed when it was recorded.                                           *)
Infos == [msg : Msgs, re_time : Intervals, re_num : Nat, time_cnt : Nat,
          asked : Counts, sent : Nat, scans : Nat]
list == DOMAIN ack

(* The head of the list, where a walk begins and ends.                     *)
AckList == 0
Follows(id, from) ==
  /\ id \in list /\ id > from
  /\ \A other \in list : other > from => id <= other
Successor(from) ==
  IF \E id \in list : id > from THEN CHOOSE id \in list : Follows(id, from) ELSE AckList

Init ==
  /\ ack = [id \in {} |-> 0] /\ nextId = 1
  /\ scan_time = 1
  /\ pc = "test" /\ cur = AckList /\ nxt = AckList
  /\ exiting = "no"
  /\ disturbed = FALSE
-----------------------------------------------------------------------------
(* The interface.  After ack_async_exit has begun, only the callback of    *)
(* the thread may still make a call.                                       *)
MayCall == exiting = "no" \/ pc = "resend"
Walking == pc \in {"walk", "resend"}

(* ack_list_record.  A message that is recorded already is left as it is,  *)
(* and a malloc that fails changes nothing.  The caller's time_cnt is      *)
(* copied with the rest: the first interval may have begun before, and a   *)
(* count that has reached re_time acts as one short of it, since the next  *)
(* scan expires either.                                                    *)
Record(m) ==
  /\ MayCall
  /\ nextId <= MaxRecords
  /\ \A id \in list : ack[id].msg # m
  /\ \E t \in Intervals, n \in Counts : \E begun \in 0..(t - 1) :
       ack' = [id \in list \union {nextId} |->
                 IF id = nextId THEN [msg |-> m, re_time |-> t, re_num |-> n, time_cnt |-> begun,
                                      asked |-> n, sent |-> 0, scans |-> begun]
                 ELSE ack[id]]
  /\ nextId' = nextId + 1
  /\ UNCHANGED <<scan_time, walk, exiting, disturbed>>

(* ack_cb_destroy of some records, by a call that does not know what the   *)
(* thread is doing.                                                        *)
Destroy(ids) == ack' = [id \in list \ ids |-> ack[id]]
Free(ids) ==
  /\ Destroy(ids)
  /\ disturbed' = (disturbed \/ (Walking /\ (ids \intersect {cur, nxt} # {})))
  /\ UNCHANGED <<nextId, scan_time, walk>>

(* ack_list_unrecord                                                       *)
Unrecord(m) ==
  /\ MayCall
  /\ Free({id \in list : ack[id].msg = m})
  /\ UNCHANGED exiting

(* ack_async_exit frees the records, stops the thread, and frees the       *)
(* context when the thread has answered.                                   *)
Exit ==
  /\ exiting = "no"
  /\ exiting' = "stop"
  /\ Free(list)

StopThread ==
  /\ exiting = "stop"
  /\ scan_time' = 0
  /\ exiting' = "wait"
  /\ UNCHANGED <<ack, nextId, walk, disturbed>>

ExitReturns ==
  /\ exiting = "wait"
  /\ scan_time = -1
  /\ exiting' = "done"
  /\ UNCHANGED <<ack, nextId, scan_time, walk, disturbed>>
-----------------------------------------------------------------------------
(* ack_list_handler                                                        *)

Test ==
  /\ pc = "test"
  /\ IF scan_time # 0
       THEN pc' = "sleep" /\ UNCHANGED scan_time
       ELSE pc' = "end" /\ scan_time' = -1
  /\ UNCHANGED <<ack, nextId, cur, nxt, exiting, disturbed>>

(* The sleep ends and ack_list_scan takes the first record and its         *)
(* successor.                                                              *)
Wake ==
  /\ pc = "sleep"
  /\ cur' = Successor(AckList)
  /\ nxt' = IF list = {} THEN AckList ELSE Successor(cur')
  /\ pc' = IF list = {} THEN "test" ELSE "walk"
  /\ UNCHANGED <<ack, nextId, scan_time, exiting, disturbed>>

(* Mutant of Advance: the successor is read after the record was handled.  *)
AdvanceUnsafe ==
  /\ cur' = Successor(cur)
  /\ nxt' = AckList
  /\ pc' = IF cur \notin list' THEN "broken" ELSE IF cur' = AckList THEN "test" ELSE "walk"
  /\ UNCHANGED <<nextId, scan_time, exiting, disturbed>>

(* The walk goes on to the record it has remembered, and remembers the     *)
(* successor of that one, which it reads from freed memory if the record   *)
(* has gone: undefined, and here the end.                                  *)
Advance ==
  /\ cur' = nxt
  /\ nxt' = IF nxt \in list THEN Successor(nxt) ELSE AckList
  /\ pc' = CASE nxt = AckList -> "test" [] nxt \in list -> "walk" [] OTHER -> "broken"
  /\ UNCHANGED <<nextId, scan_time, exiting, disturbed>>

(* Mutant of Expires: time_cnt is raised after the test.                   *)
ExpiresLate(id) == ack[id].time_cnt >= ack[id].re_time

(* time_expire, after time_cnt was raised.                                 *)
Expires(id) == ack[id].time_cnt + 1 >= ack[id].re_time
Exhausted(id) == ack[id].re_num <= 0

(* Mutant of NotYet: the scan is not counted.                              *)
NotYetUncounted ==
  /\ pc = "walk" /\ cur \in list
  /\ ~Expires(cur)
  /\ Advance
  /\ UNCHANGED ack

NotYet ==
  /\ pc = "walk" /\ cur \in list
  /\ ~Expires(cur)
  /\ ack' = [ack EXCEPT ![cur].time_cnt = @ + 1, ![cur].scans = @ + 1]
  /\ Advance

GiveUp ==
  /\ pc = "walk" /\ cur \in list
  /\ Expires(cur) /\ Exhausted(cur)
  /\ Destroy({cur})
  /\ Advance

Resend ==
  /\ pc = "walk" /\ cur \in list
  /\ Expires(cur) /\ ~Exhausted(cur)
  /\ ack' = [ack EXCEPT ![cur].time_cnt = 0, ![cur].scans = @ + 1, ![cur].sent = @ + 1]
  /\ pc' = "resend"
  /\ UNCHANGED <<nextId, scan_time, cur, nxt, exiting, disturbed>>

(* The callback returns 1, and the record is kept, or anything else, and   *)
(* it is freed.                                                            *)
Resent ==
  /\ pc = "resend" /\ cur \in list
  /\ \/ ack' = [ack EXCEPT ![cur].re_num = @ - 1]
     \/ Destroy({cur})
  /\ Advance

(* The record of the walk was freed, and is used.                          *)
Break ==
  /\ Walking /\ cur \notin list
  /\ pc' = "broken"
  /\ UNCHANGED <<ack, nextId, scan_time, cur, nxt, exiting, disturbed>>
-----------------------------------------------------------------------------
ThreadStep == Test \/ Wake \/ NotYet \/ GiveUp \/ Resend \/ Resent \/ Break
ExitStep == StopThread \/ ExitReturns

Next ==
  \/ \E m \in Msgs : Record(m) \/ Unrecord(m)
  \/ Exit
  \/ ExitStep
  \/ ThreadStep

Spec == Init /\ [][Next]_vars /\ WF_vars(ThreadStep) /\ WF_vars(ExitStep)
-----------------------------------------------------------------------------
(* The counts of a record never go below zero, and scan_time is one of the *)
(* three values its tests expect.                                          *)
TypeOK ==
  /\ nextId \in 1..(MaxRecords + 1)
  /\ list \subseteq 1..(nextId - 1) /\ ack \in [list -> Infos]
  /\ scan_time \in {-1, 0, 1}
  /\ pc \in {"test", "sleep", "walk", "resend", "end", "broken"}
  /\ {cur, nxt} \subseteq 0..(nextId - 1)
  /\ exiting \in {"no", "stop", "wait", "done"}
  /\ disturbed \in BOOLEAN

(* A record is handed to the callback for the k-th time at the end of k    *)
(* intervals and at most as often as was asked for, and it is given up     *)
(* only one interval after the last time ("first test the count, then      *)
(* resend", ack_async.c:169), whatever is recorded and unrecorded          *)
(* meanwhile.  The first interval is the rest of the one the record came   *)
(* with.                                                                   *)
OnSchedule ==
  [][\A id \in list :
       /\ id \in list' /\ ack'[id].sent # ack[id].sent =>
            /\ ack'[id].sent <= ack[id].asked
            /\ ack'[id].scans = ack'[id].sent * ack[id].re_time
       /\ cur = id /\ pc = "walk" /\ cur' # cur /\ id \notin list' =>
            /\ ack[id].sent = ack[id].asked
            /\ ack[id].scans + 1 = (ack[id].asked + 1) * ack[id].re_time]_vars

(* The thread uses a freed record only where a call has freed the record   *)
(* it is at, or the next one, in the middle of a walk; what it frees       *)
(* itself it does not touch again, and ack_async_exit frees the context    *)
(* only after the last use ("free after the thread has ended",             *)
(* ack_async.c:265).                                                       *)
NothingFreedIsUsed ==
  /\ pc = "broken" => disturbed
  /\ exiting = "done" => pc = "end"

(* Every record is unrecorded, refused by the callback or given up, or the *)
(* thread is stopped; and ack_async_exit returns.  Both only if the walks  *)
(* end.  A callback that records another request with an interval of one   *)
(* scan gives the walk it is called in one more record to visit            *)
(* (ack_async.c:155), and if all do the walk has no end: the records       *)
(* before it are not scanned again, and the test that would stop the       *)
(* thread (ack_async.c:194) is not reached.                                *)
WalksEnd == []<>~Walking
RecordsAndExitEnd ==
  WalksEnd =>
    /\ \A id \in 1..MaxRecords : []<>(id \notin list \/ pc \in {"end", "broken"})
    /\ []<>(exiting \notin {"stop", "wait"} \/ pc = "broken")
=============================================================================
