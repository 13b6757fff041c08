-------------------------------- MODULE Sntp --------------------------------
(***************************************************************************)
(* The SNTP client of src/src/sntpd/sntpd.c as ntpclient calls it: one     *)
(* probe is sent to the server, its answer sets the clock, and the call    *)
(* returns.  Signals are only noted by their handler and looked at by the  *)
(* loop; SIGHUP, and SIGALRM once a day, reopen the socket.                *)
(*                                                                         *)
(* A packet is the time stamp of the probe it answers and whether the      *)
(* server is synchronized.  Stamps are numbered as they are taken: no two  *)
(* probes carry the same time, though the clock is set between them.  The  *)
(* socket is connected, but the next one may get the port of the last, so  *)
(* a late answer can reach a later socket and a later call.                *)
(*                                                                         *)
(* Init, Next, Spec and TypeOK are named Ntp... here, so that SkTimer can  *)
(* be extended beside this module.                                         *)
(***************************************************************************)
EXTENDS Integers

CONSTANTS
  MaxCalls,    \* bound on the calls of ntpclient
  MaxSignals,  \* bound on the signals caught
  MaxFaults    \* bound on what the network and the kernel may do wrong

ASSUME NtpBounds == MaxCalls \in Nat /\ MaxSignals \in Nat /\ MaxFaults \in Nat

probe_count == 1

VARIABLES
  sigterm, sighup,  \* static flags, set by the handler of the signals
  usd,              \* whether the socket is open
  to,               \* the time that select will wait
  probes_sent,
  time_of_send,     \* the stamp of the last probe of this call, or 0
  place,            \* where loop is, or "idle" between calls
  net,              \* answers on their way
  stamps,           \* stamps taken so far
  clock,            \* the stamp of the answer the clock was last set by
  synced,           \* history: this call has set the clock
  hindered,         \* history: what this call could not do anything about
  calls, signals, faults

flags == <<sigterm, sighup>>
probe == <<probes_sent, time_of_send, stamps>>
ntpc == <<usd, to, probe, clock, synced>>
bounds == <<calls, signals, faults>>
ntp_vars == <<flags, ntpc, place, net, hindered, bounds>>

Stamps == 0..(MaxCalls + MaxFaults)
Packets == [org : Stamps, ok : BOOLEAN]

NtpInit ==
  /\ sigterm = FALSE /\ sighup = FALSE
  /\ usd = FALSE /\ to = "zero" /\ probes_sent = 0 /\ time_of_send = 0
  /\ place = "idle" /\ net = {} /\ stamps = 0 /\ clock = 0
  /\ synced = FALSE /\ hindered = FALSE
  /\ calls = 0 /\ signals = 0 /\ faults = 0

Fault == faults < MaxFaults /\ faults' = faults + 1
-----------------------------------------------------------------------------
(* ntpclient and run.  The flags keep what a former call has left in them. *)
Call ==
  /\ place = "idle" /\ calls < MaxCalls
  /\ calls' = calls + 1
  /\ probes_sent' = 0 /\ time_of_send' = 0 /\ to' = "zero"
  /\ synced' = FALSE /\ hindered' = sigterm
  /\ place' = "top"
  /\ UNCHANGED <<flags, usd, stamps, clock, net, signals, faults>>

(* The handlers stay installed when a call has returned.  A signal that    *)
(* comes before select is entered, or to another thread, does not          *)
(* interrupt it.                                                           *)
Signal(flag) ==
  /\ calls > 0 /\ signals < MaxSignals
  /\ signals' = signals + 1
  /\ sigterm' = (sigterm \/ flag = "term")
  /\ sighup' = (sighup \/ flag = "hup")
  /\ hindered' = (hindered \/ flag = "term")
  /\ \/ UNCHANGED place
     \/ place = "select" /\ place' = "top"
  /\ UNCHANGED <<ntpc, net, calls, faults>>

(* The end of a call, which closes the socket.                             *)
Return == place' = "idle" /\ usd' = FALSE

Terminate ==
  /\ place = "top" /\ sigterm
  /\ Return
  /\ UNCHANGED <<flags, to, probe, clock, synced, net, hindered, bounds>>

ToSelect ==
  /\ place = "top" /\ ~sigterm /\ ~sighup /\ usd
  /\ place' = "select"
  /\ UNCHANGED <<flags, ntpc, net, hindered, bounds>>

(* The socket is closed and opened again and nothing is to be waited for.  *)
(* An answer to a probe that is out will not find the new socket in time.  *)
Reopens ==
  /\ place = "top" /\ ~sigterm /\ (sighup \/ ~usd)
  /\ sighup' = FALSE
  /\ to' = "zero"
  /\ hindered' = (hindered \/ probes_sent > 0)
  /\ UNCHANGED <<sigterm, probe, clock, synced, net, calls, signals>>

SetupSocket ==
  /\ Reopens
  /\ usd' = TRUE /\ place' = "select"
  /\ UNCHANGED faults

(* The name is not resolved, or bind or connect fails: ENETDOWN, and the   *)
(* loop sleeps for a second.                                               *)
NetDown ==
  /\ Reopens /\ Fault
  /\ usd' = FALSE /\ place' = "sleep"

(* The name has no internet address, or there is no socket to be had.      *)
NoSocket ==
  /\ place = "top" /\ ~sigterm /\ (sighup \/ ~usd)
  /\ sighup' = FALSE /\ to' = "zero"
  /\ hindered' = TRUE
  /\ Fault /\ Return
  /\ UNCHANGED <<sigterm, probe, clock, synced, net, calls, signals>>

Sleep ==
  /\ place = "sleep"
  /\ place' = "top"
  /\ UNCHANGED <<flags, ntpc, net, hindered, bounds>>
-----------------------------------------------------------------------------
(* The time of select is over, or select fails and is called again.        *)

SelectFails ==
  /\ place = "select"
  /\ Fault
  /\ place' = "top"
  /\ UNCHANGED <<flags, ntpc, net, hindered, calls, signals>>

Enough == probes_sent >= probe_count
Acceptable(p) == p.ok /\ p.org = time_of_send
OnItsWay == \E p \in net : Acceptable(p)

(* Mutant of GiveUp: the answer is waited for again.                       *)
GiveUpWaits ==
  /\ place = "select" /\ Enough
  /\ IF to = "cycle" /\ OnItsWay THEN Fault ELSE UNCHANGED faults
  /\ to' = "cycle" /\ place' = "top"
  /\ UNCHANGED <<flags, usd, probe, clock, synced, net, hindered, calls, signals>>

(* After the last probe.  If its answer is on its way that is the fault of *)
(* the network, and nobody's if the server has not sent a good one.        *)
GiveUp ==
  /\ place = "select" /\ Enough
  /\ IF to = "cycle" /\ OnItsWay THEN Fault ELSE UNCHANGED faults
  /\ hindered' = (hindered \/ to = "cycle")
  /\ to' = "zero"
  /\ Return
  /\ UNCHANGED <<flags, probe, clock, synced, net, calls, signals>>

Stamp == stamps' = stamps + 1 /\ time_of_send' = stamps + 1
Again == place' = "top" /\ UNCHANGED <<flags, usd, clock, synced, hindered, calls, signals>>

(* send_packet.  The probe or its answer is lost, the server says that it  *)
(* is not synchronized, or answers.                                        *)
SendProbe ==
  /\ place = "select" /\ ~Enough
  /\ Stamp
  /\ probes_sent' = probes_sent + 1 /\ to' = "cycle"
  /\ \/ Fault /\ UNCHANGED net
     \/ Fault /\ net' = net \union {[org |-> stamps', ok |-> FALSE]}
     \/ UNCHANGED faults /\ net' = net \union {[org |-> stamps', ok |-> TRUE]}
  /\ Again

(* The probe is not sent, and sent again after MIN_INTERVAL.               *)
SendFails ==
  /\ place = "select" /\ ~Enough
  /\ Fault /\ Stamp
  /\ to' = "retry"
  /\ UNCHANGED <<probes_sent, net>>
  /\ Again
-----------------------------------------------------------------------------
(* Select has found the socket ready.                                      *)

(* A packet that the network has duplicated comes again.                   *)
Arrives(p) ==
  /\ place = "select"
  /\ p \in net
  /\ \/ net' = net \ {p} /\ UNCHANGED faults
     \/ Fault /\ UNCHANGED net

(* Mutant of Accepts: the originate stamp is not compared.                 *)
AcceptsAny(p) == p.ok

(* The checks of rfc1305print.                                             *)
Accepts(p) == Acceptable(p)

(* The end of a turn of the loop that was not continued: after the last    *)
(* probe it is the end of the call.                                        *)
EndTurn == IF Enough THEN Return ELSE place' = "top" /\ UNCHANGED usd

(* The answer sets the clock.                                              *)
Answer(p) ==
  /\ Arrives(p) /\ Accepts(p)
  /\ clock' = p.org /\ synced' = TRUE
  /\ EndTurn
  /\ UNCHANGED <<flags, to, probe, hindered, calls, signals>>

(* set_time: clock_settime fails, as it does without the privilege, and    *)
(* the answer is taken for all that.                                       *)
SetFails(p) ==
  /\ place = "select" /\ p \in net /\ Accepts(p)
  /\ Fault
  /\ net' \in {net, net \ {p}}
  /\ hindered' = TRUE
  /\ EndTurn
  /\ UNCHANGED <<flags, to, probe, clock, synced, calls, signals>>

(* Mutant of Reject: a rejected packet ends the call too.                  *)
RejectEnds(p) ==
  /\ Arrives(p) /\ ~Accepts(p)
  /\ EndTurn
  /\ UNCHANGED <<flags, to, probe, clock, synced, hindered, calls, signals>>

(* Any other packet is dropped, and the rest of the time waited for.       *)
Reject(p) ==
  /\ Arrives(p) /\ ~Accepts(p)
  /\ place' = "top"
  /\ UNCHANGED <<flags, ntpc, hindered, calls, signals>>

(* recvfrom fails, as when the port of the server is closed, or returns a  *)
(* packet of a length that no answer has.                                  *)
NoPacket ==
  /\ place = "select"
  /\ Fault
  /\ hindered' = (hindered \/ Enough)
  /\ EndTurn
  /\ UNCHANGED <<flags, to, probe, clock, synced, net, calls, signals>>
-----------------------------------------------------------------------------
LoopStep ==
  \/ Terminate \/ ToSelect \/ SetupSocket \/ NetDown \/ NoSocket \/ Sleep
  \/ SelectFails \/ GiveUp \/ SendProbe \/ SendFails \/ NoPacket
  \/ \E p \in net : Answer(p) \/ SetFails(p) \/ Reject(p)

NtpNext == Call \/ LoopStep \/ \E flag \in {"term", "hup"} : Signal(flag)

NtpSpec == NtpInit /\ [][NtpNext]_ntp_vars /\ WF_ntp_vars(LoopStep)
-----------------------------------------------------------------------------
TypeFlags ==
  /\ sigterm \in BOOLEAN /\ sighup \in BOOLEAN /\ usd \in BOOLEAN
  /\ synced \in BOOLEAN /\ hindered \in BOOLEAN

(* At most one probe in a call, whatever fails and is reopened.            *)
NtpTypeOK ==
  /\ TypeFlags
  /\ to \in {"zero", "retry", "cycle"}
  /\ probes_sent \in 0..probe_count
  /\ stamps \in Stamps /\ time_of_send \in 0..stamps /\ clock \in 0..stamps
  /\ place \in {"idle", "top", "sleep", "select"}
  /\ net \subseteq Packets
  /\ calls \in 0..MaxCalls /\ signals \in 0..MaxSignals /\ faults \in 0..MaxFaults

(* The clock is set once in a call, after its probe was sent, and by an    *)
(* answer to no older probe, though answers are late, lost and repeated    *)
(* and the port may be that of an earlier call.                            *)
SetByOwnAnswer ==
  [][clock' # clock \/ (synced' /\ ~synced) =>
       /\ ~synced
       /\ probes_sent > 0
       /\ clock' = time_of_send /\ clock' > clock]_ntp_vars

(* A call that returns without having set the clock was stopped by         *)
(* SIGTERM, had no socket, no packet or no good answer in time, or was not *)
(* allowed to set it; or a SIGHUP was noticed while its probe was out,     *)
(* which closes the socket (sntpd.c:433).  No packet that is rejected, no  *)
(* probe that could not be sent, no network that comes up late and no      *)
(* SIGHUP that is noticed before the probe is sent keeps a call from its   *)
(* purpose.  One that is caught before the probe, but after the loop has   *)
(* looked, is noticed afterwards, and does.                                *)
SyncedUnlessHindered == place = "idle" /\ calls > 0 => synced \/ hindered

(* Every call returns, once the network has stopped to go down.            *)
CallReturns == place # "idle" ~> place = "idle"
=============================================================================
