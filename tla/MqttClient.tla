----------------------------- MODULE MqttClient -----------------------------
(***************************************************************************)
(* The MQTT client of src/src/mqttc/mqttclient/mqttclient.c: the threads   *)
(* that call it, its own thread mqtt_yield_thread, which receives, resends *)
(* and reconnects, the list of packets that wait for an answer, the list   *)
(* of installed message handlers, and the one buffer packets are built in. *)
(*                                                                         *)
(* mqtt_write_lock is a variable, because the yield thread often works     *)
(* without it.  The lists are changed in single steps, mqtt_ack_handler_   *)
(* number is the length of the list, memory does not run out except for    *)
(* message handlers, and a packet is written whole or not at all.          *)
(* The network and the broker are the environment: a TCP connection is two *)
(* queues that may break and lose their contents, and the broker answers   *)
(* as the client expects and keeps its session across connections.         *)
(***************************************************************************)
EXTENDS Integers, Sequences, FiniteSets, SequencesExt

CONSTANTS
  Users, Yield,
  Closers,      \* the users that call mqtt_disconnect
  UpMsgs,       \* what users publish, each message once
  DownMsgs,     \* what the broker publishes to this client
  QosOf,        \* the QoS of each message
  BrokerId,     \* the packet id the broker gives each of its messages
  Topics,       \* what users subscribe to
  Objects,      \* heap blocks for message handlers
  AckMax,       \* MQTT_ACK_HANDLER_NUM_MAX
  MaxPacketId,  \* MQTT_MAX_PACKET_ID
  MaxCalls,     \* bound: packet ids used when a subscription call begins
  MaxWire,      \* bound: packets on their way in each direction
  MaxFaults,    \* bound: connections lost, ack timers run out and silent keep-alive
                \* intervals of a live connection
  None

ASSUME SetsAssumption ==
  /\ IsFiniteSet(DownMsgs)
  /\ Yield \notin Users
  /\ Closers \subseteq Users
  /\ None \notin Users \union {Yield} \union UpMsgs \union DownMsgs \union Topics \union Objects
ASSUME MessagesAssumption ==
  /\ QosOf \in [UpMsgs \union DownMsgs -> 0..2]
  /\ BrokerId \in [DownMsgs -> 1..MaxPacketId]
(* The broker gives the id of a message with QoS 2 to no other of them.    *)
ASSUME BrokerIdsAssumption ==
  \A m, n \in DownMsgs : QosOf[m] = 2 /\ QosOf[n] = 2 /\ BrokerId[m] = BrokerId[n] => m = n
ASSUME BoundsAssumption ==
  /\ AckMax \in Nat /\ MaxPacketId \in Nat \ {0} /\ MaxCalls \in Nat
  /\ MaxWire \in Nat \ {0} /\ MaxFaults \in Nat

VARIABLES
  cstate,     \* mqtt_client_state
  acks,       \* mqtt_ack_handler_list
  installed,  \* mqtt_msg_handler_list
  topicOf,    \* topicOf[o]: topic_filter of heap block o, None when it is free
  ping,       \* mqtt_ping_outstanding # 0
  packetId,   \* mqtt_packet_id
  wlock,      \* the holder of mqtt_write_lock
  wbuf,       \* the packet in mqtt_write_buf
  pc,         \* pc[t]: where thread t is
  mine,       \* mine[t]: the packet t is about to send, or has received
  cursor,     \* the yield thread's place in the list it walks ...
  last,       \* ... and the length of that list when it began
  link,       \* the client's socket: none, connected, MQTT connected, dead
  up, down,   \* what is on its way to the broker and to the client
  rel,        \* broker: ids of QoS 2 messages received and not yet released
  out,        \* broker: how far the delivery of each of its messages is
  faults,     \* how much of MaxFaults is used up
  delivered,  \* history: how often the broker has passed on a user's message
  received,   \* history: how often a message went to mqtt_deliver_message
  accepted,   \* history: packet id of a message mqtt_publish returned success for
  garbled     \* history: a packet was sent or saved from a buffer another
              \* thread had written to

lists == <<acks, installed, topicOf>>
threads == <<pc, mine, cursor, last>>
buffer == <<wlock, wbuf>>
wires == <<up, down>>
broker == <<rel, out, delivered>>
history == <<received, accepted, garbled>>
vars == <<cstate, lists, ping, packetId, buffer, threads, link, wires, broker, faults, history>>

Threads == Users \union {Yield}
AckTypes == {"PUBACK", "PUBREC", "PUBREL", "PUBCOMP", "SUBACK", "UNSUBACK"}
SubTypes == {"SUBACK", "UNSUBACK"}

Packet(type, id, m) == [type |-> type, id |-> id, m |-> m]
Ack(type, id) == Packet(type, id, None)
Bad == Ack("BAD", 0)
PingReq == Ack("PINGREQ", 0)

(* What a thread reads from the buffer it wrote p to.                      *)
Buffered(p) == IF wbuf = p THEN p ELSE Bad

Init ==
  /\ cstate = "initialized"
  /\ acks = <<>> /\ installed = <<>>
  /\ topicOf = [o \in Objects |-> None]
  /\ ping = FALSE
  /\ packetId = 1
  /\ wlock = None /\ wbuf = Bad
  /\ pc = [t \in Threads |-> IF t = Yield THEN "none" ELSE "idle"]
  /\ mine = [t \in Threads |-> Bad]
  /\ cursor = 0 /\ last = 0
  /\ link = "none" /\ up = <<>> /\ down = <<>>
  /\ rel = {} /\ out = [m \in DownMsgs |-> "new"]
  /\ faults = 0
  /\ delivered = [m \in UpMsgs |-> 0]
  /\ received = [m \in DownMsgs |-> 0]
  /\ accepted = [m \in UpMsgs |-> 0]
  /\ garbled = FALSE
-----------------------------------------------------------------------------
(* Helpers of several operations.                                          *)

Go(t, from, to) == pc[t] = from /\ pc' = [pc EXCEPT ![t] = to]

(* mqtt_send_packet: into the connection, into a dead one unnoticed, or an *)
(* error: no connection, a dead one, or one that takes nothing in time.    *)
Sent(p) ==
  /\ \/ link \in {"tcp", "mqtt"} /\ Len(up) < MaxWire /\ up' = Append(up, p)
     \/ link = "dead" /\ UNCHANGED up
  /\ garbled' = (garbled \/ p = Bad)

NotSent ==
  /\ link \in {"none", "dead"} \/ Len(up) = MaxWire
  /\ UNCHANGED <<up, garbled>>

Fault == faults < MaxFaults /\ faults' = faults + 1

Release == link' = "none" /\ up' = <<>> /\ down' = <<>>

NextId == IF packetId = MaxPacketId THEN 1 ELSE packetId + 1

Exists(type, id) == \E i \in 1..Len(acks) : acks[i].type = type /\ acks[i].id = id

Entry(type, id, payload, handler) ==
  [type |-> type, id |-> id, payload |-> payload, handler |-> handler]

(* Mutant of Recorded: entries may repeat.                                 *)
RecordedAgain(list, e) == Append(list, e)

(* mqtt_ack_list_record and mqtt_ack_list_unrecord, on a given list, which *)
(* holds an entry once at most.                                            *)
Recorded(list, e) ==
  IF \E i \in 1..Len(list) : list[i].type = e.type /\ list[i].id = e.id
    THEN list ELSE Append(list, e)

Unrecorded(list, type, id) == RemoveFirstMatch(list, LAMBDA e : e.type = type /\ e.id = id)

Free == {o \in Objects : topicOf[o] = None}

(* mqtt_msg_handler_destory, wherever the handler is linked; of a block    *)
(* that is free already it ruins the heap.                                 *)
Destroy(o) ==
  /\ topicOf[o] # None
  /\ topicOf' = [topicOf EXCEPT ![o] = None]
  /\ installed' = RemoveFirst(installed, o)

Crash == pc' = [t \in Threads |-> "crashed"]
-----------------------------------------------------------------------------
(* mqtt_publish, mqtt_subscribe, mqtt_unsubscribe and mqtt_disconnect.     *)

(* The state is tested before the lock is asked for.                       *)
Call(u, type, m) ==
  /\ Go(u, "idle", "lock")
  /\ cstate = "connected"
  /\ packetId < MaxCalls
  /\ mine' = [mine EXCEPT ![u] = Packet(type, 0, m)]
  /\ UNCHANGED <<cstate, lists, ping, packetId, buffer, cursor, last, link, wires, broker,
                 faults, history>>

CallPublish(u, m) ==
  /\ accepted[m] = 0 /\ \A t \in Users : mine[t].m # m
  /\ Call(u, "PUBLISH", m)

CallSubscribe(u, t) == Call(u, "SUBSCRIBE", t)

CallUnsubscribe(u, t) == Call(u, "UNSUBSCRIBE", t)

(* mqtt_disconnect does not look at the state.                             *)
CallDisconnect(u) ==
  /\ u \in Closers
  /\ pc[Yield] \notin {"none", "ended"}
  /\ Go(u, "idle", "lock")
  /\ mine' = [mine EXCEPT ![u] = Ack("DISCONNECT", 0)]
  /\ UNCHANGED <<cstate, lists, ping, packetId, buffer, cursor, last, link, wires, broker,
                 faults, history>>

Return(u) == pc' = [pc EXCEPT ![u] = "idle"] /\ mine' = [mine EXCEPT ![u] = Bad]

HasId(p) == \/ p.type \in {"SUBSCRIBE", "UNSUBSCRIBE"}
            \/ p.type = "PUBLISH" /\ QosOf[p.m] > 0

(* Take the lock, then a packet id, and build the packet in the buffer;    *)
(* mqtt_publish gives up when the ack list is full.                        *)
Serialize(u) ==
  /\ pc[u] = "lock" /\ wlock = None
  /\ IF mine[u].type = "PUBLISH" /\ HasId(mine[u]) /\ Len(acks) >= AckMax
       THEN /\ pc' = [pc EXCEPT ![u] = "toomuch"]
            /\ UNCHANGED <<mine, buffer, packetId>>
       ELSE LET p == IF HasId(mine[u]) THEN [mine[u] EXCEPT !.id = NextId] ELSE mine[u]
            IN  /\ pc' = [pc EXCEPT ![u] = "send"]
                /\ mine' = [mine EXCEPT ![u] = p]
                /\ packetId' = IF HasId(p) THEN NextId ELSE packetId
                /\ wbuf' = p
                /\ wlock' = u
  /\ UNCHANGED <<cstate, lists, ping, cursor, last, link, wires, broker, faults, history>>

(* The end of mqtt_publish when the list is full: drop the connection and  *)
(* declare the client disconnected, whatever state it is in by now.  The   *)
(* two assignments (mqttclient.c:1552, 1555) are one step.                 *)
TooMuch(u) ==
  /\ pc[u] = "toomuch"
  /\ Return(u)
  /\ Release
  /\ cstate' = "disconnected"
  /\ UNCHANGED <<lists, ping, packetId, buffer, cursor, last, broker, faults, history>>

(* mqtt_send_packet of the buffer, under the lock.                         *)
Send(u) ==
  /\ pc[u] = "send"
  /\ \/ /\ Sent(Buffered(mine[u]))
        /\ pc' = [pc EXCEPT ![u] = IF mine[u].type = "DISCONNECT" THEN "clean" ELSE "record"]
        /\ wlock' = IF mine[u].type = "DISCONNECT" THEN None ELSE u
        /\ UNCHANGED mine
     \/ /\ NotSent
        /\ IF mine[u].type = "DISCONNECT"
             THEN pc' = [pc EXCEPT ![u] = "clean"] /\ UNCHANGED mine
             ELSE Return(u)
        /\ wlock' = None
  /\ UNCHANGED <<cstate, lists, ping, packetId, wbuf, cursor, last, link, down, broker, faults,
                 received, accepted>>

(* After the packet is out: record what is waited for, and save the packet *)
(* as it is in the buffer now (of a subscription it is never used again).  *)
(* A subscription gets a handler of its own, an unsubscription the first   *)
(* installed handler of the topic.                                         *)
RecordPublish(u) ==
  LET p == mine[u]
      e == Entry(IF QosOf[p.m] = 1 THEN "PUBACK" ELSE "PUBREC", p.id, Buffered(p), None)
  IN
  /\ pc[u] = "record" /\ p.type = "PUBLISH"
  /\ acks' = IF HasId(p) THEN Recorded(acks, e) ELSE acks
  /\ garbled' = (garbled \/ (HasId(p) /\ Buffered(p) = Bad))
  /\ accepted' = IF HasId(p) /\ ~Exists(e.type, p.id)
                   THEN [accepted EXCEPT ![p.m] = p.id] ELSE accepted
  /\ Return(u)
  /\ wlock' = None
  /\ UNCHANGED <<cstate, installed, topicOf, ping, packetId, wbuf, cursor, last, link, wires,
                 broker, faults, received>>

RecordSubscribe(u) ==
  /\ pc[u] = "record" /\ mine[u].type = "SUBSCRIBE"
  /\ IF Free = {} THEN UNCHANGED <<acks, topicOf>> ELSE
       \E o \in Free :
         /\ topicOf' = [topicOf EXCEPT ![o] = mine[u].m]
         /\ acks' = Recorded(acks, Entry("SUBACK", mine[u].id, mine[u], o))
  /\ Return(u)
  /\ wlock' = None
  /\ UNCHANGED <<cstate, installed, ping, packetId, wbuf, cursor, last, link, wires, broker,
                 faults, history>>

HandlersOf(t) == {i \in 1..Len(installed) : topicOf[installed[i]] = t}

RecordUnsubscribe(u) ==
  /\ pc[u] = "record" /\ mine[u].type = "UNSUBSCRIBE"
  /\ LET found == HandlersOf(mine[u].m)
     IN  acks' = IF found = {} THEN acks
                 ELSE Recorded(acks, Entry("UNSUBACK", mine[u].id, mine[u], installed[Min(found)]))
  /\ Return(u)
  /\ wlock' = None
  /\ UNCHANGED <<cstate, installed, topicOf, ping, packetId, wbuf, cursor, last, link, wires,
                 broker, faults, history>>

(* The last line of mqtt_disconnect; its caller makes no further call.     *)
SetCleanSession(u) ==
  /\ Go(u, "clean", "closed")
  /\ cstate' = "clean_session"
  /\ UNCHANGED <<lists, ping, packetId, buffer, mine, cursor, last, link, wires, broker, faults, history>>
-----------------------------------------------------------------------------
(* mqtt_connect: the first time by a user, then by the yield thread.       *)

(* network_connect succeeds; when it fails nothing changes.                *)
Connect(t) ==
  /\ \/ /\ t \in Users /\ \A x \in Users : pc[x] = "idle"
        /\ pc[Yield] = "none" /\ cstate = "initialized"
        /\ Go(t, "idle", "conlock")
     \/ /\ t = Yield
        /\ cstate \notin {"connected", "clean_session"}
        /\ Go(t, "loop", "conlock")
  /\ link' = "tcp" /\ up' = <<>> /\ down' = <<>>
  /\ UNCHANGED <<cstate, lists, ping, packetId, buffer, mine, cursor, last, broker, faults, history>>

SendConnect(t) ==
  /\ pc[t] = "conlock" /\ wlock = None
  /\ wbuf' = Ack("CONNECT", 0)
  /\ \/ Sent(Ack("CONNECT", 0)) /\ wlock' = t /\ Go(t, "conlock", "connack")
     \/ NotSent /\ UNCHANGED wlock /\ Go(t, "conlock", "confail")
  /\ UNCHANGED <<cstate, lists, ping, packetId, mine, cursor, last, link, down, broker, faults,
                 received, accepted>>

(* mqtt_wait_packet holds the lock while it waits for CONNACK.             *)
WaitConnack(t) ==
  /\ pc[t] = "connack"
  /\ \/ /\ down # <<>> /\ Head(down).type = "CONNACK"
        /\ down' = Tail(down)
        /\ Go(t, "connack", "conok")
     \/ /\ link \in {"none", "dead"}
        /\ Go(t, "connack", "confail")
        /\ UNCHANGED down
  /\ wlock' = None
  /\ UNCHANGED <<cstate, lists, ping, packetId, wbuf, mine, cursor, last, link, up, broker, faults,
                 history>>

(* The state is set after the lock is given back, over whatever            *)
(* mqtt_disconnect has set in the meantime.                                *)
Connected(t) ==
  /\ pc[t] = "conok"
  /\ cstate' = "connected"
  /\ ping' = FALSE
  /\ IF t = Yield THEN pc' = [pc EXCEPT ![t] = "resub"]
                  ELSE pc' = [pc EXCEPT ![t] = "idle", ![Yield] = "loop"]
  /\ cursor' = 1 /\ last' = 0
  /\ UNCHANGED <<lists, packetId, buffer, mine, link, wires, broker, faults, history>>

ConnectFailed(t) ==
  /\ Go(t, "confail", IF t = Yield THEN "loop" ELSE "idle")
  /\ Release
  /\ cstate' = "initialized"
  /\ UNCHANGED <<lists, ping, packetId, buffer, mine, cursor, last, broker, faults, history>>
-----------------------------------------------------------------------------
(* mqtt_yield and what it calls, one step of the yield thread at a time.   *)

Y(from, to) == Go(Yield, from, to)

(* After a reconnection: mqtt_try_resubscribe, a full mqtt_subscribe for   *)
(* each installed handler.                                                 *)
Resubscribe ==
  LET p == Packet("SUBSCRIBE", NextId, topicOf[installed[cursor]]) IN
  /\ pc[Yield] = "resub" /\ cursor <= Len(installed)
  /\ cursor' = cursor + 1
  /\ \/ /\ cstate # "connected"
        /\ UNCHANGED <<acks, topicOf, packetId, wbuf, up, garbled>>
     \/ /\ cstate = "connected" /\ wlock = None
        /\ packetId' = NextId
        /\ wbuf' = p
        /\ \/ /\ Sent(p)
              /\ IF Free = {} THEN UNCHANGED <<acks, topicOf>> ELSE
                   \E o \in Free : /\ topicOf' = [topicOf EXCEPT ![o] = p.m]
                                   /\ acks' = Recorded(acks, Entry("SUBACK", p.id, p, o))
           \/ NotSent /\ UNCHANGED <<acks, topicOf>>
  /\ UNCHANGED <<cstate, installed, ping, wlock, pc, mine, last, link, down, broker, faults,
                 received, accepted>>

(* Mutant of ResubscribeDone: nothing is sent again after a reconnection.  *)
ResubscribeDoneNoScan ==
  /\ Y("resub", "loop")
  /\ cursor > Len(installed)
  /\ cursor' = 1 /\ last' = Len(acks)
  /\ UNCHANGED <<cstate, lists, ping, packetId, buffer, mine, link, wires, broker, faults, history>>

(* ... then mqtt_ack_list_scan(c, 0) over every entry.                     *)
ResubscribeDone ==
  /\ Y("resub", IF acks # <<>> /\ cstate = "connected" THEN "scanall" ELSE "loop")
  /\ cursor > Len(installed)
  /\ cursor' = 1 /\ last' = Len(acks)
  /\ UNCHANGED <<cstate, lists, ping, packetId, buffer, mine, link, wires, broker, faults, history>>

(* Mutant of Resend: an entry is sent again once only.                     *)
ResendOnce(e) ==
  /\ e.type \notin SubTypes
  /\ wlock = None
  /\ wbuf' = e.payload
  /\ Sent(e.payload) \/ NotSent
  /\ acks' = RemoveFirst(acks, e)
  /\ UNCHANGED <<installed, topicOf>>

(* mqtt_ack_handler_resend: an entry that belongs to a publication goes    *)
(* out again and stays.                                                    *)
Resend(e) ==
  /\ e.type \notin SubTypes
  /\ wlock = None
  /\ wbuf' = e.payload
  /\ Sent(e.payload) \/ NotSent
  /\ UNCHANGED <<acks, installed, topicOf>>

(* Any other entry is dropped, and its handler with it.                    *)
Expire(i) ==
  /\ acks[i].type \in SubTypes
  /\ Destroy(acks[i].handler)
  /\ acks' = RemoveAt(acks, i)
  /\ UNCHANGED <<wbuf, up, garbled>>

(* An entry appended during the walk may or may not be visited.            *)
ScanAll ==
  /\ pc[Yield] = "scanall" /\ cursor <= Len(acks)
  /\ \/ Resend(acks[cursor]) /\ cursor' = cursor + 1 /\ UNCHANGED <<pc, last>>
     \/ Expire(cursor) /\ last' = last - 1 /\ UNCHANGED <<pc, cursor>>
     \/ /\ acks[cursor].type \in SubTypes /\ topicOf[acks[cursor].handler] = None
        /\ Crash
        /\ UNCHANGED <<lists, wbuf, up, garbled, cursor, last>>
  /\ UNCHANGED <<cstate, ping, packetId, wlock, mine, link, down, broker, faults, received, accepted>>

ScanAllDone ==
  /\ Y("scanall", "loop")
  /\ cursor > last
  /\ cursor' = 0 /\ last' = 0
  /\ UNCHANGED <<cstate, lists, ping, packetId, buffer, mine, link, wires, broker, faults, history>>

(* mqtt_ack_list_scan(c, 1): the timer of some entry has run out, or of    *)
(* none; several expired entries are several rounds.                       *)
Scan ==
  /\ pc[Yield] = "scan" /\ cstate = "connected"
  /\ Fault
  /\ \E i \in 1..Len(acks) :
       \/ /\ Resend(acks[i]) \/ Expire(i)
          /\ Y("scan", "loop")
       \/ /\ acks[i].type \in SubTypes /\ topicOf[acks[i].handler] = None
          /\ Crash
          /\ UNCHANGED <<lists, wbuf, up, garbled>>
  /\ UNCHANGED <<cstate, ping, packetId, wlock, mine, cursor, last, link, down, broker,
                 received, accepted>>

ScanDone ==
  /\ Y("scan", "loop")
  /\ UNCHANGED <<cstate, lists, ping, packetId, buffer, mine, cursor, last, link, wires, broker,
                 faults, history>>

(* mqtt_clean_session and the end of the thread.  It crashes when two      *)
(* entries share a handler, or one has a handler that is free already.     *)
CleanSession ==
  LET subs == {i \in 1..Len(acks) : acks[i].type \in SubTypes}
      sound == /\ \A i \in subs : topicOf[acks[i].handler] # None
               /\ \A i, j \in subs : acks[i].handler = acks[j].handler => i = j
  IN
  /\ pc[Yield] = "loop" /\ cstate = "clean_session"
  /\ acks' = <<>> /\ installed' = <<>>
  /\ topicOf' = [o \in Objects |->
                   IF \/ o \in {installed[i] : i \in 1..Len(installed)}
                      \/ o \in {acks[i].handler : i \in subs} THEN None ELSE topicOf[o]]
  /\ Release
  /\ cstate' = "invalid"
  /\ IF sound THEN Y("loop", "ended") ELSE Crash
  /\ UNCHANGED <<ping, packetId, buffer, mine, cursor, last, broker, faults, history>>

Read ==
  /\ Y("loop", "read")
  /\ cstate = "connected"
  /\ UNCHANGED <<cstate, lists, ping, packetId, buffer, mine, cursor, last, link, wires, broker,
                 faults, history>>

(* mqtt_packet_handle has read nothing.                                    *)
ReadNothing ==
  /\ Y("read", "alive")
  /\ down = <<>>
  /\ UNCHANGED <<cstate, lists, ping, packetId, buffer, mine, cursor, last, link, wires, broker,
                 faults, history>>

(* It has read p, the client being connected still.                        *)
Packs(types) ==
  /\ pc[Yield] = "read" /\ cstate = "connected"
  /\ down # <<>> /\ Head(down).type \in types
  /\ down' = Tail(down)

HandleNotConnected ==
  /\ Y("read", "loop")
  /\ cstate # "connected" /\ down # <<>>
  /\ down' = Tail(down)
  /\ ping' = (ping /\ Head(down).type # "PINGRESP")
  /\ UNCHANGED <<cstate, lists, packetId, buffer, mine, cursor, last, link, up, broker, faults,
                 history>>

HandlePubackPubcomp ==
  /\ Packs({"PUBACK", "PUBCOMP"})
  /\ acks' = Unrecorded(acks, Head(down).type, Head(down).id)
  /\ Y("read", "alive")
  /\ UNCHANGED <<cstate, installed, topicOf, ping, packetId, buffer, mine, cursor, last, link, up,
                 broker, faults, history>>

(* Mutants of HandleSuback: no look at the installed handlers; a handler   *)
(* that is not installed is not freed.                                     *)
HandleSubackTwice ==
  LET p == Head(down)
      found == {i \in 1..Len(acks) : acks[i].type = "SUBACK" /\ acks[i].id = p.id}
  IN
  /\ Packs({"SUBACK"})
  /\ acks' = Unrecorded(acks, "SUBACK", p.id)
  /\ Y("read", "alive")
  /\ \/ found = {} /\ UNCHANGED <<installed, topicOf>>
     \/ \E i \in found :
          LET o == acks[i].handler IN
          IF p.m = "refused"
            THEN Destroy(o)
            ELSE installed' = Append(installed, o) /\ UNCHANGED topicOf
  /\ UNCHANGED <<cstate, ping, packetId, buffer, mine, cursor, last, link, up, broker, faults, history>>

HandleSubackLeaks ==
  LET p == Head(down)
      found == {i \in 1..Len(acks) : acks[i].type = "SUBACK" /\ acks[i].id = p.id}
  IN
  /\ Packs({"SUBACK"})
  /\ acks' = Unrecorded(acks, "SUBACK", p.id)
  /\ Y("read", "alive")
  /\ \/ found = {} /\ UNCHANGED <<installed, topicOf>>
     \/ \E i \in found :
          LET o == acks[i].handler IN
          IF p.m = "refused" \/ HandlersOf(topicOf[o]) # {}
            THEN UNCHANGED <<installed, topicOf>>
            ELSE installed' = Append(installed, o) /\ UNCHANGED topicOf
  /\ UNCHANGED <<cstate, ping, packetId, buffer, mine, cursor, last, link, up, broker, faults, history>>

(* A handler that was freed meanwhile, by the answer to an unsubscription  *)
(* of what was in that block before, may not be used.                      *)
HandleSuback ==
  LET p == Head(down)
      found == {i \in 1..Len(acks) : acks[i].type = "SUBACK" /\ acks[i].id = p.id}
  IN
  /\ Packs({"SUBACK"})
  /\ acks' = Unrecorded(acks, "SUBACK", p.id)
  /\ \/ found = {} /\ Y("read", "alive") /\ UNCHANGED <<installed, topicOf>>
     \/ \E i \in found :
          LET o == acks[i].handler IN
          IF topicOf[o] = None
            THEN Crash /\ UNCHANGED <<installed, topicOf>>
            ELSE /\ Y("read", "alive")
                 /\ IF p.m = "refused" \/ HandlersOf(topicOf[o]) # {}
                      THEN Destroy(o)
                      ELSE installed' = Append(installed, o) /\ UNCHANGED topicOf
  /\ UNCHANGED <<cstate, ping, packetId, buffer, mine, cursor, last, link, up, broker, faults, history>>

(* Without an entry of that id the handler pointer is not initialised: it  *)
(* may be null, or something that is then freed.                           *)
HandleUnsuback ==
  LET p == Head(down)
      found == {i \in 1..Len(acks) : acks[i].type = "UNSUBACK" /\ acks[i].id = p.id}
  IN
  /\ Packs({"UNSUBACK"})
  /\ acks' = Unrecorded(acks, "UNSUBACK", p.id)
  /\ \/ found = {} /\ Y("read", "alive") /\ UNCHANGED <<installed, topicOf>>
     \/ found = {} /\ Crash /\ UNCHANGED <<installed, topicOf>>
     \/ \E i \in found :
          IF topicOf[acks[i].handler] = None
            THEN Crash /\ UNCHANGED <<installed, topicOf>>
            ELSE Destroy(acks[i].handler) /\ Y("read", "alive")
  /\ UNCHANGED <<cstate, ping, packetId, buffer, mine, cursor, last, link, up, broker, faults, history>>

Received(m) == [received EXCEPT ![m] = IF @ < 2 THEN @ + 1 ELSE @]

(* mqtt_publish_packet_handle: the answer goes out under the lock; what    *)
(* cannot be answered is not delivered.                                    *)
HandlePublish ==
  LET p == Head(down)
      answer == Ack(IF QosOf[p.m] = 1 THEN "PUBACK" ELSE "PUBREC", p.id)
  IN
  /\ Packs({"PUBLISH"})
  /\ IF QosOf[p.m] = 0
       THEN /\ Y("read", "alive")
            /\ received' = Received(p.m)
            /\ UNCHANGED <<wbuf, mine, up, garbled>>
       ELSE /\ wlock = None
            /\ wbuf' = answer
            /\ \/ /\ Sent(answer)
                  /\ Y("read", IF QosOf[p.m] = 1 THEN "alive" ELSE "record")
                  /\ received' = IF QosOf[p.m] = 1 THEN Received(p.m) ELSE received
                  /\ mine' = [mine EXCEPT ![Yield] = p]
               \/ NotSent /\ Y("read", "alive") /\ UNCHANGED <<received, mine>>
  /\ UNCHANGED <<cstate, lists, ping, packetId, wlock, cursor, last, link, broker, faults, accepted>>

(* Mutant of RecordRelease: delivered whether recorded before or not.      *)
RecordReleaseAlways ==
  LET p == mine[Yield]
      payload == Buffered(Ack("PUBREC", p.id))
  IN
  /\ Y("record", "alive")
  /\ acks' = Recorded(acks, Entry("PUBREL", p.id, payload, None))
  /\ received' = Received(p.m)
  /\ UNCHANGED garbled
  /\ mine' = [mine EXCEPT ![Yield] = Bad]
  /\ UNCHANGED <<cstate, installed, topicOf, ping, packetId, buffer, cursor, last, link, wires,
                 broker, faults, accepted>>

(* ... the PUBREL it waits for is recorded after the lock is given back,   *)
(* with the first bytes of whatever is in the buffer by then, and a QoS 2  *)
(* message is delivered when it was not recorded before.                   *)
RecordRelease ==
  LET p == mine[Yield]
      payload == Buffered(Ack("PUBREC", p.id))
  IN
  /\ Y("record", "alive")
  /\ acks' = Recorded(acks, Entry("PUBREL", p.id, payload, None))
  /\ IF Exists("PUBREL", p.id)
       THEN UNCHANGED <<received, garbled>>
       ELSE received' = Received(p.m) /\ garbled' = (garbled \/ payload = Bad)
  /\ mine' = [mine EXCEPT ![Yield] = Bad]
  /\ UNCHANGED <<cstate, installed, topicOf, ping, packetId, buffer, cursor, last, link, wires,
                 broker, faults, accepted>>

(* Mutant of HandlePubrec: PUBREC is waited for still.                     *)
HandlePubrecKeeps ==
  LET id == Head(down).id
      release == Ack("PUBREL", id)
  IN
  /\ Packs({"PUBREC"})
  /\ wlock = None
  /\ wbuf' = release
  /\ acks' = Recorded(acks, Entry("PUBCOMP", id, release, None))
  /\ IF Exists("PUBCOMP", id) THEN UNCHANGED <<up, garbled>> ELSE Sent(release) \/ NotSent
  /\ Y("read", "alive")
  /\ UNCHANGED <<cstate, installed, topicOf, ping, packetId, wlock, mine, cursor, last, link, broker,
                 faults, received, accepted>>

(* PUBREC: record PUBCOMP and send PUBREL, unless that was done already;   *)
(* in any case PUBREC is no longer waited for.                             *)
HandlePubrec ==
  LET id == Head(down).id
      release == Ack("PUBREL", id)
  IN
  /\ Packs({"PUBREC"})
  /\ wlock = None
  /\ wbuf' = release
  /\ acks' = Unrecorded(Recorded(acks, Entry("PUBCOMP", id, release, None)), "PUBREC", id)
  /\ IF Exists("PUBCOMP", id) THEN UNCHANGED <<up, garbled>> ELSE Sent(release) \/ NotSent
  /\ Y("read", "alive")
  /\ UNCHANGED <<cstate, installed, topicOf, ping, packetId, wlock, mine, cursor, last, link, broker,
                 faults, received, accepted>>

HandlePubrel ==
  LET id == Head(down).id IN
  /\ Packs({"PUBREL"})
  /\ wlock = None
  /\ wbuf' = Ack("PUBCOMP", id)
  /\ Sent(Ack("PUBCOMP", id)) \/ NotSent
  /\ acks' = Unrecorded(acks, "PUBREL", id)
  /\ Y("read", "alive")
  /\ UNCHANGED <<cstate, installed, topicOf, ping, packetId, wlock, mine, cursor, last, link, broker,
                 faults, received, accepted>>

HandlePingresp ==
  /\ Packs({"PINGRESP"})
  /\ ping' = FALSE
  /\ Y("read", "alive")
  /\ UNCHANGED <<cstate, lists, packetId, buffer, mine, cursor, last, link, up, broker, faults, history>>
-----------------------------------------------------------------------------
(* mqtt_keep_alive, after every packet and every time-out.                 *)

AliveNothingDue ==
  /\ Y("alive", IF cstate = "connected" THEN "scan" ELSE "loop")
  /\ UNCHANGED <<cstate, lists, ping, packetId, buffer, mine, cursor, last, link, wires, broker,
                 faults, history>>

(* Nothing was sent, or received, for an interval: the ping is built       *)
(* without the lock ...                                                    *)
PingDue ==
  /\ Y("alive", "ping")
  /\ cstate = "connected" /\ ~ping
  /\ IF link \in {"none", "dead"} THEN UNCHANGED faults ELSE Fault
  /\ wbuf' = PingReq
  /\ UNCHANGED <<cstate, lists, ping, packetId, wlock, mine, cursor, last, link, wires, broker,
                 history>>

(* ... and sent without it.                                                *)
SendPing ==
  /\ \/ Sent(Buffered(PingReq)) /\ Y("ping", "scan")
     \/ NotSent /\ Y("ping", "loop")
  /\ ping' = TRUE
  /\ UNCHANGED <<cstate, lists, packetId, buffer, mine, cursor, last, link, down, broker, faults,
                 received, accepted>>

(* The last ping was not answered: the connection is given up ...          *)
PingUnanswered ==
  /\ Y("alive", "drop")
  /\ cstate = "connected" /\ ping
  /\ IF link \in {"none", "dead"} THEN UNCHANGED faults ELSE Fault
  /\ Release
  /\ UNCHANGED <<cstate, lists, ping, packetId, buffer, mine, cursor, last, broker, history>>

(* ... and then the state is set, whatever it has become.                  *)
Disconnected ==
  /\ Y("drop", "loop")
  /\ cstate' = "disconnected"
  /\ UNCHANGED <<lists, ping, packetId, buffer, mine, cursor, last, link, wires, broker, faults,
                 history>>
-----------------------------------------------------------------------------
(* The environment: connections break and the broker answers.              *)

LoseLink ==
  /\ link \in {"tcp", "mqtt"} /\ Fault
  /\ link' = "dead" /\ up' = <<>> /\ down' = <<>>
  /\ UNCHANGED <<cstate, lists, ping, packetId, buffer, threads, broker, history>>

BrokerSends(ps) == down' = down \o ps

Delivered(m) == [delivered EXCEPT ![m] = IF @ < 2 THEN @ + 1 ELSE @]

(* The broker closes a connection on anything it does not understand, and  *)
(* on DISCONNECT.                                                          *)
BrokerCloses ==
  /\ link \in {"tcp", "mqtt"} /\ up # <<>>
  /\ \/ Head(up).type \in {"BAD", "DISCONNECT"}
     \/ (Head(up).type = "CONNECT") # (link = "tcp")
  /\ link' = "dead" /\ up' = <<>> /\ down' = <<>>
  /\ UNCHANGED <<cstate, lists, ping, packetId, buffer, threads, broker, faults, history>>

BrokerReads(types) ==
  /\ link = "mqtt" /\ up # <<>> /\ Head(up).type \in types
  /\ Len(down) < MaxWire
  /\ up' = Tail(up)

(* CONNACK, and then again what the last connection left unanswered.       *)
BrokerConnects ==
  LET unanswered == {m \in DownMsgs : out[m] \in {"sent", "released"}}
      again(m) == IF out[m] = "sent" THEN Packet("PUBLISH", BrokerId[m], m)
                                     ELSE Ack("PUBREL", BrokerId[m])
  IN
  /\ link = "tcp" /\ up # <<>> /\ Head(up).type = "CONNECT"
  /\ up' = Tail(up)
  /\ link' = "mqtt"
  /\ LET ms == SetToSeq(unanswered)
     IN  BrokerSends(<<Ack("CONNACK", 0)>> \o [i \in 1..Len(ms) |-> again(ms[i])])
  /\ UNCHANGED <<cstate, lists, ping, packetId, buffer, threads, broker, faults, history>>

BrokerTakesPublish ==
  LET p == Head(up) IN
  /\ BrokerReads({"PUBLISH"})
  /\ delivered' = IF QosOf[p.m] = 2 /\ p.id \in rel THEN delivered ELSE Delivered(p.m)
  /\ rel' = IF QosOf[p.m] = 2 THEN rel \union {p.id} ELSE rel
  /\ BrokerSends(CASE QosOf[p.m] = 0 -> <<>>
                   [] QosOf[p.m] = 1 -> <<Ack("PUBACK", p.id)>>
                   [] QosOf[p.m] = 2 -> <<Ack("PUBREC", p.id)>>)
  /\ UNCHANGED <<cstate, lists, ping, packetId, buffer, threads, link, out, faults, history>>

BrokerReleases ==
  /\ BrokerReads({"PUBREL"})
  /\ rel' = rel \ {Head(up).id}
  /\ BrokerSends(<<Ack("PUBCOMP", Head(up).id)>>)
  /\ UNCHANGED <<cstate, lists, ping, packetId, buffer, threads, link, out, delivered, faults, history>>

BrokerPublishes(m) ==
  /\ link = "mqtt" /\ out[m] = "new" /\ Len(down) < MaxWire
  /\ out' = [out EXCEPT ![m] = IF QosOf[m] = 0 THEN "done" ELSE "sent"]
  /\ BrokerSends(<<Packet("PUBLISH", BrokerId[m], m)>>)
  /\ UNCHANGED <<cstate, lists, ping, packetId, buffer, threads, link, up, rel, delivered, faults,
                 history>>

(* The client's answers to the broker's own messages.                      *)
BrokerTakesAck ==
  LET p == Head(up)
      ms(q, state) == {m \in DownMsgs : BrokerId[m] = p.id /\ QosOf[m] = q /\ out[m] \in state}
  IN
  /\ BrokerReads({"PUBACK", "PUBREC", "PUBCOMP"})
  /\ out' = [m \in DownMsgs |->
       IF \/ p.type = "PUBACK" /\ m \in ms(1, {"sent"})
          \/ p.type = "PUBCOMP" /\ m \in ms(2, {"released"}) THEN "done"
       ELSE IF p.type = "PUBREC" /\ m \in ms(2, {"sent"}) THEN "released" ELSE out[m]]
  /\ BrokerSends(IF p.type = "PUBREC" THEN <<Ack("PUBREL", p.id)>> ELSE <<>>)
  /\ UNCHANGED <<cstate, lists, ping, packetId, buffer, threads, link, rel, delivered, faults, history>>

BrokerAnswers ==
  LET p == Head(up) IN
  /\ BrokerReads({"SUBSCRIBE", "UNSUBSCRIBE", "PINGREQ"})
  /\ CASE p.type = "SUBSCRIBE" ->
            \E r \in {"granted", "refused"} : BrokerSends(<<Packet("SUBACK", p.id, r)>>)
       [] p.type = "UNSUBSCRIBE" -> BrokerSends(<<Ack("UNSUBACK", p.id)>>)
       [] p.type = "PINGREQ" -> BrokerSends(<<Ack("PINGRESP", 0)>>)
  /\ UNCHANGED <<cstate, lists, ping, packetId, buffer, threads, link, broker, faults, history>>
-----------------------------------------------------------------------------
UserStep(u) ==
  \/ Serialize(u) \/ TooMuch(u) \/ Send(u)
  \/ RecordPublish(u) \/ RecordSubscribe(u) \/ RecordUnsubscribe(u) \/ SetCleanSession(u)

ConnectStep(t) == SendConnect(t) \/ WaitConnack(t) \/ Connected(t) \/ ConnectFailed(t)

YieldStep ==
  \/ ConnectStep(Yield) \/ Connect(Yield)
  \/ Resubscribe \/ ResubscribeDone \/ ScanAll \/ ScanAllDone \/ Scan \/ ScanDone
  \/ CleanSession \/ Read \/ ReadNothing \/ HandleNotConnected \/ HandlePubackPubcomp
  \/ HandleSuback \/ HandleUnsuback \/ HandlePublish \/ RecordRelease \/ HandlePubrec
  \/ HandlePubrel \/ HandlePingresp
  \/ AliveNothingDue \/ PingDue \/ SendPing \/ PingUnanswered \/ Disconnected

BrokerStep ==
  \/ BrokerCloses \/ BrokerConnects \/ BrokerTakesPublish \/ BrokerReleases
  \/ BrokerTakesAck \/ BrokerAnswers

Next ==
  \/ \E u \in Users :
       \/ \E m \in UpMsgs : CallPublish(u, m)
       \/ \E t \in Topics : CallSubscribe(u, t) \/ CallUnsubscribe(u, t)
       \/ CallDisconnect(u) \/ Connect(u)
       \/ UserStep(u) \/ ConnectStep(u)
  \/ YieldStep
  \/ LoseLink
  \/ BrokerStep \/ \E m \in DownMsgs : BrokerPublishes(m)

(* The threads run, the broker answers, and a keep-alive interval that     *)
(* passes again and again without traffic is noticed.                      *)
Fairness ==
  /\ \A u \in Users : WF_vars(UserStep(u) \/ ConnectStep(u))
  /\ WF_vars(YieldStep) /\ SF_vars(PingDue) /\ SF_vars(PingUnanswered)
  /\ WF_vars(BrokerStep)

Spec == Init /\ [][Next]_vars /\ Fairness
-----------------------------------------------------------------------------
(* The ack list holds no entry twice, one that waits for SUBACK or         *)
(* UNSUBACK has a handler, and an installed handler is not freed.          *)
TypeOK ==
  /\ cstate \in {"initialized", "connected", "disconnected", "clean_session", "invalid"}
  /\ \A i \in 1..Len(acks) :
       /\ acks[i].type \in AckTypes
       /\ acks[i].type \in SubTypes <=> acks[i].handler \in Objects
       /\ \A j \in 1..Len(acks) : acks[i].type = acks[j].type /\ acks[i].id = acks[j].id => i = j
  /\ \A i \in 1..Len(installed) : topicOf[installed[i]] \in Topics
  /\ wlock \in Threads \union {None}
  /\ ping \in BOOLEAN /\ packetId \in 1..MaxPacketId
  /\ link \in {"none", "tcp", "mqtt", "dead"}
  /\ Len(up) <= MaxWire
  /\ faults <= MaxFaults

(* A QoS 2 message is passed on by the broker once at most, although it is *)
(* sent again after a time-out and after a reconnection.                   *)
PublishedOnce == \A m \in UpMsgs : QosOf[m] = 2 => delivered[m] <= 1

(* "only processes it when the qos2 message is received for the first      *)
(* time" (mqttclient.c:858).                                               *)
ReceivedOnce == \A m \in DownMsgs : QosOf[m] = 2 => received[m] <= 1

(* What mqtt_publish accepted is not forgotten: until the broker has it,   *)
(* the ack list holds it for retransmission.                               *)
AcceptedIsKept ==
  \A m \in UpMsgs :
    accepted[m] # 0 /\ delivered[m] = 0 /\ pc[Yield] \notin {"ended", "crashed"}
      => Exists("PUBACK", accepted[m]) \/ Exists("PUBREC", accepted[m])

(* ... and it arrives, if nobody disconnects, no buffer was garbled, and   *)
(* users do not for ever publish to a full ack list: each time mqtt_publish *)
(* then drops the connection the waiting messages need.                    *)
AcceptedArrives ==
  <>[](\A u \in Users : pc[u] # "toomuch") =>
    \A m \in UpMsgs :
      accepted[m] # 0 ~> \/ delivered[m] # 0 \/ garbled
                         \/ cstate = "clean_session" \/ pc[Yield] \in {"ended", "crashed"}

(* "save the data in ack handler" (mqttclient.c:402): what is saved for    *)
(* retransmission is a packet.                                             *)
SavedIsPacket == \A i \in 1..Len(acks) : acks[i].payload # Bad

(* "wait for the clean session to complete" (mqttclient.c:1337): after     *)
(* mqtt_disconnect the yield thread cleans the session.                    *)
DisconnectCompletes == cstate = "clean_session" ~> pc[Yield] \in {"ended", "crashed"}

(* One installed handler per topic, although every reconnection subscribes *)
(* to the topics of all installed handlers again.                          *)
OneHandlerPerTopic ==
  \A i, j \in 1..Len(installed) : topicOf[installed[i]] = topicOf[installed[j]] => i = j

(* No memory is lost: a handler is installed or waits for its SUBACK.      *)
NoHandlerLeaked ==
  \A o \in Objects :
    topicOf[o] # None =>
      \/ \E i \in 1..Len(installed) : installed[i] = o
      \/ \E i \in 1..Len(acks) : acks[i].handler = o
=============================================================================
