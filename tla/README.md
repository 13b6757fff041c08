# Formal models of sk_comm

sk_comm is a C library of building blocks for small Linux devices: threads and
queues, timers, event loops, message exchange between processes, an MQTT
client, NTP, logging, drawing. The modules in this directory model the parts
whose correctness depends on the order in which threads, messages and timers
act. TLC checks them on small instances; TLAPS proves the safety properties of
all nine components, and the two refinements step by step, for every instance.

Paths below are relative to the repository's `src/`.

## 1. Inventory

| part | state it keeps | operations | interacts with | what is hard |
|---|---|---|---|---|
| message queue, `src/queue/msg_que.c` | list, `len`, mutex, `cond_put`, `cond_get` | create, put, get, flush, destroy, three tests | any threads | which sleeper a signal wakes, callers that barge in, a flush under sleepers, malloc that fails after a wakeup |
| thread pool, `src/thpool/thpool.c` | job list with `rwmutex`, binary semaphore, two counters, condition, two global flags | init, add_work, wait, pause, resume, destroy | clients, workers, SIGUSR1 | a semaphore that forgets posts, counters read apart from the queue, signals that stop a worker anywhere, flags shared by all pools |
| MQTT client, `src/mqttc/mqttclient/mqttclient.c` | connection state, ack list, handler list, packet ids, one write and one read buffer | connect, publish, subscribe, unsubscribe, disconnect; the yield thread receives, resends, pings, reconnects | user threads, network, broker | loss, retransmission, late or missing answers, reconnection against the user's calls, the shared buffer |
| timers, `src/timer/sk_timer.c` | ordered list, ordered day plans, id counter | add, modify and del of four kinds; a thread that walks the list; `plan_task` | handlers that call back into the interface | handlers that change the list being walked, a clock that wraps, runs of `plan_task` that drift past the seconds around midnight |
| process messages, `src/ipc/msg_ipc.c` | four POSIX queues | put, send_sync, resp_sync, init; a receiving thread | two processes, the kernel | late answers, full queues, both sides calling, restarts |
| request resender, `src/ack_async/ack_async.c` | list of requests, `scan_time` | init, record, unrecord, exit; a scanning thread | callers, the resend callback | no lock at all: calls between any two steps of a walk, an exit that frees first and stops the thread then |
| event loop, `src/event/events.c` | list of descriptors, fd sets, `maxfd`, `done` | add_fd, del_fd, loop, start, stop, cleanup | callbacks, other threads, the kernel | callbacks that change the list being walked, sets kept beside the list, stop before start |
| log, `src/mqttc/common/log/` | ring with free-running indices, semaphore, format buffer | write, read, a writing thread | every thread that logs | writer against reader, wrap of the indices, wakeups, the shared format buffer |
| SNTP client, `src/sntpd/` | flags of the signals, socket, probe, phase-lock history | `ntpclient`: probe, checks of the answer, step or slew | network, signals, kernel clock | late and repeated answers, signals between any two steps, a network that comes up late |
| dynamic array, `src/utils/darray.c` | `elms`, `size`, `capacity` | push, insert, remove, sort | one caller | boundaries |
| stateless parts: MQTT codec, network and TLS glue, calendar and NTP query (`src/time`), shared memory, drawing, unicode, crypto, uart and system helpers | none, or that of the C library and the kernel | conversions and wrappers | | lengths and formats |

`PROJECT.json` lists every part with its status, and the hazards at the lines
where they bite.

What makes each part correct:

* message queue: first in first out, each message to one consumer, never more
  than `len_max`; nobody sleeps beside what he waits for;
* thread pool: each job is run; `thpool_wait` returns when, and only when, all
  work is done; `thpool_destroy` frees nothing a worker still uses;
* MQTT client: QoS 1 and 2 messages that were accepted arrive, QoS 2 once; one
  handler per topic and none lost; a disconnect ends the session;
* timers: never early, not late, a day plan once every day;
* process messages: an answer belongs to its request, accepted messages are
  handled, a call returns;
* request resender: the resends come at the times and in the number asked for,
  none after the answer, no use of a freed entry, exit returns;
* event loop: a callback for each ready descriptor, none for a deleted one; the
  sets of select agree with the list; a stop stops;
* log: what is taken from a line comes out once, in order, terminated, and
  without waiting for the next line;
* SNTP client: the clock is set only by the answer to the probe of this call; a
  call returns, and has set the clock unless something beyond it stood in the
  way.

## 2. Modules

| module | models | proved |
|---|---|---|
| `BoundedFifo` | what `msg_que.h` promises, without threads or wakeups | |
| `MsgQue` (`MCMsgQue`, `MsgQueProofs`) | `msg_que.c`; implements `BoundedFifo` | types, counter, wakeups, refinement |
| `ThPool` (`MCThPool`, `ThPoolProofs`) | `thpool.c`, any number of pools | types and five safety properties |
| `MqttClient` (`MCMqttClient`, `MqttClientProofs`) | `mqttclient.c` with network and broker as environment | types and five safety properties, three of them while packet ids last |
| `SkTimer` (`MCSkTimer`, `TimeProofs`) | `sk_timer.c` | types and five safety properties, four of the six while the clock does not wrap |
| `MsgIpc` (`MCMsgIpc`, `MsgIpcProofs`) | `msg_ipc.c`, two processes | types, both safety properties |
| `AckAsync` (`MCAckAsync`, `AckAsyncProofs`) | `ack_async.c` | types, both safety properties |
| `Events` (`MCEvents`, `EventsProofs`) | `events.c` with the kernel's descriptors as environment | types, both safety properties |
| `ByteFifo` | what the log promises: bytes in, bytes out | |
| `Log` (`MCLog`, `LogProofs`) | `salof.c`, `fifo.c`; implements `ByteFifo` | types, both invariants, the steps of the refinement |
| `Sntp` (`MCSntp`, `TimeProofs`) | `sntpd.c` as `ntpclient` calls it | types, both safety properties |

In every module the operators named "Mutant of ..." are not part of the model:
each changes one action as a plausible slip in the code would, and shows that a
property depends on what the action does.

### MsgQue

All operations run under `que->mutex` and leave it in the middle only in
`pthread_cond_wait`. A stretch under the mutex is one action: `PutInsert`,
`PutNoMemory` and `PutWait` are the three ways out of the loop body of
`msg_que_put_with_type`, `GetRemove` and `GetWait` those of the get. A sleeper
that is signalled goes back to the state before the lock and competes with
everybody else. `SpuriousWakeup` is what POSIX allows. `Flush` empties list and
counter and signals nobody. `Destroy` happens only when no thread is inside a
call, as the header asks.

Types of messages are left out: `msg_que_full_for_type` changes no state and no
function of the library calls it.

### ThPool

`keepalive` and `onHold` are the two static flags; everything else is per pool
or per worker. `wpc` follows `thread_do` line by line; `pulling` is the stretch
of `jobqueue_pull` under `rwmutex` and `unlock` the one after
`num_threads_alive--`, because other threads can see both. `PostedFrom` is
`bsem_post`: it sets the semaphore to 1, whatever it was, and wakes one sleeper.
`Deliver` runs the SIGUSR1 handler at any later step of the worker, which is
then `held` until `onHold` is cleared; as in the code, the handler itself sets
the flag. Jobs are alike, run to completion and call nothing. `BsemWait` is one
step, mutex included, so no signal stops a worker that holds `bsem->mutex`
(`thpool.c:564-571`); that one may stop inside `rwmutex` is what
`thpool_add_paused` shows.

Two premises are the caller's, not the code's. Nobody else is in a call on the
pool when `thpool_destroy` begins, or uses it afterwards, and nobody pauses it once workers leave (then
`pthread_kill` would name threads that have ended). `FlagIsOurs` in
`NoWorkerSleepsBesideJob` says that no *other* pool is destroyed meanwhile;
without it the property is false, as the instance `ThPoolTwoPools.cfg` shows.

### MqttClient

`mqtt_write_lock` is a variable because the yield thread works partly without
it; what the user's call does between lock and unlock is cut where the yield
thread can see or spoil it: `Serialize` (fills `wbuf`), `Send`,
`RecordPublish`/`RecordSubscribe`/`RecordUnsubscribe` (after the send, as in the
code). The yield thread reads one packet and handles it in the actions named
after the code's handlers; between them run keep-alive, the scan of the ack list
and the reconnection (`Connect` ... `Resubscribe` ... `ScanAll`). `wbuf` carries
the identity of the packet that is in it, so that a packet sent or saved after
somebody else has written there is noticed (`garbled`, and the payload `Bad`).
Where the code frees or uses an uninitialised or freed pointer the model stops in
`crashed`. That is met in `HandleUnsuback`, `Scan` and `CleanSession`, and in
`HandleSuback`: two unsubscriptions of a topic before the first answer share one
handler, so the second answer frees whatever lies in that block by then, which
may be the handler of a subscription whose SUBACK is on its way.

The broker keeps its session, answers every packet and has QoS 2 state of its
own. Each of its messages has one packet id (`BrokerId`), which no two of QoS 2
share (`BrokerIdsAssumption`): MQTT lets a broker use an id again only when its
handshake is over, and a later handshake under the same id is left out. The connection may break at any step and lose what is on its way in both
directions. Not modelled: partial writes, buffers too short for a packet, malloc
failures other than of message handlers, `mqtt_release`, option setters. Lines
1552 and 1555, which drop the connection of a client whose list is full, are one
step (`TooMuch`).

### SkTimer

One unit of time is a second; `Tick` is the only action that lets time pass,
while the thread sleeps or, in behaviours that are not `prompt`, while a handler
runs. A `usleep` ends at its time or later: in prompt behaviours by `Overshoot`
at most, a constant, which is 1 in the runs and stands for any fraction of a
second; in the others by any time. `plan_task` is armed for a second after its
own end (`sk_timer.c:212`), so its runs drift and two of them are up to
`Gap == PlanPeriod + Overshoot` apart. `Find` is `sk_timer_find` with its signed
difference, `CallHandler`, `HandlerReturns` and `EndWalk` are one round each of
`sk_timer_expire` with its unsigned comparison and with the successor it
remembers before the call. Handlers may call the whole interface while `pc =
"handler"`. `broken` is the walk that goes on from a freed timer. `plan_task` is
timer 0 and walks the day plans in one step.

The lists have no lock. Calls of other threads that race with the walk itself
are left out, since their outcome is undefined; so are handlers of day plans
that change the lists, a system time that is set, and ids beyond their range.

Effects of the code that are in the model and are no property, because neither
header nor comment says what should happen: a once timer moved by its own handler
is reported as moved and then freed; `sk_timer_add_day` of a time that has
passed is due at once; a walk of `sk_timer_expire` (226) need not end. Two
repeated timers whose handlers outlast each other's interval come to stand behind
each other in turn, due again whenever the walk comes by, and a timer inserted
between the one walked and the one remembered is then never called. `DueIsCalled`
therefore has the premise `WalksEnd`; within `MaxTime` every walk does end, so
the run shows what is promised under the premise and nothing about behaviours
without it.

A run of `plan_task` that skips the second before 00:00:01 leaves a plan for that
time done (117), and one that skips 23:59:59 does not meet a plan for that time
in its day. `CalledEveryDay` therefore speaks of times a `Gap` away from
midnight; that the times next to it are missed even though all is prompt is
finding 8.

### MsgIpc

Each process has a queue for what its peer sends, ordered by priority, and one
for the answers to its own requests. One call of `mq_send`, `mq_receive` or
`mq_getattr` is one step, so both flushes of `msg_ipc_send_sync` run message by
message against the peer: `CallSync` counts, `FlushOne` takes, `SendRequest`
sends or finds the queue full, `CountFull`, `DrainOne` and `Drained` are the
flush of the peer's queue after that. `TimeOut` may come at any moment of the
wait, and takes an answer that has come with it or leaves it (`mq_read_sync` is
called for either event). The receiving thread takes a message (`Receive`) and
then handles it (`Handle`); `got` is what it holds in between. A request is handed
to a thread of the application, as the comment at `msg_ipc.c:146` asks, and
`Respond` answers in any order or never. `Crash` ends a process anywhere, also
between `Receive` and `Handle`: that message is `lost`, the one end of an accepted
message beside being handled and being flushed by a sender that found the queue
full (`drained`), and `PutIsHandled` names all three. `Restart` finds the queues
as they are. One thread per
process calls the interface. `Insert` is the kernel's order of priorities: a
request goes before the first message.

### AckAsync

Records are numbered as they are made, so the list is the set of the records not
freed, in the order of their numbers. The walk of `ack_list_scan` remembers `cur`
and `nxt`, as `list_for_each_safe` does, and takes one step per record, two
(`Resend`, `Resent`) for one that is handed to the callback. Between any two
steps other threads, and within a callback the callback, may record and
unrecord. `disturbed` notes a call that frees `cur` or `nxt` in the middle of a
walk; `pc = "broken"` is the thread that goes on from a freed record, where the
code's behaviour is undefined. The fields `asked`, `sent` and `scans` of a record
are history. `Exit` frees, `StopThread` clears `scan_time`, `ExitReturns` sees
the thread's -1; no other thread calls the interface once it has begun, but the
callback may. What is inside a step, such as the four assignments that link a
record, is not split, so two calls that link at the same time are left out.

`time_cnt` is the caller's when a request is recorded (line 60): a record may
bring an interval that has begun, and counts beyond the interval act as one short
of it, which is how the model has them.

A callback that records another request with an interval of one scan gives its
walk one more record to visit. If all callbacks do, the walk (155) has no end:
earlier records are not scanned again and the test that ends the thread (194) is
not reached. `RecordsAndExitEnd` has the premise `WalksEnd`, and `MaxRecords`
makes it true of every behaviour of the run.

An exit called from the callback would wait for its own thread and never return;
`RecordsAndExitEnd` speaks of an exit by another thread, which is the only one
the model has.

### Events

The same way of numbering. `AddFd` and `DelFd` keep `watched` (the three sets of
select) and `maxfd` beside the list; `Largest` over what remains is the loop of
`events_del_fd`, whose deletion takes the last of several registrations of a
pair (`doubled` notes that there were several: a deletion then clears the bit
the other still needs). `Begin`, `Test`, `SelectTimeout`, `SelectReturns`,
`Call`, `Skip`, `CallbackReturns` and `Advance` are the loop and the dispatch.
Everything may be called between any two steps. `Open`, `Close` and `Readiness`
are the kernel's side of a descriptor.

Two callbacks that delete their registration and make it again, each time behind
the other, keep the walk (102) going for ever on one result of select; no other
descriptor is then looked at. `ReadyIsServed` has the premise `WalksEnd`, which
`MaxEntries` makes true in the run. `StopEndsLoop` needs no such premise: `done`
is tested after every callback (121), so a stop ends that walk too.

### Log and ByteFifo

A writer is split where another thread may come between: `Format` (into the
buffer all threads share), `Copy` (under the mutex), `Publish` (`in` moves, the
mutex is given back), `Post`. The reader is split into `SemWait`, `Read`,
`Consume` (`out` moves) and `Output`. `Interrupted` is `sem_wait` with EINTR,
which the code does not test. The indices run freely modulo `Range32`, 2^32 in
the code. `FIFO_MIN` evaluates its arguments twice; the build's -O2 merges the
reads, and so does the model.

Memory is sequentially consistent in the model. In the code the bytes of the ring
and the indices are plain accesses with no barrier between them (`fifo.c:87`, 89,
106, 110, 112), and the default build is for ARM, which may reorder them: that a
reader then takes bytes that are not there yet is outside of what is shown.

`ByteFifo` has the line, the bytes taken and not yet read, and the bytes read
and not yet output. The mapping takes the copied but unpublished bytes as
taken: `InLog` is what lies in the ring from `out` on, those included, and
`InHand` what the reader has read.

Two effects are in the model and are no property. All threads format in one
buffer before they take the mutex (`salof.c:66`), so what a write takes may be
another thread's text. A line that is cut contains a zero, and `fputs` drops
what follows it in the same read; a read that fills the output buffer has no
zero behind it at all.

### Sntp

One call of `ntpclient` is `Call`, turns of the loop, and `Return`. `place = "top"`
is the test of the flags, `"select"` the wait; each way out of select is an
action: `GiveUp`, `SendProbe`, `SendFails`, `SelectFails`, `Answer`, `SetFails`,
`Reject`, `NoPacket`. `SetFails` is a good answer that `clock_settime` does not
accept (`sntpd.c:85`): the call ends as after one that was set.
`Signal` sets a flag between any two steps; it interrupts select or, caught just
before or by another thread, does not. `net` holds the answers on their way;
the connected socket of a later call may get the port of an earlier one, so old
answers arrive too. `Acceptable` stands for the checks of RFC 4330 in
`rfc1305print`: a good header, and the stamp of the last probe; no two probes
have the same stamp.

`hindered` names what excuses a call that returns without having set the clock:
a signal to terminate, a socket that cannot be had, an error of select, a probe
that is out when a SIGHUP is noticed and reopens the socket (the SIGHUP may have
been caught before the probe was sent), no good answer in time, a clock that
cannot be set. Four effects are in the model
and are no property: `sigterm` is never reset, so every later call ends at once;
a SIGHUP with the probe out waits for nothing and the call ends unsynchronised,
although the message at `sntpd.c:461` speaks of a resync; a signal caught just
before select is noticed only when select ends; the alarm of every day stays
set after the call. `setup_signals` also takes SIGUSR1 from the thread pool,
which is outside either module. Not modelled: the server side, the daemon with
more probes and a goodness, the phase lock and adjtimex.

## 3. Runs

All instances are small on purpose: each bound is the least at which the
hazards of the part can still happen, as said below.

| run | instance | what it shows |
|---|---|---|
| `msgque` | 2 producers, 2 consumers, length 2, 2 messages; all may flush, malloc may fail | FIFO (refinement), no consumer asleep beside a message; no producer asleep beside room unless a flush or a failed malloc disturbed it |
| `thpool` | 1 pool, 2 workers, 2 clients, 1 of them waits; pause, resume, destroy | no lost job, `thpool_wait` neither early nor for ever (one waiter), no free before the last job |
| `thpool_add_paused` | 1 pool, 2 workers, 1 client | violation: adding to a paused pool may block |
| `mqtt_publish` | 1 user, a QoS 2 and a QoS 1 message up, a QoS 2 message down, ack list of 1, one fault | QoS 2 exactly once in both directions, accepted messages are kept and arrive |
| `mqtt_subscribe` | 1 user, 1 topic, 2 handler blocks, 1 disconnect, one fault | no handler leaked, none installed twice |
| `mqtt_disconnect` | 1 user, one fault | violation: a reconnection undoes `mqtt_disconnect` |
| `sk_timer` | `plan_task` and two more timers, 6 seconds, days of 4 seconds, usleep late by 0 or 1 | lists ordered and complete; never early, where all is prompt at most a `Gap` late; a plan away from midnight every day, none twice; what is due is called if walks end |
| `msg_ipc` | 2 asynchronous messages, 3 requests from either side, queues of 2, one crash | answers fit fresh requests; accepted messages stay queued and are handled, flushed, or lost with the process that held them; calls return |
| `ack_async` | 3 messages, 4 records, intervals of 1 and 2 scans, 0 or 2 resends | resends on schedule, no freed record used unless a call freed what the walk stands on, records and exit come to an end if walks do |
| `events` | a descriptor for reading and a larger one for both, 3 registrations | sets and `maxfd` agree with the list; deletions by callbacks are safe but for the next registration; a stop stops, and ready descriptors are served if walks end |
| `log` | 2 writers, ring of 4 bytes, buffers of 3, indices that wrap at 8 | a FIFO of bytes (refinement, with its liveness), wakeups suffice, the output buffer is zero behind what was read |
| `sntp` | 3 calls, 2 signals, 4 faults | the clock is set by the call's own answer; a call returns, and has set it unless hindered |

Type invariants that are proved are not run again (MsgQue, ThPool, MsgIpc,
AckAsync, Events, Log, Sntp), except those of MqttClient (in `mqtt_publish`) and
of SkTimer, which say more than the sorts of the variables.

Six more configurations are instances that no run above repeats, because they
are refuted; section 4 says what they show: `MsgQueFlushStrands.cfg`,
`ThPoolTwoPools.cfg`, `MqttGarbled.cfg`, `MqttIdsComeRound.cfg`,
`SkTimerWrap.cfg`, `SkTimerMidnight.cfg`, each for the MC module that begins as
its name does.

Bounds, and why they are enough to meet the hazards:

* two producers and two consumers: one that sleeps and one that barges in on
  either side; length 2 separates "one place free" from "empty";
* two workers: one that sleeps while the other holds the only post; two clients:
  one that waits or destroys while the other adds. `MaxQueued = 1` is
  tested when a call begins, so that two calls make a queue of two jobs;
* an ack list of one entry is full after one publish, so the `too much` path is
  met; one fault breaks any one connection at any step, or lets any one entry
  expire; `BrokerId` gives the broker's message an id the client uses as well; five
  calls let a handler be freed, and its block be used again, while the answer to
  a second unsubscription is still awaited;
* two timers beside `plan_task` are the walked one and the next; six seconds and
  days of four see a day from its begin to its end and two midnights, and a day
  of four leaves one time that is a `Gap` of two from midnight on either side;
  in six seconds the runs of `plan_task` drift by up to three;
* two messages fill a queue of two; three requests are a late answer, the call
  it may hit, and one of the other side; one crash loses either process;
* four records of three messages: one walked, one remembered, one behind, and
  one made again after it was unrecorded; an interval of two scans has an odd and
  an even one, two resends a first, a last and a giving up;
* three registrations of three pairs are the one in its callback, the next and
  one that has the largest descriptor or doubles another; a descriptor with two
  types keeps `maxfd` when one of them is deleted;
* a ring of four bytes and buffers of three: lines that do not fit, are copied in
  two pieces and are read in two; indices that wrap at eight wrap twice round the
  ring; texts of up to four are cut;
* three calls are one whose answer comes late, the one it may hit, and one after
  that; four faults hinder a call and its next in every pair of ways.

`MaxCalls`, `MaxWire`, `MaxFaults`, `MaxQueued`, `MaxId`, `MaxTime`,
`MaxCrashes`, `MaxRecords`, `MaxEntries`, `MaxText`, `MaxPosts` and `MaxSignals`
are the only bounds that are not in the code. `CHECK_DEADLOCK FALSE`
stands where the system may really come to rest, each time with its reason in
the `.cfg`.

### Fairness

Weak fairness of each thread's own steps is the scheduler's. Beyond that:

* `MsgQue`: consumers come back (`WF` of `CallGet`), producers and flushers need
  not. No fairness for `Signal`: which sleeper wakes is open;
* `ThPool`: strong fairness of `LockQueue` and `Push`, which wait for a mutex
  others take again and again; signals are delivered. Clients need not resume
  what they paused: the liveness properties except held workers;
* `MqttClient`: strong fairness of `PingDue` and `PingUnanswered`, which depend
  on timers that run out only while nothing else happens; the broker acts and a
  connection can be made again, since faults are bounded;
* `SkTimer`: the thread runs and time passes up to `MaxTime`;
* `MsgIpc`: threads run, the time-out of a call comes, a process that ended is
  started again. Nothing makes a handler answer;
* `AckAsync`, `Events`, `Sntp`: the one thread of the code runs, so do the steps
  of `ack_async_exit`; callbacks return. Nobody need call anything;
* `Log`: each writer and the reader run. Nobody need log.

## 4. Findings

The first two are runs whose property TLC refutes, with the text they contradict
quoted in `PROJECT.json`:

1. `thpool_add_paused`: SIGUSR1 may stop a worker that holds `rwmutex`
   (`thpool.c:267`), against `thpool.h:107`.
2. `mqtt_disconnect`: a reconnection sets CONNECTED over CLEAN_SESSION
   (`mqttclient.c:1124`).

The others are seen with the further configurations, which TLC refutes as well:

3. `MsgQueFlushStrands.cfg`: `msg_que_flush` makes room and wakes no producer
   (`msg_que.c:317`). A failed malloc in a producer that was just woken does the
   same; `NoLostPutWakeup` and `UndisturbedNotStranded` state what remains.
4. `ThPoolTwoPools.cfg`: `threads_keepalive` is shared by all pools
   (`thpool.c:233`), against the example in `thpool.h`.
5. `MqttGarbled.cfg`: the entry for PUBREL is copied from the write buffer after
   its lock was given back (`mqttclient.c:859`).
6. `MqttIdsComeRound.cfg`: `mqtt_get_next_packet_id` (`mqttclient.c:115`) does
   not look whether an id is in use. A subscription that gets the id of one that
   still waits for SUBACK is not recorded, and its handler is lost
   (`mqttclient.c:1434`). With 16 bits that takes 65534 calls while one entry
   waits.
7. `SkTimerWrap.cfg`: due times and clock are compared unsigned
   (`sk_timer.c:228`), although `sk_timer_find` takes their difference as signed.
8. `SkTimerMidnight.cfg`: a plan for 00:00:01, to which the code moves those for
   00:00:00 so that they are called (`sk_timer.c:17`), or for 23:59:59, is missed
   on a day in which the runs of `plan_task`, which drift (212, 291), skip the
   second beside it, although no handler takes time.

More limits are stated by the properties themselves. One signal of
`threads_all_idle` is enough for one caller of `thpool_wait` only
(`LoneWaiterHasWork` has that premise). And `FreshAnswerFits` speaks of calls
that begin with no older request open: answers carry no number, so with an older
request still open its late answer is taken for the new one.
`NothingFreedIsUsed` and `OwnDeletionIsSafe` except a call that frees what a walk
stands on: the code takes no lock, so such a call of another thread (or, in
`events.c`, a callback that deletes the next registration) leads the walk to a
freed entry.

## 5. Proofs

`tlapm` checks eight modules of proofs. The assumptions are the named ones on the constants: finite sets of threads
or workers, natural bounds, Boolean options, a ring whose size divides the range
of its indices, two processes.

**MsgQueProofs.** `TypeCorrect`, `LenAlwaysCountsList`, `GetWakeupsSuffice`,
`PutWakeupsSuffice`, `QueueIsFifo`, for any threads, messages and length. The
inductive invariant adds to the three properties `DestroyedIsQuiet` (no thread
is in a call while the queue does not exist), without which `Create` could reset
the counter under a sleeper. The wakeup properties count: each put adds a message
and, if anybody sleeps, an awake consumer; each get removes one of both;
`SignalEffect` says how one signal moves the sets of threads. `QueueIsFifo`
follows step by step: with the counter exact, the tests on `len` are the guards
of `BoundedFifo`.

**ThPoolProofs.** `TypeCorrect`, `CountersAreExact`, `NoWorkerSleeps`,
`LoneWaiter`, `FreedAreFinished`, `WaitIsNeverEarly`, for any number of pools,
workers and clients. None of them is inductive alone. The invariant `IInv` is
the conjunction of

* `TypeCore` and `CountersExact`: a counter is lowered below zero only if it
  does not count; the two need each other;
* `CallsFitState`, `WorkersFitState`, `NoJobsUnlessUp`: which calls and which
  places of `thread_do` are possible in each part of a pool's life;
* `FlagIsSet`: while nobody may clear it for us, `threads_keepalive` is set while
  a pool is up, so a worker leaves its loop only in `thpool_destroy`;
* `JobHasWorker`: a queued job goes with a semaphore that is up or with a worker
  between the semaphore and the queue; this is what the repost of
  `jobqueue_pull` keeps up although posts collapse;
* `PostIsSeen`: a semaphore that is up has somebody awake to test it, if anybody
  sleeps;
* `LoneWaiterHasWork`, the property itself.

The Boolean variables are kept apart in `TypeFlags`. Most actions move one
worker and change nothing else: `PlainMove` and the lemmas before it treat them
together, and each action that touches a counter, the semaphore or a pool's life
has a lemma of its own.

**MsgIpcProofs.** `TypeCorrect`, `AnswersFit`, `AcceptedStayQueued`, for any
messages, capacities, calls and crashes. `FreshAnswerFits` is not inductive: that
only the call's own answer waits depends on what may still be answered.
`NothingOlder` follows a call that began with no older request open. Until it has
sent its request none is open, so no answer comes and the flush takes all there
are; then its own is the only one that is open. `CallHasRequest` gives the
request it sends a number. `InsertFacts` and `RestFacts` say what the kernel's
queue operations do to the members of a queue. `AcceptedStayQueued` says of a message
that it is queued until it is received or flushed; what becomes of it then is
liveness and model-checked (`PutIsHandled`).

**AckAsyncProofs.** `TypeCorrect`, `OwnFreesAreSafe`, `ResendsAreOnSchedule`. The
invariant adds `WalkIsAlive` (an undisturbed walk is at a live record and has
remembered a live one or the end) and `Timely`: the scans a record has seen are
those of its resends and of the interval under way, and `re_num` counts what is
left, the one under way only when its callback returns. `OnSchedule` is an action
property and follows from `Timely` step by step.

**EventsProofs.** `TypeCorrect`, `SetsAlwaysMatch`, `CallbacksMayDelete`. Beside a
`WalkIsAlive` of its own, `DoublesAreNoted` is needed: only because no other
registration has the pair may a deletion clear its bit. `GreatestOf`
shows that the lowered `maxfd` covers what remains.

**LogProofs.** `TypeCorrect`, `WakeupsAlwaysSuffice`, `PrintsAreTerminated` and
`StepsOfByteFifo`, for any writers and sizes. The invariant says who holds the
mutex (`HolderHasCopied`), that what is copied fits beside what is in the ring
(`CopiedFits`), that what was read is still there (`GotIsThere`) and that the
output buffer is clear behind it (`BufferIsClear`). Then each step maps to a step
of `ByteFifo` or to a stutter: `Copy` to `Put`, `Read` to `Take`, `Output` to
`Output`, `Format` to `Write`. Most of it is the arithmetic of indices modulo the
range and cells modulo the size, which agree because one divides the other.

**TimeProofs** holds the proofs of the two components that follow the clock,
SkTimer and Sntp. It extends both, which is why the definitions of Sntp that every
module has are named `NtpInit`, `NtpNext`, `NtpSpec` and `NtpTypeOK`; they share
no variable and no lemma.

For SkTimer: `ListsAlwaysOrdered`, `DayPlansOnceADay`, and, while the clock does
not wrap, `TypeCorrect`, `TimersNeverLate`, `TimersNeverEarly`,
`DayPlansEveryDay`, for any number of timers, any delays, times and length of the
day. The invariant has three layers, and TLC found each part true on the run's
instance before it was proved:

* `Core` (`CoreAlways`) depends on nothing the clock does. `Shape` says that each
  timer of a table is linked once, in the list of its type, in the order of due
  times; `SortedWithout`, `SortedSame` and `SortedWith` are what removal, a change
  that leaves due times alone, and `InsertSeqlist` do to such a list, and rest on
  the lemmas about sequences without repetitions at the head of the module.
  `Kinds` keeps the timer of `plan_task` in the list, `Walking` says that the
  walk stands on timers of the list or on freed ones, never on a day plan, and
  `FiredPlans` that a plan that was called is to do again only on a later day.
  All calls of the interface, and the end of a handler, are one of two things,
  `Placing` a timer with its time set now or freeing one, and each has its lemmas
  once. `ListsAlwaysOrdered` and `DayPlansOnceADay` follow.
* `OnTime` (`OnTimeAlways`) says that due times are the sums they stand for and
  that a sleep is to end no later than the timer of `plan_task` is due. `NeverLate` is
  part of it: that a prompt thread is not late needs that its sleeps are short,
  and that it was not late when it began them. Types are proved here and not
  before, because how late a sleep can end is one of them.
* `Daily` (`RunsGoOn` and `Plans`): where all is prompt, `plan_task` was armed
  at most a `Gap` ago, and each plan is one that it has not come by since the plan
  was made (`Unseen`) or one that it has (`Seen`). Its runs drift and skip
  seconds, but of the `Gap` before a time of day and the one after it none is
  skipped altogether; where both lie in the day of the plan, it is marked as to do
  in the first and done in the second (`LaterRemainder`, `MomentGoesOn` and
  `OnOneDay` are the arithmetic of that).

The premise `ClockDoesNotWrap` says that time and delays stay in the first half
of the range of the clock: up to `MaxTime`, which is how long a behaviour lasts,
24 days of milliseconds. It is the code's (finding 7): where the clock wraps,
`NeverEarly` is false.

For Sntp: `SntpTypeCorrect`, `CallsSync`, `ClockSetByOwnAnswer`, for any number of
calls, signals and faults. The invariant says that every packet answers a probe
that was sent, one of this call only if it has sent one (`AnswersWereAskedFor`);
that a call that goes on has not set the clock (`NotYetSet`); that with its probe
out it waits or is hindered (`WaitsForAnswer`); and it counts the stamps, for the
types.

**MqttClientProofs.** `TypeCorrect`, `TopicsHaveOneHandler`,
`NothingIsReceivedTwice`, `NothingIsPublishedTwice`, `AcceptedStaysKept` and
`NoHandlerIsLost`, for any users, messages, topics, heap blocks, lengths of the
ack list and the wire, and number of faults. TLC found each part of the
invariants true on the instances before it was proved. There are four layers:

* `Core` (`CoreHolds`) is what nearly every step needs: `Values` and `Wires` are
  the types; `Lists` says that no entry is recorded twice, that nothing
  installed is freed and that no topic is installed twice; `Control` says where
  each thread can be, what packet it holds there, and that `mqtt_write_lock` is
  with the one that builds, sends or records. It gives `TypeCorrect` and
  `TopicsHaveOneHandler`.
* `Handshakes` (`HandshakesHold`) follows a QoS 2 message of the broker. Once it
  was delivered, an entry waits for its PUBREL, or the yield thread has ended, or
  the broker has had PUBREC and no PUBLISH of it is on its way any more; PUBREC is saved under its own id only. The order of the packets on
  the wire matters here: no PUBLISH of a message follows its PUBREL.
  From it comes `NothingIsReceivedTwice`.
* `Publications` (`PublicationsHold`) follows the messages of the users. `Naming`:
  every id in use has been given out, the one of a packet that is being sent is
  new, and an id belongs to one message. `Sending`: what is saved, sent or being
  sent under an id is of its owner, and the order of PUBLISH and PUBREL on the
  wire is kept. `Deliveries`: what the broker answered it has, and a QoS 2
  message that it has and that may come again is remembered by its id. `Kept` is
  the ack list's side: what was accepted and has not arrived is in it. From these
  come `NothingIsPublishedTwice` and `AcceptedStaysKept`.
* `Linked` with `Numbered` is `NoHandlerLeaked` as an invariant of each step that
  frees a handler or drops an entry.

The last two layers have the premise `[]IdsLast`, that packet ids have not come
round. It is one of the code's own (finding 6), and not one of the bounds: it
holds in every behaviour with fewer than `MaxPacketId` calls and
resubscriptions, as all those of the runs are. Without it `NoHandlerLeaked` is
false, and an id can have two owners. `NothingIsReceivedTwice`, `TopicsHaveOneHandler` and
`TypeCorrect` do not need it.

Only model-checked: every liveness property, that of the two refinements included
(proofs of fairness and ENABLED are out of the prover's reach). Every invariant
and action property of the passing runs is proved, and of the refinement of
`ByteFifo` each step.

## 6. Plan

In this order:

1. Abstract specifications for MqttClient (delivery once, as sets of messages)
   and for MsgIpc (request and answer), and the refinements.
2. Dynamic array: operators for removal, sorted insertion and sort, against
   their reference definitions on bounded inputs.
3. Compositions: a pool whose jobs use the message queue, timers whose handlers
   put into it, a scan of AckAsync under the ack list of MqttClient.

The number of runs is kept small; where a new module needs one, runs of one
module can be merged or give way.

## 7. Not modelled

The dynamic array so far. The stateless parts of the inventory, vendored code (mbedtls wrapper, cJSON,
freetype), and the example programs, which were read to see how the library is
used. The phase lock of `sntpd` is floating point and its effect that of kernel
interfaces, which is out of reach here. Per module, what is left out is said in section 2.
