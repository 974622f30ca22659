# Specifications of the chiaki-ng streaming library

TLA+ modules for the concurrent core of `lib/` (the C library behind every
chiaki-ng front end), TLC configurations that check them on small instances, and
TLAPS proofs of what matters most. The modules are translated from the code;
line numbers below are those of `PROJECT.json`'s `map`.

    tlc -config TakionSendBuffer.cfg TakionSendBuffer.tla     # one run
    tlapm TakionSendBufferProofs.tla                          # the proofs about it

The proofs about module `M` are in `MProofs`; those about `TakionDataChannel` and
`TakionVideoReorder`, which share the lemmas about the ring, are both in
`TakionReorderProofs`.

## 1. Inventory of the system

A *session* connects to a console: it requests a session over TCP (or RUDP over a
punched hole), runs a control connection (*ctrl*), measures the link
(*senkusha*), and then runs the *stream connection*, which speaks *takion*, a
UDP protocol of its own, and feeds the video and audio receivers.

| Component | State it keeps | Operations | Interacts through |
| --- | --- | --- | --- |
| takion connection (`takion.c`) | socket, mutexes, `send_buffer_open`, `sock_open`, data and video queue, postponed packets, head wait, sequence numbers | connect, close, send data (buffered), send raw, the receive loop with all its handlers | callbacks on the takion thread; any thread may send |
| takion send buffer (`takionsendbuffer.c`) | array of unacked packets, `should_stop` | init, push, ack, fini, the resend thread | own mutex and condition variable; acks come from the takion thread |
| reorder queue (`reorderqueue.c`, `seqnum.h`) | ring of entries, `begin`, `count` | push, pull, peek, drop, fini | owned by the takion thread; drop callback releases buffers |
| session (`session.c`) | `state_mutex`, `should_stop`, quit reason, login pin, `ctrl_*` flags | start, stop, join, set pin, the session thread | condition variable; ctrl, regist and stream connection call in |
| ctrl (`ctrl.c`) | message queue, login pin, receive buffer, crypt counters | start, stop, send message, the ctrl thread | `notif_mutex`, stop pipes, `session->state_mutex` |
| stream connection (`streamconnection.c`) | `state`, `state_finished`, `state_failed`, early stream info, feedback sender | run, stop, takion callbacks, heartbeats | condition variable; takion callbacks |
| senkusha (`senkusha.c`) | expected state, probes | run: RTT and MTU tests | own takion; condition variable |
| RUDP (`remote/rudp.c`, `remote/rudpsendbuffer.c`) | counter, send buffer | send and receive messages, acks | ctrl and session threads |
| feedback sender (`feedbacksender.c`) | controller state, history, packet queue | set state, the sending thread | condition variable; takion |
| congestion control and statistics (`congestioncontrol.c`, `packetstats.c`, `networkstats.c`, `linkwatchdog.c`) | counters, probe in flight | periodic report | several threads under small mutexes |
| video and audio receivers (`videoreceiver.c`, `frameprocessor.c`, `audioreceiver.c`) | current frame, reference frames, jitter buffer | packet, stream info | takion thread; corrupt frame reports |
| hole punching (`remote/holepunch.c`) | session flags, notification queue, sockets | create, start, offer, punch, cancel, fini | websocket thread, PSN servers, the console's messages |
| registration and discovery | request state, host tables | start, stop, callbacks | threads of their own |
| cryptography, FEC, codecs, HTTP | buffers | pure functions | called by the above |
| Android, desktop, command line | user interface | | the public API |

Where the difficulty lies:

- **Resources of one thread used by others.** The takion thread creates and
  destroys the send buffer and the socket while four kinds of other threads send
  at any time (comments PLE-490 and PLE-502 in `takion.h`).
- **Condition variables.** The resend thread sleeps without a deadline when it has
  nothing to do, and the finaliser joins it.
- **The network.** Packets are lost, repeated, late and reordered; numbers wrap
  (16 bits for video) and a ring of 64 or 16 slots reuses memory.
- **Timeouts.** A gap in the video is skipped after a wait that is tracked by hand
  in two variables, and the receive call blocks for ever when no wait runs.
- **Partial failure.** Long connect functions with a ladder of labels.
- **Lock order.** Session, ctrl and regist take each other's mutexes.
- **Late answers.** A probe, a session message or a stream info arrives after the wait it
  belongs to has ended, or before it has begun.
- **Unwinding while others run.** Every label of a run joins some threads and frees
  some parts; what a thread still uses depends on the path.

What makes each component correct: the send buffer never loses a wake-up or a
buffer, and an ack removes exactly what it covers; the connection never touches a
resource after its end, and always reaches its end; the video path hands over
every packet at most once, in order, and never waits for ever; the data channel is
reliable and never acks ahead of delivery; the session ends with the right reason
whatever fails, and stopping never blocks; the stream connection's waits end with
the event they wait for.

## 2. Plan

Most important first. Done: 1 to 9, with their proofs.

1. `TakionSendBuffer` - the resend buffer and its threads.
2. `TakionLifecycle` implements `ResourceGate` twice - connect to close.
3. `ReorderQueue` (operators) and `TakionVideoReorder` implements `Reassembly`.
4. `TakionDataChannel` implements `Reassembly` - control data with its acks.
5. `SessionCtrl` - session, ctrl and registration threads with their two mutexes.
6. `StreamConnection`, which extends `FeedbackSender` - a run of the stream with the
   four threads it starts.
7. `HolePunch` - both rounds of hole punching and the websocket thread.
8. `VideoFrames` - the video receiver's references, reports and totals.
9. `Senkusha` - the measurement with its late answers.
10. Left: `RudpSendBuffer` - the twin of 1 with its unlocked finalisation;
    `AudioFrames` - the audio receiver's index and jitter buffer.

Proved: every invariant that a passing run checks; the action properties `AckTakesPrefix`,
`ConsoleIdStays` and `InTimeIsKept`; the refinements of `ResourceGate` and of `Reassembly`
(section 6). Left to TLC: liveness.
No module uses a RECURSIVE operator.

## 3. Modules and their correspondence to the code

### TakionSendBuffer

One variable per field of the buffer (`slots` keeps the stale tail of the array, as
the code's `memmove`s do), a program counter for the resend thread, one for the
takion thread and one per sender. `Number`, `Send` and `Push` are the three
critical sections of `chiaki_takion_send_message_data`: number under
`seq_num_local_mutex`, then check, send and push under `send_buffer_state_mutex`
(held in state `sent`). `Ack` is the handler of the console's ack, with `AckLoop`
the loop body of `chiaki_takion_send_buffer_ack` and `AckGap` the loop, a recursive
function of the number of slots it has seen. `StartWait`, `Block`,
`Timeout`, `SpuriousWake`, `Reacquire` and `Check` are the loop of the resend thread
including the two predicates and the atomic release of the mutex when it blocks.
`NotDue`, `Resend`, `Exhausted`, `ReadSeq`, `GiveUp`, `Relock` are one pass, cut where
the code releases the mutex. Time is a stamp per packet: `fresh`, `old` (more than
the timeout ago) or `ahead`, a packet pushed after the pass sampled its clock, whose
unsigned age is huge. `TimedWaitFails` is the `tv_nsec` that `set_timeout` leaves at
10^9 (`thread.c:295`), which ends the thread's loop.

### TakionLifecycle and ResourceGate

The owner (`Connect`, `Close`), the takion thread from the handshake to DISCONNECT, and
every sender's walk through the two mutexes. `send_buffer_state_mutex` is held in the states
`AtDoor`, `sock_state_mutex` in `Sending`. `ConnectFails`, `ConnectFailsQuietly` and
`ConnectWithoutThread` are the failure paths of `chiaki_takion_connect`, including those
that report success; of what happens after such a success only the sends are followed.
`Close` waits for no sender, as in the code: a sender may call from connect until its owner
has stopped it (`StopSender`), which may be after close, or never, as for the application's
threads that ask for an IDR or send audio. The mutexes are destroyed by then (`mutexes` is
`"gone"`): the lock of a destroyed mutex fails, and the send is refused, or works as before.
Other outcomes of that undefined behaviour are not followed. `ResourceGate` is the abstract
discipline that the comments PLE-490 and PLE-502 promise: created, opened, entered only
while open, destroyed with nobody inside. The send buffer and the socket each implement it
(`Door`, `Socket`).

### ReorderQueue and Reassembly

`ReorderQueue` has the ring buffer as operators on a record: wrapped comparison
(undefined at half the number space), growth that clears flags, dropping from the
begin, both drop strategies, and slots that keep their stale contents after a pull. `Add` is the
code's addition of either width (`AddWraps`). 32-bit numbers are added in 32 bits. 16-bit ones are
promoted to `int` and the sum is not cast back (`reorderqueue.c:37`): the begin and end of the video
queue leave the number space when they step over 65535, so `begin` is compared, as in the code, by
its low bits in `Lt` and `Gt` and as it is by the equality in `Ge`.
`Reassembly` is what the queue promises, without ring and without wrap-around: the
number the reader waits for, and the set it holds.

### TakionVideoReorder

The takion thread's handling of video: `HandlePostponed` and `Drain` (packets that wait for
the key), `HandlePacket` (push, then the whole of `takion_av_queue_flush_with_timeout`),
`HandleWithoutMemory`, `ReceiveTimeout`, `VideoLoopEnds`. The head wait is `off`, `running`
or `expired`, and the number it is for. Packets are true numbers and the wire carries them
modulo `Modulus`; `base` is the true number of `begin`. Two bounds say what the link does:
`Delay`, how far behind the newest packet one may arrive, and `Outage`, how far ahead of
what the queue waits for. `LateIsBehind` and `PostponedIsNear` carry them from the arrival
of a packet, which may be postponed, to the push: what is late compares as late, and no
packet is a whole number space ahead. `InTimeIsKept` has one exception, `AtSeam`: a packet
due at the begin or the end of a window that holds something, where that begin or end has
left the number space, is refused. The head wait then skips it like a lost one. With an
empty window the queue is rebased to it, and nothing is lost.

### TakionDataChannel

Console and network are external: the console keeps a window of chunks in flight and
repeats what is not acked; the network loses, repeats and reorders. `Handle` is
`takion_handle_packet_message_data` with its flush, callbacks and ack; `Recheck` is
the branch that runs once after the key was set. `InFlight` says what the ring holds in
true numbers: it is the link between the wrapped numbers and `Reassembly`.

### SessionCtrl

The session thread (`S...`), the ctrl thread (`C...`), the registration thread of a
connection through PSN (`R...`) and the application (`A...`). The session thread holds
`state_mutex` in the program points `SBusy`, the ctrl thread holds `notif_mutex` in
`CBusy`; whoever else needs one of them waits until its holder is elsewhere. The waits on
`state_cond` are program points of their own with the predicate the code passes
(`Pred`) and `sig`, a signal that the waiter has not looked at. The application's sends
have two halves, `AQueue` and `ARaise`, because the pipe is raised after the unlock. One
console message of every kind that changes state may be in `recv_buf`. Streaming, and the
hole punching of the data connection, are single steps here; they have modules of their own.

### StreamConnection and FeedbackSender

`FeedbackSender` has the sending thread with its wait, its queue of history packets and
the application's `FbSet`. `StreamConnection` extends it with the thread of the run
(`S...`: one step between two points where `state_mutex` is free, and one per label of the
unwinding), the takion thread's callbacks (`T...`), the congestion thread (only its end) and
`AStop`, `ASetPad`. What takion has handed over arrives in any order the console may send
it. Datagrams with the pad's state may be lost; a history packet counts as handed over
when it is given to takion. Two variables are history: `pushedOut` counts the packets that a full
queue lost, and `overran` is set when one state has more events than the history buffer has
room for. With the 16 entries and the buttons of `feedbacksender.c` a state can have more
of them, so `EventsKept` names that case; with one button the run never meets it, and
checks the rest in full.

### HolePunch

The thread that connects, through create, start, offer, the two rounds of `punch_hole` and
fini (`M...`), the websocket thread (`W...`), a cancel from the user's thread, and the
servers and the console as external actions. The queue of notifications is the code's:
`wait_for_notification` takes the first that is wanted and leaves it in place,
`clear_notification` removes it. `stateHeld` is `state_mutex` where the code keeps it over a
request, and where it forgets to release it. Sockets are numbered by round: `v4` is
`ipv4_sock`, `chosen` what `check_candidates` selected, `handed` what became `ctrl_sock`
or `data_sock`.

### VideoFrames

The receiver between two packets, as a record `rx` that the steps of
`chiaki_video_receiver_av_packet` and `chiaki_video_receiver_flush_frame` transform. Frames
are true numbers (`now`) next to the wrapped indices the code sees; units are a set, and FEC
is the number of them that is enough. A stream starts fresh, or has run to just before the
wrap. A corrupt frame report may fail to be sent: the code logs that (`videoreceiver.c:233`)
or ignores it (`:289`), and then the frame is `unsent`. The next report that is sent covers
it again, but only back to the last completed frame: when a later frame completes first, the
console is never told. `LossIsReported` says exactly this. The user's thread asks for an IDR
in the GUI's order: send, then set waiting. `known` is history: the true numbers of the
reference frames. `Comparable` is an assumption about the console and the link: a frame is
less than half the space of indices (32768 frames, nine minutes at 60 frames a second) after
the last complete frame and after every reference that the receiver keeps. Further apart,
`chiaki_seq_num_16_gt` takes newer for older, and neither the reports nor the references are
right any more.

### Senkusha

The run as one thread (`Runner`) whose waits end with the event or their time limit, the
takion thread's callbacks, and `echoes`, the answers that are still under way and may come
in any order and any time later, or never. The path carries `pathIn` and `pathOut` bytes,
chosen at the start from one below the range searched to one above. The tags of pings are
all different, as random 32-bit numbers nearly always are. An acknowledgement of an echo
command or of the last message that comes just when its wait times out does not count
(`Accepted`), since `senkusha_send_data_wait_for_ack` returns what the wait returned; all
other waits look at `state_finished` only. `Lo + 1 < Hi` holds of the 576 and 1454 that
`senkusha.c` searches between.

## 4. Runs

A property named `...Inv` is the type invariant of its module with the safety properties
named in its definition, checked as one.

| Run | Instance | What it shows |
| --- | --- | --- |
| `send_buffer` | 2 senders, 3 slots, 1 retry, 3 packets, numbers wrap after the second | `SendBufferInv`, `NoLostWakeup`, `AckTakesPrefix`, `QueuedLeaves`, `FiniReturns` |
| `send_buffer_giveup` | 1 sender, 2 packets | refutes `GiveUpSparesOthers` |
| `takion_lifecycle` | 2 senders, before and after close, takion and resend thread | `IInv`, both refinements, `TeardownCompletes` |
| `video_reorder` | 16-bit addition, 8 packets, numbers modulo 12 from 9, ring of 4, frames of 2, delay 3, outage 7, 2 postponed | `VideoQueueInv` (order, conservation, head wait), `InTimeIsKept`, `VideoIsReassembly`, `NoPacketStuck` |
| `video_wrap` | as `video_reorder` | refutes `RefusedOnlyIfLate` |
| `data_channel` | 32-bit addition, 6 chunks, numbers modulo 16 from 14, ring of 4, window 5 | `DataChannelInv`, `AckedIsDelivered`, `IsReassembly`, `SentIsDelivered` |
| `data_recheck` | 4 chunks, window 4 | refutes `RecheckSurvives` |
| `session` | all three kinds of connection, 2 console messages, 1 PIN, 1 queued message | `SessionInv`, `NotifyNotLost`, `StreamIsAgreed`, `ConsoleIdStays`, `StopEnds`, `PinTaken` |
| `stream` | 2 pad states of a stick and a button, queue of 1 packet that repeats 1 event, watchdog of 2 heartbeats | `StreamInv`, `UsedWhileAlive`, `StreamInfoNotLost`, `EventsKept`, `RunReturns`, `PadReachesConsole` |
| `holepunch` | both rounds, 1 cancel, 1 repeated or stray message | `HolePunchInv`, `EstablishedIsAgreed`, `HandedSocketStaysOpen`, `CancelEnds` |
| `frames` | 5 frames of 2 units and 1 of FEC, indices modulo 16, 3 references | `ReceiverInv`, `LossCountedOnce`, `LossIsReported` |
| `senkusha` | sizes 2 to 7, 2 attempts, 2 pings | `SenkushaInv`, `MtuGetsThrough`, `MtuIsLargest`, `RunReturns` |

Why the bounds suffice. Three packets and three slots reach a full buffer and an ack with
two gaps between unsorted packets; one retry reaches the give-up, and more retries only
repeat a state. A fourth packet, which overflows the buffer, makes the graph too large for
the liveness properties: with it the three safety properties were checked apart (1 419 000
states), and `BufferSafe` and `AckSafe` prove them for every number of slots and packets.
Two senders reach both orders of numbering and pushing. In the video run the ring of 4
overflows and wraps, the numbers wrap, a packet exactly half the number space away reaches
the rebase, and three late packets reach every slot state, with a begin and an end on either
side of the wrap; an outage of 7 goes past half the number space, where a packet counts as
late. 14 packets, more than there are numbers, with an outage of 11 and one postponed packet
(175 000 states) showed the same. The window of the data run is larger than the ring, so
chunks are refused. In the session run two messages of the console reach a PIN that is asked
for twice and a session id that comes while one is made up; a second PIN only goes round the
login loop again. Two pad states overflow the queue of one packet. One stray message is
enough to meet every wait of the hole punching, since it stays in the queue. Five frames
reach two failures in a row, a gap, a discarded frame, a report that fails and one that
makes up for it, and the wrap. Sizes 2 to 7 take the binary search to both ends with three
probes on the way; the second attempt makes an answer late. Deadlock checking is off in the
runs of the video, data, session, stream, hole punching, frame and Senkusha modules, because
the loop, the session or the run ends and nothing follows; that they end at all is
`TeardownCompletes`, `StopEnds`, `RunReturns` and `CancelEnds`.

### What the session run leaves open

`StopEnds` names the two states in which a session that was told to stop does not end, and
shows that there is no third: `JoinCycle` (`session.c:682`: the registration thread is
joined with `state_mutex` held while its callback waits for that mutex) and `PinCycle`
(`session.c:762`: the session thread waits for `notif_mutex` with `state_mutex` held, the
ctrl thread the other way round). No comment of the code promises otherwise, so they are
exceptions of the property and entries of the hazard list.

### Violations

- `send_buffer_giveup`: `takion_send_buffer_resend` reads the number of the exhausted
  packet after it released the mutex. An ack in between shifts the array, and the
  give-up takes a packet with it that was never acked and has tries left.
- `data_recheck`: the re-check of queued MACs passes NULL to a function that writes
  through it when it finds an element.
- `video_wrap`: with numbers of 16 bits, 65535 held behind a gap and the end of the window
  therefore 65536, packet 0 is neither less than the end nor equal to it. `push` takes it for one
  that is half the number space away and drops it, although it is neither late nor there already.

Seen while modelling, and in the models as the code has them, but without a run:

- Two failing steps of `chiaki_takion_connect` (`takion.c:362-376`) unwind and return
  `CHIAKI_ERR_SUCCESS`, because the error sits in `err` and `ret` is returned
  (`ConnectFailsQuietly`).
- `ctrl_connect` returns success after a failing send (`ctrl.c:1341-1345`) and, through a
  shadowed `err` (`ctrl.c:1169`), after a failing RUDP handshake. `chiaki_holepunch_session_start`
  does the same for a member that is not the console (`holepunch.c:1205`).
- `session.c:885` reports a missing switch answer before it looks at the stop; `ctrl.c:417`
  replaces a reason that is already set.
- A stop while takion connects (`streamconnection.c:251`) jumps past the stop of congestion
  control: `chiaki_takion_close` returns, and has destroyed the mutexes that senders lock, while
  the congestion thread still sends, which `takion.h:227-235` rules out.
  `chiaki_stream_connection_fini` joins it. `StreamConnection` has this path, and
  `TakionLifecycle` senders that outlast close.
- `chiaki_holepunch_session_create` and `_start` return with `state_mutex` locked when they
  are cancelled between a notification and its check.
- A RESULT that does not match stays at the head of the queue and is found again and
  again until the wait ends.

## 5. Fairness and other assumptions

- Threads are scheduled (weak fairness), and a thread that waits for a mutex that is
  free again and again gets it (strong fairness): the code uses pthread mutexes and
  holds them for bounded sections; the resend thread gives its mutex up for 100 ms at a
  time. Deadlines pass and time elapses. `send()` returns, and so do HTTP requests.
- No fairness is assumed of senders, of the console's acks, or of failures.
- `TakionProgress` includes `LoopEnds` only once close was called: the receive call
  then returns at once because of the stop pipe. The stream's `TStop` and Senkusha's
  `TakionEnds` are used in the same way.
- In the video and data modules the weak fairness of the thread's own steps is written
  as `[]<>~Due`, which says the same of steps that end their own guard and spares TLC
  the evaluation of a whole flush to decide whether it is enabled.
- The console repeats the oldest unacked chunk until a copy arrives (strong fairness of
  its arrival); the rest of the network may do anything.
- Session: the three threads run on; the application and the console need not act.
- Stream: the run's thread, the feedback thread and its clock run on; one of infinitely
  many datagrams with the pad's state arrives (strong fairness), and the application sets
  finitely many states and none after the stream is being wound up.
- Hole punching: weak fairness of the two threads. Neither server nor console ever has to
  say anything; all waits have time limits or a cancel.
- Senkusha: weak fairness of the run, whose waits all have time limits, and of takion's
  thread once it was told to close, or was about to report that the connection is gone.
- Senders may call until their owner has stopped them, which may be after close. No fairness is
  assumed of `StopSender`.
- Video packets: none arrives half the number space late (`Delay`), and none a whole number
  space ahead of what the queue waits for (`Outage`): 65535 packets lost in a row. Frames: no
  outage loses half their number space (`Comparable`).

## 6. What is proved

| Module | Theorems | For every |
| --- | --- | --- |
| `TakionLifecycleProofs` | `Invariance`, `SendBufferSafe`, `SocketSafe`, `DisconnectSafe`, `MutexesSafe`; `DoorRefines` and `SocketRefines` (`ResourceGate`) | set of senders |
| `TakionSendBufferProofs` | `BufferSafe`, `WakeupSafe`, `AckSafe` (`AckTakesPrefix`) | buffer size, number of tries, set of senders, start of the numbers |
| `TakionReorderProofs` | `ChannelSafe`, `AckSafe` (`AckedIsDelivered`), `Implements` (`Reassembly`) | ring, number space, start of the numbers, number of chunks, window |
| | `VideoSafe`, `InTimeSafe` (`InTimeIsKept`), `VideoImplements` (`Reassembly`) | width of the addition, ring, number space, start of the numbers, number of packets, frame length, delay, outage, number of postponed packets |
| `SessionCtrlProofs` | `SessionSafe`, `NotifySafe`, `StreamSafe`, `IdSafe` (`ConsoleIdStays`) | set of modes, number of messages, PINs and console messages |
| `StreamConnectionProofs` | `StreamSafe`, `UsedSafe`, `StreamInfoSafe`, `EventsSafe` | set of sticks and buttons, ring, queue and overlap of the history, watchdog, number of pad states |
| `HolePunchProofs` | `SessionSafe`, `ExchangeSafe`, `SocketSafe` | number of cancels and of repeated or stray messages |
| `SenkushaProofs` | `MeasurementSafe`, `MtuSafe`, `MtuLargest` | range of sizes, number of tries and of pings |
| `VideoFramesProofs` | `ReceiverSafe`, `CountedSafe`, `ReportedSafe` | space of indices, number of references, units of a frame, length of the stream |

### Assumptions

The constants: the threads are different (`ThreadsAssumption`); rings divide the number
space and are smaller than half of it (`RingAssumption`); a video packet is at most `Delay`
late, less than half the number space by more than two, and at most `Outage` ahead, less than
the number space, while the number of packets is free, and no frame is longer than the ring
(`VideoAssumption`); a connection sends fewer than half
the number space of packets (2^31) in `TakionSendBuffer` and `TakionDataChannel`; the history
repeats fewer events than its ring holds (4 of 16); sizes as in `senkusha.c`; fewer
references than half the index space (16 of 2^16). The models' own assumptions about the
outside, of which `Comparable` of `VideoFrames` matters most, are in sections 3 and 5.
Nothing else is assumed.

### The arguments

In each module `IInv` is the inductive invariant. It is an invariant of a run or the
conjunction of those the runs check (in `VideoFrames` written for any receiver), so TLC has
checked what is proved. There is one lemma for each conjunct and, in it, one step for each
action or group of actions that can disturb it.

**TakionLifecycle.** "Nobody uses the send buffer after its end" is not inductive: a sender
in the middle of a push is safe only because the flag was true when it entered, and the flag
cannot be cleared while it holds the mutex. `IInv` says this phase by phase. `DoorPhase`:
the buffer is live exactly in five states of the takion thread, the flag is up only in two
of them, and whoever is at the door implies that the flag is up. The step that clears the
flag waits for `StateFree`, so after it nobody is at the door; the step that finalises comes
later. `SocketPhase` says the same of the socket. `CallerPhase` ties each caller to the
phase in which it may call, which gives the resend thread's part, and `Phases` ties the
owner to the takion thread. Together they give `MutexesSafe`: close joins the takion thread, which
has joined the resend thread, before it destroys the mutexes, so neither of the two is in a send
then. Of the senders it says only what the code ensures: whoever still sends was not stopped by
its owner (`StopInv`). `IInv` itself is an invariant of the run `takion_lifecycle`. With `IInv` every step maps to a step of either
gate or leaves it unchanged (`DoorStep`, `SocketStep`).

**TakionSendBuffer.** Freed once is not inductive: one has to say who frees it. `Owners`
gives every numbered packet that is not freed exactly one owner, a sender that holds it or
one slot of the queue, and `BuffersFreedOnce` follows at the end. `NoLostWakeup` needs
`Looking`: between the predicate and the sleep nobody changes the queue, because the mutex
is held. The core is the compaction loop of `chiaki_takion_send_buffer_ack`, with its gap
that is closed lazily by `memmove`: `GapStep` is its invariant (before the gap lie the
uncovered slots seen so far, in order; behind it nothing has moved), `CompactedIs` what it
leaves. The recursion of `AckGap` is unfolded by `LoopRuns`, which needs induction; see
below.

**TakionDataChannel.** Two steps. The first part of the module translates the wrapped
comparisons into true numbers, from lemmas about remainders (`ModIs`, `ModAdd`, `ModSame`):
within half the space, `Lt` and `Gt` of the wire numbers are `<` and `>` of the chunks. The
second part describes each operator of the ring the same way: a queue that is `QueueOk` at
base `b` holds the set `HeldIn(q, b)`, a push adds one member or is refused (`PushIs`), and
the flush takes the longest run from `b` (`PullIs`). `Handles` is then what one packet does
to `base`, the set and the list of deliveries, and every conjunct, the ack and the
refinement follow from it without looking at the ring again.

**TakionVideoReorder.** The same translation, for the strategy that drops from the begin
(`PushDrops`: a push keeps what is not behind, not held yet and not more than half the
number space ahead, and is not at the seam; anything else is refused) and for the flush with
its skip (`Flushed`). Every action on the queue is then a `Turn`: a push in true numbers, a
run that is dispatched, what is left. Seven conjuncts are inductive only together. That
packets are dispatched once and in order needs to know that a late packet compares as late,
also when it was postponed and the window moved on meanwhile: `LateIsBehind`. The push of a
postponed packet needs that its number does not stand for another one, a whole number space
nearer: `PostponedIsNear`. Both are kept because the window never passes what may still
arrive by more than `Delay`, and only moves forward (`WindowKept`, `NearKept`). With these
two no bound on the number of packets is needed: the numbers may wrap any number of times.

**SessionCtrl.** `NoThreadAfterQuit` and `NotifyNotLost` are inductive once `Threads` says
which threads run at which step of the session thread, and `StopCauses` where each quit
reason can come from. The predicate of a wait is never expanded: no safety property depends
on why a wait ended, only on what the thread tests after it.

**StreamConnection.** `Threads` and `Progress` tie the three other threads, the receivers
and the key to the steps of the run; `InfoIsSomewhere` says where a stream info is that has
arrived and is not handled. `EventsKept` needs `FeedbackInv`: packets in the queue follow
each other without a gap, each repeats the last `Resend` events before it, and what comes
before the oldest was handed over, or is `pushedOut` events short of it.

**HolePunch.** A message is believed because of what has been said before it. `Reasons` says
for each message under way why it was sent, `Stages` what the console has heard at each
step, and `Order` that a message of the ctrl round which is left in the queue lies in front
of the data OFFER, where the wait for that OFFER clears it. Without `Order` an ACCEPT of
round 1 could be taken for one of round 2. `Sockets` says which round's socket `ipv4_sock`
names.

**Senkusha.** `Bracketed` is the invariant of the binary search, together with its
exceptions: the upper limit is never tried in one direction, and a size given up too early
makes it wrong (`misjudged`). `ProbeIsAnswered` says that an answer which ends a wait was
one for the size being searched, however many late answers came in between.

**VideoFrames.** `Inv` holds of the receiver between any two steps of a packet, not only
between packets: `FlushEnds` and `StartIs` take a receiver with it to one with it, and a
packet composes up to two flushes and a start. `IndicesOk` says that each wrapped index is
that of a true number and that `counted` is at most one behind the current frame, which is
what makes `frame_loss_tracker_count` count the overlap of two reports once.
`LossIsReported` follows since every report begins right after the last complete frame (`Reported`):
a frame before it was completed, told of, or in a report that could not be sent, and one after it
is covered again by the next report.

### What stays with TLC

- Liveness: `QueuedLeaves`, `FiniReturns`, `TeardownCompletes`, `NoPacketStuck`,
  `SentIsDelivered`, `StopEnds`, `PinTaken`, `RunReturns` (of the stream and of Senkusha),
  `PadReachesConsole`, `CancelEnds`. Temporal reasoning under fairness needs ENABLED, which
  is out of the prover's reach.
- The three violations, which are counterexamples.

Induction. The library's induction theorems take an operator as a parameter, which no
backend here can instantiate. Where induction over numbers is needed (the loop of the send
buffer, the longest run in the ring, the first wanted notification), the proofs use the
first-order theorem `WFMin` instead: a set of numbers that is not empty has a least member
(`Least`), and the least counterexample is refuted.

## 7. Not modelled

- Packet formats, protobuf, encryption and MAC arithmetic, key positions: a rejected
  packet is a lost one. `gkcrypt_local_mutex` is a leaf and never held across a wait.
- The handshake's messages and retries: its outcome is.
- Audio and streams with reordering disabled: those packets are dispatched at once and
  do not touch the queue.
- Control data that is too short or of unknown type is consumed like any other chunk.
- `chiaki_reorder_queue_drop`: its one call comes after the failing peek of
  `data_recheck`.
- Statistics (jitter, receive gaps, link figures): values for display.
- A send buffer without a takion, which only the unit tests use.
- Session and ctrl: the contents of the session request, the counters of the encryption,
  and ctrl messages that only answer the console or change a display.
- Stream: spurious wake-ups, resolution and bitrate messages, motion and touch of the pad.
- Hole punching: the IPv6 socket, UPnP and STUN, the sockets that guess ports inside
  `check_candidates`, notification frames that do not parse. A cancel comes while a call
  runs or between two, not during fini. `ctrl_sock` is closed by RUDP, which is not here.
- Frames: a change of the profile, packet statistics and failing allocations. The branch for
  an older frame is there but not reached, because the video queue hands packets over in
  order (`DispatchedInOrder`). The signed count of lost frames that a frame's callback is given
  (`frames_lost`, `videoreceiver.c:318`), which counts overlapping failures twice and goes negative
  over the wrap; the totals are in.
- RUDP, the audio receiver and discovery: small state machines that the plan leaves for
  later. Cryptography, FEC and codecs: arithmetic over buffers, out of TLC's reach.
- Most of the lines of this repository are the desktop and Android front ends, formats,
  tables and wrappers of system calls; the models cover the library's concurrent and
  stateful core, and in it the parts that several threads or the network can disturb.
- Every component listed as `not_modelled` in `PROJECT.json`, with its reason there.
