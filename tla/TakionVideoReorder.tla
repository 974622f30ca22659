-------------------------- MODULE TakionVideoReorder --------------------------
(***************************************************************************)
(* The video packets on the takion thread (lib/src/takion.c): postponed    *)
(* until the remote key is known, reordered in the video queue, dispatched *)
(* in order, with a head-of-line timeout that skips what was lost.         *)
(*                                                                         *)
(* A packet is its true number n; the wire carries (InitSeq + n) % Modulus. *)
(* Names that TakionDataChannel has too are other words or begin with Video *)
(* here, so that one module can extend both.                                *)
(* One thread runs all of this, so an action is one turn of its loop: a    *)
(* packet handled, the postponed packets handled, or a timeout.  The clock *)
(* is only looked at through the head wait: off, running, or expired.        *)
(***************************************************************************)
EXTENDS Integers, Sequences, FiniteSets, SequencesExt, ReorderQueue

CONSTANTS
    NPackets,       \* bound: the packets are 0..NPackets-1
    FrameLen,       \* bound: units per frame; unit_index is n % FrameLen
    Delay,          \* bound: how far behind the newest packet one may arrive
    Outage,         \* bound: how far ahead of what the queue waits for one may arrive
    PostponeMax     \* TAKION_POSTPONE_PACKETS_SIZE (32)

ASSUME VideoAssumption ==
    /\ NPackets \in Nat \ {0} /\ FrameLen \in Nat \ {0} /\ FrameLen <= QueueSize
    /\ Delay \in Nat /\ Delay + 2 < Modulus \div 2 /\ PostponeMax \in Nat
    /\ Outage \in Nat /\ Outage < Modulus

Packets == 0..(NPackets - 1)

VARIABLES
    receiving,  \* the receive loop has not ended
    keyed,      \* takion->gkcrypt_remote is set
    postponed,  \* takion->postponed_packets
    draining,   \* the loop over postponed_packets is running
    av,         \* the queue and its head wait, see Idle
    newest,     \* the highest number on the network so far
    shown,      \* history: what the queue dispatched, in order
    lent        \* history: packet -> receive buffers of it not yet released

videoVars == <<receiving, keyed, postponed, draining, av, newest, shown, lent>>

(* av.queue        takion->video_queue
   av.initialized  takion->video_queue_initialized
   av.wait         video_queue_head_wait_start_us: zero, recent or too long ago
   av.waitSeq      video_queue_head_wait_seq_num
   av.base         ghost: the true number of queue.begin
   av.out, av.freed   what the action dispatched and released                 *)
Idle == [queue |-> EmptyQueue(0), initialized |-> FALSE, wait |-> "off", waitSeq |-> 0,
         base |-> 0, out |-> <<>>, freed |-> <<>>]

Moved(v, q) == [v EXCEPT !.queue = q, !.base = @ + ((q.begin - v.queue.begin) % Modulus)]

-------------------------------------------------------------------------------
(* takion_av_queue_flush_with_timeout *)

\* Dispatch and release everything in order; progress ends the head wait.
PullInOrder(v) ==
    LET p == PullAll(v.queue) IN
    [Moved(v, p.queue) EXCEPT !.out = @ \o p.users, !.freed = @ \o p.users,
                              !.wait = IF p.users # <<>> THEN "off" ELSE @]

StartWait(v) == [v EXCEPT !.wait = "running", !.waitSeq = v.queue.begin]

\* Skip to the first element, dispatch from there, wait anew for the next gap.
SkipLostNoRestart(v) ==             \* mutant: leaves the loop without a new wait
    LET skipped == FirstSet(v.queue) IN
    IF skipped = v.queue.count THEN v
    ELSE PullInOrder(Moved(v, Skip(v.queue, skipped)))

SkipLost(v) ==
    LET skipped == FirstSet(v.queue)
        w == PullInOrder([Moved(v, Skip(v.queue, skipped)) EXCEPT !.wait = "off"])
    IN  IF skipped = v.queue.count THEN v
        ELSE IF w.queue.count = 0  THEN w
        ELSE StartWait(w)

Flush(v) ==
    LET w == PullInOrder(v)
        ahead == w.queue.begin = w.waitSeq \/ Gt(w.queue.begin, w.waitSeq)
        tracked == [w EXCEPT !.waitSeq = w.queue.begin]
    IN  CASE w.queue.count = 0   -> w
          [] w.queue.count > 0 /\ (w.wait = "off" \/ ~ahead) -> StartWait(w)
          [] w.queue.count > 0 /\ w.wait = "running" /\ ahead -> tracked
          [] w.queue.count > 0 /\ w.wait = "expired" /\ ahead -> SkipLost(tracked)

-------------------------------------------------------------------------------
(* takion_handle_packet_av, for a video packet that has to be reordered *)

\* The first packet says where its frame begins.
FirstBegin(n) == n - (n % FrameLen)

InitQueue(v, n) ==
    IF v.initialized THEN v
    ELSE [v EXCEPT !.initialized = TRUE, !.queue = EmptyQueue(Wire(FirstBegin(n))),
                   !.waitSeq = Wire(FirstBegin(n)), !.wait = "off", !.base = FirstBegin(n)]

HandleAv(v, n) ==
    LET w == InitQueue(v, n)
        p == Push(w.queue, Wire(n), n, TRUE)
    IN  Flush([Moved(w, p.queue) EXCEPT !.freed = @ \o SetToSeq(p.dropped)])

-------------------------------------------------------------------------------
(* The loop of takion_thread_func *)

\* Book what the action did with the buffers, "got" being those it received.
Book(v, got) ==
    /\ av' = [v EXCEPT !.out = <<>>, !.freed = <<>>]
    /\ shown' = shown \o v.out
    /\ lent' = [n \in Packets |-> lent[n] + (IF n \in got THEN 1 ELSE 0) - Count(v.freed, n)]

\* takion_postpone_packet
Postpone(n) ==
    IF Len(postponed) < PostponeMax
    THEN postponed' = Append(postponed, n) /\ Book(av, {n})
    ELSE UNCHANGED postponed /\ Book([av EXCEPT !.freed = <<n>>], {n})

PacketArrives(n) ==
    /\ receiving /\ ~draining
    /\ n >= newest - Delay
    /\ av.initialized => n <= av.base + Outage
    /\ \A i \in DOMAIN postponed : n <= postponed[i] + Delay
    /\ newest' = IF n > newest THEN n ELSE newest
    /\ UNCHANGED <<receiving, keyed, draining>>

\* A packet arrives: new, again, late, or with others before it lost.
HandlePostponed(n) ==
    /\ PacketArrives(n) /\ ~keyed
    /\ Postpone(n)

HandlePacket(n) ==
    /\ PacketArrives(n) /\ keyed
    /\ Book(HandleAv(av, n), {n}) /\ UNCHANGED postponed

\* No memory: for the queue, and the packet is dispatched at once, past the
\* queue; or for the packet's entry, and it is released.
HandleWithoutMemory(n) ==
    /\ PacketArrives(n) /\ keyed
    /\ \E v \in {IF av.initialized THEN InitQueue(av, n) ELSE av, InitQueue(av, n)} :
          Book([v EXCEPT !.freed = <<n>>], {n})
    /\ UNCHANGED postponed

\* The callback for a control message calls chiaki_takion_set_crypt.  What is
\* left of the received batch is handled before the top of the loop.
SetCrypt ==
    /\ receiving /\ ~keyed
    /\ keyed' = TRUE
    /\ UNCHANGED <<receiving, postponed, draining, av, newest, shown, lent>>

\* The top of the loop: the postponed packets are handled in their order.
Drain ==
    /\ receiving /\ keyed /\ postponed # <<>>
    /\ Book(HandleAv(av, Head(postponed)), {})
    /\ postponed' = Tail(postponed) /\ draining' = (Len(postponed) > 1)
    /\ UNCHANGED <<receiving, keyed, newest>>

\* More than TAKION_AV_REORDER_TIMEOUT_US go by with the head still missing.
TimePasses ==
    /\ receiving /\ av.wait = "running"
    /\ av' = [av EXCEPT !.wait = "expired"]
    /\ UNCHANGED <<receiving, keyed, postponed, draining, newest, shown, lent>>

AtReceive == receiving /\ (keyed => postponed = <<>>)

\* The receive times out after takion_av_queues_next_timeout_ms: with no head
\* wait it never does.
ReceiveTimeout ==
    /\ AtReceive /\ av.initialized /\ av.wait = "expired"
    /\ Book(Flush(av), {})
    /\ UNCHANGED <<receiving, keyed, postponed, draining, newest>>

\* The receive fails: the queue is finalised with what it holds.
VideoLoopEnds ==
    /\ AtReceive
    /\ receiving' = FALSE /\ postponed' = <<>>
    /\ Book([Idle EXCEPT !.freed = postponed
                \o SetToSeq(UsersAt(av.queue, Filled(av.queue)))], {})
    /\ UNCHANGED <<keyed, draining, newest>>

VideoInit ==
    /\ receiving = TRUE /\ keyed = FALSE /\ postponed = <<>> /\ draining = FALSE
    /\ av = Idle /\ newest = 0 /\ shown = <<>>
    /\ lent = [n \in Packets |-> 0]

VideoNext == \/ SetCrypt \/ Drain \/ TimePasses \/ ReceiveTimeout \/ VideoLoopEnds
        \/ \E n \in Packets : HandlePostponed(n) \/ HandlePacket(n) \/ HandleWithoutMemory(n)

\* The clock runs, and the thread comes back to the top of its loop: neither
\* Drain nor ReceiveTimeout stays due for ever.  That is their weak fairness,
\* since either one ends its own guard, written so that TLC need not compute a
\* flush to know whether one is enabled.
DrainDue == receiving /\ keyed /\ postponed # <<>>
TimeoutDue == AtReceive /\ av.wait = "expired"
VideoSpec == /\ VideoInit /\ [][VideoNext]_videoVars
             /\ WF_videoVars(TimePasses) /\ []<>~DrainDue /\ []<>~TimeoutDue

-------------------------------------------------------------------------------
HeldPackets == {av.base + i : i \in Filled(av.queue)}

\* Every variable has its type, and the window never outgrows the ring (the
\* assert of chiaki_reorder_queue_push).
VideoTypeOK ==
    /\ {receiving, keyed, draining} \subseteq BOOLEAN
    /\ postponed \in Seq(Packets) /\ Len(postponed) <= PostponeMax
    /\ av \in [queue : [begin : Begins, count : 0..QueueSize,
                        slot : [0..(QueueSize - 1) -> [set : BOOLEAN, user : Packets \cup {NoUser}]]],
               initialized : BOOLEAN, wait : {"off", "running", "expired"}, waitSeq : Begins,
               base : 0..NPackets, out : {<<>>}, freed : {<<>>}]
    /\ newest \in Packets /\ shown \in Seq(Packets) /\ lent \in [Packets -> Nat]

\* The ring buffer under wrap-around, overflow, skips and stale slots: every
\* element of the window is the packet of its own number, the window ends with
\* an element, and between actions it begins with a missing one.
RightPacketInSlot ==
    LET q == av.queue IN
    /\ av.initialized => q.begin % Modulus = Wire(av.base)
    /\ \A i \in Filled(q) : Entry(q, i).user = av.base + i
    /\ q.count > 0 => IsSet(q, q.count - 1) /\ ~IsSet(q, 0)

\* The receive loop blocks without a timeout when no head wait runs, so a packet
\* must never be left in the queue without one, nor with one for another gap.
HeadWaitArmed ==
    av.queue.count > 0 => av.wait # "off" /\ av.waitSeq = av.queue.begin

\* takion_receive_buffer_release is called exactly once for every buffer that
\* was received: whether the packet is dispatched, pushed out, late, a
\* duplicate, postponed without room, or left when the connection ends.
PacketBuffersConserved ==
    \A n \in Packets :
        lent[n] = Cardinality({i \in Filled(av.queue) : Entry(av.queue, i).user = n})
                    + Count(postponed, n)

\* Whatever order packets arrive in and however often, the receiver behind the
\* queue sees each at most once and in increasing order.
DispatchedInOrder ==
    \A i, j \in DOMAIN shown : i < j => shown[i] < shown[j]

\* What is late is seen to be late: the window never gets further ahead of a packet
\* that is postponed or may still arrive than the comparison of numbers can tell, and
\* nothing at or behind its begin was dispatched.
LateIsBehind ==
    /\ ~av.initialized => av = Idle
    /\ av.base + av.queue.count <= newest + 1
    /\ \A i \in DOMAIN postponed :
          /\ postponed[i] <= newest /\ av.base + av.queue.count <= postponed[i] + Delay + 1
          /\ \A j \in DOMAIN postponed : i < j => postponed[i] <= postponed[j] + Delay
    /\ receiving => \A i \in DOMAIN shown : shown[i] < av.base

\* No packet that is postponed is a whole number space ahead of the window.
PostponedIsNear ==
    \A i \in DOMAIN postponed :
        /\ av.initialized => postponed[i] < av.base + Modulus
        /\ \A j \in DOMAIN postponed : i < j => postponed[j] <= postponed[i] + Delay

\* What holds of the queue between the actions.
VideoQueueInv ==
    /\ VideoTypeOK /\ RightPacketInSlot /\ HeadWaitArmed /\ PacketBuffersConserved
    /\ DispatchedInOrder /\ LateIsBehind /\ PostponedIsNear

\* A packet that arrives before its turn has passed is kept or dispatched, however
\* full the ring is and however far ahead of the window the packet is, up to half
\* the number space: beyond that it has the number of one that is late.  The
\* exception, AtSeam, is an element due at the begin or the end of a window that holds
\* something, where that begin or end has left the number space (RefusedOnlyIfLate).
AtSeam(q, seq) == q.count > 0 /\ \E x \in {q.begin, End(q)} : x # seq /\ x % Modulus = seq
InTime(n) == av.initialized => n >= av.base /\ n - av.base <= Modulus \div 2
Accepted(n) == n \in HeldPackets' \cup ToSet(shown')
InTimeIsKept ==
    [][\A n \in Packets :
            HandlePacket(n) /\ InTime(n) /\ ~AtSeam(av.queue, Wire(n)) => Accepted(n)]_videoVars

\* "The callback will also be called with the new element if there is already an
\* element with the same sequence number or if the sequence number is less than
\* queue->begin": a packet is not dropped for being new.  With 16-bit numbers it is,
\* when it is due at a begin or end of the window that has left the number space.
RefusedOnlyIfLate ==
    [][\A n \in Packets : HandlePacket(n) /\ InTime(n) => Accepted(n)]_videoVars

\* The queue and its flush are Reassembly with the numbers wrapped; a timeout
\* skips to the first packet that is there.
Reassembled == INSTANCE Reassembly WITH
    next <- IF av.initialized THEN av.base ELSE -1, held <- HeldPackets,
    Numbers <- Packets, Size <- QueueSize, DropOldest <- TRUE
VideoIsReassembly == Reassembled!Spec

\* Once the key is known a packet does not stay in a queue for ever: a timeout
\* frees it though what it waits for never comes.
NoPacketStuck == \A n \in Packets : (keyed /\ lent[n] > 0) ~> lent[n] = 0
===============================================================================
