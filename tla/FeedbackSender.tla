---------------------------- MODULE FeedbackSender ----------------------------
(***************************************************************************)
(* The feedback sender (feedbacksender.c, with the history buffer of       *)
(* feedback.c): the calls that start it, give it a controller state and    *)
(* stop it, and its thread.  StreamConnection composes it with the thread  *)
(* that owns it.                                                           *)
(*                                                                         *)
(* A controller state is a stick position, which is sent as feedback       *)
(* state, and a set of pressed buttons, whose changes are sent as history  *)
(* events.  Every event has a number; a history packet holds the events    *)
(* from lo to hi.  feedback_sender->state_mutex is free whenever the       *)
(* thread waits or sends, so one action is one hold of it.                 *)
(***************************************************************************)
EXTENDS Integers, Sequences, FiniteSets, FiniteSetsExt

CONSTANTS
    Sticks, Idle,  \* stick positions, and the one of an idle controller
    Buttons,       \* what history events are about
    Resend,        \* FEEDBACK_HISTORY_RESEND_EVENT_COUNT
    BufferSize,    \* FEEDBACK_HISTORY_BUFFER_SIZE
    QueueSize      \* CHIAKI_FEEDBACK_HISTORY_PACKET_QUEUE_SIZE

ASSUME FeedbackAssumption ==
    /\ Idle \in Sticks
    /\ Resend \in Nat /\ BufferSize \in Nat /\ QueueSize \in Nat \ {0}
    /\ Resend < BufferSize /\ IsFiniteSet(Buttons)

VARIABLES
    fpc,      \* where the thread is
    fStop,    \* should_stop
    current,  \* controller_state, and controller_state_history_prev
    changed,  \* controller_state_changed
    elapsed,  \* since last_feedback_state_ms: below the minimum interval
              \* ("early"), below the maximum ("due"), or neither ("old")
    deadline, \* the class of elapsed at which the wait times out
    fSig,     \* a signal the waiting thread has to follow
    sentStick,\* controller_state_prev
    bufLen,   \* history_buf.len
    queue,    \* history_packets
    outgoing, \* what the thread has taken and now sends without the mutex
    events,   \* the number of events recorded
    seenStick, sentEvents, pushedOut, overran
              \* history: the last stick position the console got, the events
              \* handed to takion, and those first carried by a packet that
              \* was overwritten in the queue; whether one state had more events
              \* than the history buffer had room for

fVars == <<fpc, fStop, current, changed, elapsed, deadline, fSig, sentStick,
           bufLen, queue, outgoing, events, seenStick, sentEvents, pushedOut, overran>>

Pads    == [stick : Sticks, buttons : SUBSET Buttons]
IdlePad == [stick |-> Idle, buttons |-> {}]
Nothing == [state |-> FALSE, stick |-> Idle, packets |-> <<>>]
Packets == [lo : Nat, hi : Nat, new : Nat]

FTypeOK ==
    /\ fpc \in {"off", "top", "wait", "send", "gone"}
    /\ {fStop, changed, fSig} \subseteq BOOLEAN
    /\ current \in Pads
    /\ elapsed \in {"early", "due", "old"} /\ deadline \in {"due", "old"}
    /\ {sentStick, seenStick} \subseteq Sticks
    /\ bufLen \in 0..BufferSize /\ events \in Nat /\ pushedOut \in Nat /\ overran \in BOOLEAN
    /\ queue \in Seq(Packets) /\ Len(queue) <= QueueSize
    /\ outgoing \in [state : BOOLEAN, stick : Sticks, packets : Seq(Packets)]
    /\ Len(outgoing.packets) <= 1

FInit ==
    /\ fpc = "off" /\ fStop = FALSE
    /\ current = IdlePad /\ changed = FALSE
    /\ elapsed = "early" /\ deadline = "old" /\ fSig = FALSE
    /\ sentStick = Idle /\ bufLen = 0 /\ queue = <<>> /\ outgoing = Nothing
    /\ events = 0 /\ seenStick = Idle /\ sentEvents = {}
    /\ pushedOut = 0 /\ overran = FALSE

-----------------------------------------------------------------------------
(* The calls.                                                              *)

\* chiaki_feedback_sender_init.
FbStart ==
    /\ fpc = "off"
    /\ fpc' = "top" /\ fStop' = FALSE
    /\ current' = IdlePad /\ changed' = FALSE /\ elapsed' = "early"
    /\ sentStick' = Idle /\ bufLen' = 0 /\ queue' = <<>>
    /\ UNCHANGED <<deadline, fSig, outgoing, events, seenStick, sentEvents,
                   pushedOut, overran>>

\* The events between two controller states.
NewEvents(old, new) ==
    Cardinality((old.buttons \ new.buttons) \cup (new.buttons \ old.buttons))

\* The packet of a history buffer of len events, the last n of m just recorded.
Packet(len, n, m) == [lo |-> m + 1 - len, hi |-> m, new |-> n]

\* mutant: the buffer is emptied after each packet.
NoOverlap(n) == 0
Kept(n) == Min({n, Resend})

\* chiaki_feedback_sender_set_controller_state, with record_history and
\* flush_history_locked.  A full queue loses its oldest packet.
FbSet(pad) ==
    IF pad = current
    THEN UNCHANGED fVars
    ELSE LET n    == NewEvents(current, pad)
             len  == Min({bufLen + n, BufferSize})
             full == n > 0 /\ Len(queue) = QueueSize
         IN  /\ current' = pad /\ changed' = TRUE
             /\ events' = events + n
             /\ bufLen' = IF n > 0 THEN Kept(len) ELSE bufLen
             /\ queue'  = IF n = 0 THEN queue
                          ELSE Append(IF full THEN Tail(queue) ELSE queue,
                                      Packet(len, n, events + n))
             /\ pushedOut' = IF full THEN pushedOut + Head(queue).new
                                     ELSE pushedOut
             /\ overran' = (overran \/ bufLen + n > BufferSize)
             /\ fSig' = (fpc = "wait")
             /\ UNCHANGED <<fpc, fStop, elapsed, deadline, sentStick, outgoing,
                            seenStick, sentEvents>>

\* chiaki_feedback_sender_fini up to the join, and after it: what the sender kept is
\* freed, or written again before it is read.
FbAskStop ==
    /\ fStop' = TRUE /\ fSig' = (fpc = "wait")
    /\ UNCHANGED <<fpc, current, changed, elapsed, deadline, sentStick, bufLen,
                   queue, outgoing, events, seenStick, sentEvents, pushedOut, overran>>
FbJoined ==
    /\ fpc = "gone" /\ fpc' = "off"
    /\ fStop' = FALSE /\ current' = IdlePad /\ changed' = FALSE
    /\ elapsed' = "early" /\ deadline' = "old" /\ fSig' = FALSE
    /\ sentStick' = Idle /\ bufLen' = 0 /\ queue' = <<>> /\ outgoing' = Nothing
    /\ events' = 0 /\ seenStick' = Idle /\ sentEvents' = {}
    /\ pushedOut' = 0 /\ overran' = FALSE

-----------------------------------------------------------------------------
(* feedback_sender_thread_func.                                            *)

\* state_cond_check: only evaluated at the start of a wait and after a signal.
FPred == fStop \/ (changed /\ elapsed # "early")

\* With no packet queued the thread waits; the deadline is the end of the
\* minimum interval for a change that is already known, and the keepalive's
\* otherwise.
FWait ==
    /\ fpc = "top" /\ queue = <<>> /\ ~FPred
    /\ fpc' = "wait" /\ fSig' = FALSE
    /\ deadline' = IF changed THEN "due" ELSE "old"
    /\ UNCHANGED <<fStop, current, changed, elapsed, sentStick, bufLen, queue,
                   outgoing, events, seenStick, sentEvents, pushedOut, overran>>

\* A signal that does not make the predicate true: the wait goes on, with the
\* deadline it had.
FWaitOn ==
    /\ fpc = "wait" /\ fSig /\ ~FPred
    /\ fSig' = FALSE
    /\ UNCHANGED <<fpc, fStop, current, changed, elapsed, deadline, sentStick,
                   bufLen, queue, outgoing, events, seenStick, sentEvents,
                   pushedOut, overran>>

FTimedOut == deadline = elapsed \/ elapsed = "old"
FAwake    == \/ fpc = "top" /\ (queue # <<>> \/ FPred)
             \/ fpc = "wait" /\ ((fSig /\ FPred) \/ FTimedOut)

\* mutant: no state is sent when nothing has changed.
NoKeepalive == changed /\ elapsed # "early" /\ current.stick # sentStick

\* Whether the feedback state is sent: a change that is due and concerns it, or
\* the keepalive.
SendsState ==
    IF changed /\ elapsed # "early" THEN current.stick # sentStick
                                    ELSE elapsed = "old"

\* The thread takes what it is going to send, and lets go of the mutex.
FTake ==
    /\ FAwake /\ ~fStop
    /\ fpc' = "send" /\ fSig' = FALSE
    /\ changed' = (changed /\ elapsed = "early")
    /\ outgoing' = [state   |-> SendsState,
                    stick   |-> IF SendsState THEN current.stick ELSE Idle,
                    packets |-> IF queue = <<>> THEN <<>> ELSE <<Head(queue)>>]
    /\ queue' = IF queue = <<>> THEN queue ELSE Tail(queue)
    /\ UNCHANGED <<fStop, current, elapsed, deadline, sentStick, bufLen, events,
                   seenStick, sentEvents, pushedOut, overran>>

FEnd ==
    /\ FAwake /\ fStop
    /\ fpc' = "gone" /\ fSig' = FALSE
    /\ UNCHANGED <<fStop, current, changed, elapsed, deadline, sentStick,
                   bufLen, queue, outgoing, events, seenStick, sentEvents,
                   pushedOut, overran>>

\* The sends, after which the thread has the mutex again.  The datagram of the
\* state may be lost.
FSend(arrives) ==
    /\ fpc = "send" /\ fpc' = "top"
    /\ outgoing' = Nothing
    /\ sentEvents' = sentEvents \cup
           UNION {p.lo..p.hi : p \in {outgoing.packets[i] : i \in DOMAIN outgoing.packets}}
    /\ IF outgoing.state
       THEN /\ sentStick' = outgoing.stick /\ elapsed' = "early"
            /\ seenStick' = IF arrives THEN outgoing.stick ELSE seenStick
       ELSE /\ arrives
            /\ UNCHANGED <<sentStick, elapsed, seenStick>>
    /\ UNCHANGED <<fStop, current, changed, deadline, fSig, bufLen, queue,
                   events, pushedOut, overran>>

\* The clock, as far as the thread can tell.
FClock ==
    /\ fpc \notin {"off", "gone"} /\ elapsed # "old"
    /\ elapsed' = IF elapsed = "early" THEN "due" ELSE "old"
    /\ UNCHANGED <<fpc, fStop, current, changed, deadline, fSig, sentStick,
                   bufLen, queue, outgoing, events, seenStick, sentEvents,
                   pushedOut, overran>>

FThread == FWait \/ FWaitOn \/ FTake \/ FEnd \/ (\E arrives \in BOOLEAN : FSend(arrives))
FNext   == FThread \/ FClock

-----------------------------------------------------------------------------
In(e, packets) == \E i \in DOMAIN packets : e \in packets[i].lo..packets[i].hi

\* A button event that was recorded is sent, or will be with what is queued,
\* unless more events than a packet repeats were pushed out of a full queue, or one
\* state had more events than the history buffer has room for next to the repeated
\* ones: the repetition and the queue together lose no event.
EventsKept ==
    pushedOut <= Resend /\ ~overran /\ fpc # "off" /\ ~fStop =>
        \A e \in 1..events : e \in sentEvents \/ In(e, queue) \/ In(e, outgoing.packets)

\* A sender that does not run has nothing; one that does not send has taken nothing.
NothingKept ==
    /\ fpc = "off" => /\ events = 0 /\ bufLen = 0 /\ queue = <<>> /\ pushedOut = 0
                      /\ sentEvents = {} /\ ~overran
    /\ fpc # "send" => outgoing = Nothing

\* What was recorded before a packet was.
Before(p) == p.hi - p.new
InRange(p, n) == 1 <= p.lo /\ p.hi <= n /\ Before(p) \in Nat

\* Packets follow each other without a gap up to the newest event, and each repeats the
\* last Resend events before it, as long as the buffer had room for them.
History ==
    /\ bufLen <= Resend /\ bufLen <= events
    /\ sentEvents \subseteq 1..events
    /\ \A i \in DOMAIN queue : InRange(queue[i], events)
    /\ \A i \in DOMAIN outgoing.packets : InRange(outgoing.packets[i], events)
    /\ \A i \in 2..Len(queue) : Before(queue[i]) = queue[i - 1].hi
    /\ queue # <<>> => queue[Len(queue)].hi = events
    /\ ~overran =>
        /\ bufLen \in {events, Resend}
        /\ \A i \in DOMAIN queue : queue[i].lo = 1 \/ queue[i].lo + Resend <= Before(queue[i]) + 1

\* What came before the queue was handed to the thread, or is repeated in the queue.
Front == IF queue = <<>> THEN events ELSE Before(queue[1])
Handed(n) == \A e \in 1..n : e \in sentEvents \/ In(e, outgoing.packets)
FrontIsHanded ==
    pushedOut <= Resend /\ ~overran =>
        Handed(Front) \/ (queue # <<>> /\ Handed(Front - pushedOut))

FeedbackInv == NothingKept /\ History /\ FrontIsHanded
=============================================================================
