--------------------------- MODULE TakionSendBuffer ---------------------------
(***************************************************************************)
(* The resend buffer of a takion connection (lib/src/takionsendbuffer.c)   *)
(* with the three kinds of threads that share it:                          *)
(*                                                                         *)
(*   senders         chiaki_takion_send_message_data(_cont): take the next *)
(*                   sequence number, then send and push the packet under  *)
(*                   send_buffer_state_mutex                               *)
(*   takion thread   acks what the console acks, and finalises the buffer  *)
(*                   when its receive loop ends                            *)
(*   resend thread   sleeps on the condition variable and re-sends, or     *)
(*                   gives up on, every packet that is overdue             *)
(*                                                                         *)
(* The resend thread holds send_buffer.mutex exactly in the control states *)
(* of Holding; push, ack and the signal of fini take and release it inside *)
(* one action.                                                             *)
(***************************************************************************)
EXTENDS Integers

CONSTANTS
    Senders,    \* threads that call the data send API
    Size,       \* TAKION_SEND_BUFFER_SIZE (16)
    TriesMax,   \* TAKION_DATA_RESEND_TRIES_MAX (25)
    Modulus,    \* 2^32, the modulus of ChiakiSeqNum32
    InitSeq,    \* tag_local, where the numbering starts (random)
    MaxSends    \* bound: how many packets the senders number in all

ASSUME SizesAssumption ==
    /\ Size \in Nat \ {0} /\ TriesMax \in Nat /\ MaxSends \in Nat
    /\ Modulus \in Nat /\ Modulus % 2 = 0 /\ MaxSends < Modulus \div 2
    /\ InitSeq \in 0..(Modulus - 1)

VARIABLES
    slots,      \* send_buffer->packets, the stale tail included
    count,      \* send_buffer->packets_count
    shouldStop, \* send_buffer->should_stop
    rpc,        \* resend thread: control state
    idx,        \* resend thread: the i of takion_send_buffer_resend
    ackArg,     \* resend thread: the seq_num it gives up on
    tpc,        \* takion thread: control state
    open,       \* takion->send_buffer_open
    numbered,   \* seq_num_local - tag_local: how many numbers were taken
    spc,        \* sender -> control state
    held,       \* sender -> the packet_buf it holds
    wire,       \* packets that have been put on the wire
    freed,      \* history: buffer -> how often it was freed
    lost        \* history: given up with tries left, not acked

resendVars == <<rpc, idx, ackArg>>
senderVars == <<numbered, spc, held>>
vars == <<slots, count, shouldStop, resendVars, tpc, open, senderVars, wire, freed, lost>>

NoBuf == -1
Bufs  == 0..(MaxSends - 1)      \* the n-th packet's buffer, also its identity
Seqs  == 0..(Modulus - 1)
NumOf(buf) == (InitSeq + buf) % Modulus

\* "ahead": last_send_ms is later than the pass's sample of the clock, so the
\* unsigned difference is huge; "old": more than the resend timeout ago.
Stamps == {"fresh", "ahead", "old"}
Packet == [seq : Seqs, buf : Bufs \cup {NoBuf}, tries : 0..TriesMax, stamp : Stamps]
Zeroed == [seq |-> 0, buf |-> NoBuf, tries |-> 0, stamp |-> "fresh"]

\* chiaki_seq_num_32_lt (RFC 1982): false when equal or exactly half way around.
SeqLt(a, b) == \/ a < b /\ b - a < Modulus \div 2
               \/ a > b /\ a - b > Modulus \div 2

Live   == {slots[i] : i \in 0..(count - 1)}
Queued == {p.buf : p \in Live}
Covers(ack, p) == p.seq = ack \/ SeqLt(p.seq, ack)

Holding    == {"top", "willTimed", "willUntimed", "check", "scan"}
InPass     == {"scan", "unlocked", "giveup", "relock"}
MutexFree  == rpc \notin Holding
StateFree  == \A s \in Senders : spc[s] # "sent"    \* send_buffer_state_mutex

-------------------------------------------------------------------------------
(* chiaki_takion_send_buffer_ack: one pass that closes each gap when it meets
   the next one, and the last gap at the end.                               *)

MemMove(mem, dst, src, n) ==
    [k \in DOMAIN mem |-> IF k \in dst..(dst + n - 1) THEN mem[src + k - dst] ELSE mem[k]]

NoGap == -1

AckLoopUnmoved(ack, gap, i) ==      \* mutant: a second gap closes only at the end
    IF ~Covers(ack, gap.mem[i])        THEN gap
    ELSE IF gap.start = NoGap          THEN [gap EXCEPT !.start = i, !.shift = 1]
    ELSE [gap EXCEPT !.shift = @ + 1]

AckLoop(ack, gap, i) ==
    IF ~Covers(ack, gap.mem[i])        THEN gap
    ELSE IF gap.start = NoGap          THEN [gap EXCEPT !.start = i, !.shift = 1]
    ELSE IF gap.start + gap.shift = i  THEN [gap EXCEPT !.shift = @ + 1]
    ELSE [mem   |-> MemMove(gap.mem, gap.start, gap.start + gap.shift,
                            i - (gap.start + gap.shift)),
          start |-> i - gap.shift,
          shift |-> gap.shift + 1]

\* The gap when the loop has seen the first n slots.
AckGap(ack, mem, n) ==
    LET gap[i \in 0..n] == IF i = 0 THEN [mem |-> mem, start |-> NoGap, shift |-> 0]
                                    ELSE AckLoop(ack, gap[i - 1], i - 1)
    IN  gap[n]

Compacted(ack, mem, n) ==
    LET gap == AckGap(ack, mem, n)
        src == gap.start + gap.shift
    IN  [mem   |-> IF gap.start # NoGap /\ src < n
                   THEN MemMove(gap.mem, gap.start, src, n - src) ELSE gap.mem,
         count |-> n - gap.shift]

Free(bufs) == freed' = [b \in Bufs |-> freed[b] + (IF b \in bufs THEN 1 ELSE 0)]

RemoveAcked(ack) ==
    LET after == Compacted(ack, slots, count) IN
    /\ slots' = after.mem
    /\ count' = after.count
    /\ Free({p.buf : p \in {q \in Live : Covers(ack, q)}})

-------------------------------------------------------------------------------
(* chiaki_cond_signal, under the mutex: the blocked resend thread, if any,
   will run again.                                                          *)
Signalled == CASE rpc = "timed"   -> "timedWoken"
               [] rpc = "untimed" -> "untimedWoken"
               [] OTHER           -> rpc

Init ==
    /\ slots = [i \in 0..(Size - 1) |-> Zeroed]
    /\ count = 0 /\ shouldStop = FALSE
    /\ rpc = "top" /\ idx = 0 /\ ackArg = 0
    /\ tpc = "run" /\ open = TRUE
    /\ numbered = 0
    /\ spc = [s \in Senders |-> "idle"] /\ held = [s \in Senders |-> NoBuf]
    /\ wire = {} /\ lost = {}
    /\ freed = [b \in Bufs |-> 0]

(* ---- senders ---- *)

\* The number is taken under seq_num_local_mutex and kept even if the send fails.
Number(s) ==
    /\ spc[s] = "idle" /\ numbered < MaxSends
    /\ held' = [held EXCEPT ![s] = numbered]
    /\ numbered' = numbered + 1
    /\ spc' = [spc EXCEPT ![s] = "numbered"]
    /\ UNCHANGED <<slots, count, shouldStop, resendVars, tpc, open, wire, freed, lost>>

\* takion_send_buffered up to the push; the sender keeps send_buffer_state_mutex
\* when the send succeeded. Refused and failed sends free the packet.
Send(s) ==
    /\ spc[s] = "numbered" /\ StateFree
    /\ \/ /\ open
          /\ wire' = wire \cup {held[s]}
          /\ spc' = [spc EXCEPT ![s] = "sent"]
          /\ UNCHANGED <<held, freed>>
       \/ /\ Free({held[s]})            \* not open, or chiaki_takion_send failed
          /\ spc' = [spc EXCEPT ![s] = "idle"]
          /\ held' = [held EXCEPT ![s] = NoBuf]
          /\ UNCHANGED wire
    /\ UNCHANGED <<slots, count, shouldStop, resendVars, tpc, open, numbered, lost>>

\* Overflow or a duplicate number.
PushRefused(seq) == count >= Size \/ \E p \in Live : p.seq = seq

\* "buffer was empty before, so it will sleep without timeout"
WakesAtTwo(n) == n = 2      \* mutant
Wakes(n) == n = 1

\* chiaki_takion_send_buffer_push and the release of send_buffer_state_mutex.
\* The result of the push is ignored: an overflow only frees the packet.
Push(s) ==
    LET buf == held[s]
        new == [seq |-> NumOf(buf), buf |-> buf, tries |-> 0, stamp |-> "fresh"]
    IN
    /\ spc[s] = "sent" /\ MutexFree
    /\ IF PushRefused(NumOf(buf))
       THEN Free({buf}) /\ UNCHANGED <<slots, count, rpc>>
       ELSE /\ \E stamp \in IF rpc \in InPass THEN {"fresh", "ahead"} ELSE {"fresh"} :
                   slots' = [slots EXCEPT ![count] = [new EXCEPT !.stamp = stamp]]
            /\ count' = count + 1
            /\ rpc' = IF Wakes(count') THEN Signalled ELSE rpc
            /\ UNCHANGED freed
    /\ spc' = [spc EXCEPT ![s] = "idle"]
    /\ held' = [held EXCEPT ![s] = NoBuf]
    /\ UNCHANGED <<shouldStop, idx, ackArg, tpc, open, numbered, wire, lost>>

(* ---- takion thread ---- *)

\* The console acks cumulatively what it has received without a gap; an ack may be
\* late or repeated (takion_handle_packet_message_data_ack).
Ack(buf) ==
    /\ tpc = "run" /\ MutexFree
    /\ 0..buf \subseteq wire
    /\ RemoveAcked(NumOf(buf))
    /\ UNCHANGED <<shouldStop, resendVars, tpc, open, senderVars, wire, lost>>

\* The receive loop ends: an error, or chiaki_takion_close.
LoopEnds ==
    /\ tpc = "run" /\ tpc' = "ending"
    /\ UNCHANGED <<slots, count, shouldStop, resendVars, open, senderVars, wire, freed, lost>>

CloseDoorUnlocked ==        \* mutant: the flag is cleared without the mutex
    /\ tpc = "ending"
    /\ open' = FALSE /\ tpc' = "closed"
    /\ UNCHANGED <<slots, count, shouldStop, resendVars, senderVars, wire, freed, lost>>

\* takion_set_send_buffer_open(takion, false)
CloseDoor ==
    /\ tpc = "ending" /\ StateFree
    /\ open' = FALSE /\ tpc' = "closed"
    /\ UNCHANGED <<slots, count, shouldStop, resendVars, senderVars, wire, freed, lost>>

FiniSignalUnlocked ==       \* mutant: flag and signal without the mutex
    /\ tpc = "closed"
    /\ shouldStop' = TRUE /\ rpc' = Signalled /\ tpc' = "joining"
    /\ UNCHANGED <<slots, count, idx, ackArg, open, senderVars, wire, freed, lost>>

\* chiaki_takion_send_buffer_fini up to the join: flag and signal under the mutex
FiniSignal ==
    /\ tpc = "closed" /\ MutexFree
    /\ shouldStop' = TRUE /\ rpc' = Signalled /\ tpc' = "joining"
    /\ UNCHANGED <<slots, count, idx, ackArg, open, senderVars, wire, freed, lost>>

\* ... and from the join on: what is still queued is freed
FiniJoined ==
    /\ tpc = "joining" /\ rpc = "done"
    /\ Free(Queued) /\ count' = 0 /\ tpc' = "gone"
    /\ UNCHANGED <<slots, shouldStop, resendVars, open, senderVars, wire, lost>>

(* ---- resend thread: takion_send_buffer_thread_func ---- *)

resendFrame == UNCHANGED <<slots, count, shouldStop, tpc, open, senderVars, wire, freed, lost>>

\* The predicate that ends the wait in the two forms of waiting.
PredPackets   == shouldStop
PredStopOnly  == shouldStop      \* mutant
PredNoPackets == shouldStop \/ count > 0

\* Top of the loop: with packets a wait with a deadline, without packets one that
\* only a signal ends. The mutex is held until the thread is blocked.
StartWait ==
    /\ rpc = "top"
    /\ rpc' = IF count > 0 THEN IF PredPackets THEN "check" ELSE "willTimed"
              ELSE IF PredNoPackets THEN "check" ELSE "willUntimed"
    /\ UNCHANGED <<idx, ackArg>> /\ resendFrame

Block ==
    /\ rpc \in {"willTimed", "willUntimed"}
    /\ rpc' = IF rpc = "willTimed" THEN "timed" ELSE "untimed"
    /\ UNCHANGED <<idx, ackArg>> /\ resendFrame

\* The deadline of the timed wait passes.
Timeout ==
    /\ rpc = "timed" /\ rpc' = "timedOut"
    /\ UNCHANGED <<idx, ackArg>> /\ resendFrame

\* A blocked thread may also return from the wait for no reason.
SpuriousWake ==
    /\ rpc \in {"timed", "untimed"} /\ rpc' = Signalled
    /\ UNCHANGED <<idx, ackArg>> /\ resendFrame

\* Back from the wait with the mutex: look at the predicate again.
Reacquire ==
    /\ rpc \in {"timedOut", "timedWoken", "untimedWoken"}
    /\ rpc' = CASE rpc = "timedOut"     -> "check"
                [] rpc = "timedWoken"   -> IF PredPackets THEN "check" ELSE "willTimed"
                [] rpc = "untimedWoken" -> IF PredNoPackets THEN "check" ELSE "willUntimed"
    /\ UNCHANGED <<idx, ackArg>> /\ resendFrame

\* The timed wait may fail outright (set_timeout leaves tv_nsec at 10^9, which the
\* system refuses): then the loop is left although nobody asked the thread to stop.
TimedWaitFails ==
    /\ rpc = "willTimed" /\ rpc' = "done"
    /\ UNCHANGED <<idx, ackArg>> /\ resendFrame

\* After the wait: stop, or begin a pass over the packets.
Check ==
    /\ rpc = "check"
    /\ rpc' = IF shouldStop THEN "done" ELSE "scan"
    /\ idx' = 0
    /\ UNCHANGED ackArg /\ resendFrame

(* takion_send_buffer_resend; the clock is sampled once per pass *)

Due(p) == p.stamp \in {"old", "ahead"}

PassEnds ==
    /\ rpc = "scan" /\ idx >= count /\ rpc' = "top"
    /\ slots' = [i \in DOMAIN slots |-> IF slots[i].stamp = "ahead"
                                        THEN [slots[i] EXCEPT !.stamp = "fresh"] ELSE slots[i]]
    /\ idx' = 0
    /\ UNCHANGED <<ackArg, count, shouldStop, tpc, open, senderVars, wire, freed, lost>>

NotDue ==
    /\ rpc = "scan" /\ idx < count /\ ~Due(slots[idx])
    /\ idx' = idx + 1
    /\ UNCHANGED <<rpc, ackArg>> /\ resendFrame

Resend ==
    /\ rpc = "scan" /\ idx < count /\ Due(slots[idx]) /\ slots[idx].tries < TriesMax
    /\ slots' = [slots EXCEPT ![idx].stamp = "fresh", ![idx].tries = @ + 1]
    /\ wire' = wire \cup {slots[idx].buf}
    /\ idx' = idx + 1
    /\ UNCHANGED <<rpc, ackArg, count, shouldStop, tpc, open, senderVars, freed, lost>>

\* Out of tries: the mutex is released before packet->seq_num is read from the slot.
Exhausted ==
    /\ rpc = "scan" /\ idx < count /\ Due(slots[idx]) /\ slots[idx].tries >= TriesMax
    /\ rpc' = "unlocked"
    /\ UNCHANGED <<idx, ackArg>> /\ resendFrame

ReadSeq ==
    /\ rpc = "unlocked" /\ rpc' = "giveup"
    /\ ackArg' = slots[idx].seq
    /\ UNCHANGED idx /\ resendFrame

\* The give-up is an ordinary, cumulative ack.
GiveUp ==
    /\ rpc = "giveup" /\ rpc' = "relock"
    /\ RemoveAcked(ackArg)
    /\ lost' = lost \cup {p.buf : p \in {q \in Live : Covers(ackArg, q) /\ q.tries < TriesMax}}
    /\ ackArg' = 0
    /\ UNCHANGED <<idx, shouldStop, tpc, open, senderVars, wire>>

\* "if(i > 0) i -= 1; continue": the loop's i++ then skips slot 0 when i was 0.
Relock ==
    /\ rpc = "relock" /\ rpc' = "scan"
    /\ idx' = IF idx > 0 THEN idx ELSE 1
    /\ UNCHANGED ackArg /\ resendFrame

\* Time: the given packets' last_send_ms is now more than the timeout ago. A pass
\* does not see time pass.
Elapse(expired) ==
    /\ rpc \notin InPass /\ expired # {}
    /\ slots' = [i \in DOMAIN slots |-> IF i \in expired
                                        THEN [slots[i] EXCEPT !.stamp = "old"] ELSE slots[i]]
    /\ UNCHANGED <<count, shouldStop, resendVars, tpc, open, senderVars, wire, freed, lost>>

FreshSlots == {i \in 0..(count - 1) : slots[i].stamp = "fresh"}

ResendThread == \/ StartWait \/ Block \/ Reacquire \/ Check \/ PassEnds \/ NotDue \/ Resend
                \/ Exhausted \/ ReadSeq \/ GiveUp \/ Relock

TakionThread == LoopEnds \/ CloseDoor \/ FiniSignal \/ FiniJoined \/ \E b \in Bufs : Ack(b)

\* Everything has been sent or refused and the connection is gone.
Finished ==
    /\ tpc = "gone" /\ numbered = MaxSends /\ \A s \in Senders : spc[s] = "idle"
    /\ UNCHANGED vars

Next ==
    \/ \E s \in Senders : Number(s) \/ Send(s) \/ Push(s)
    \/ TakionThread
    \/ ResendThread \/ Timeout \/ SpuriousWake \/ TimedWaitFails
    \/ \E expired \in SUBSET FreshSlots : Elapse(expired)
    \/ Finished

\* The resend thread is scheduled, deadlines are absolute and pass whatever wakes the
\* thread in between, time passes, and a thread waiting for a mutex gets it (the
\* resend thread leaves it free for 100 ms at a time). Nothing makes the console ack,
\* senders send, or the loop end.
Fairness ==
    /\ WF_vars(ResendThread)
    /\ SF_vars(Timeout)
    /\ SF_vars(Elapse(FreshSlots))
    /\ SF_vars(\E s \in Senders : Push(s))
    /\ SF_vars(CloseDoor \/ FiniSignal \/ FiniJoined)

Spec == Init /\ [][Next]_vars /\ Fairness

-------------------------------------------------------------------------------
(* Properties *)

\* Every variable has its type; in particular a push never writes past the array and the
\* resend thread never reads a slot beyond it.
TypeOK ==
    /\ slots \in [0..(Size - 1) -> Packet] /\ count \in 0..Size
    /\ shouldStop \in BOOLEAN /\ open \in BOOLEAN
    /\ rpc \in Holding \cup InPass \cup
               {"timed", "untimed", "timedOut", "timedWoken", "untimedWoken", "done"}
    /\ idx \in 0..Size /\ ackArg \in Seqs
    /\ tpc \in {"run", "ending", "closed", "joining", "gone"}
    /\ numbered \in 0..MaxSends
    /\ spc \in [Senders -> {"idle", "numbered", "sent"}]
    /\ held \in [Senders -> Bufs \cup {NoBuf}]
    /\ wire \subseteq Bufs /\ lost \subseteq Bufs
    /\ freed \in [Bufs -> Nat]

\* A resend thread that sleeps without a deadline has nothing to do: no packet is
\* queued and no stop was requested (the lost wake-up of PLE-490).
NoLostWakeup == rpc = "untimed" => count = 0 /\ ~shouldStop

\* Every packet buffer has one owner and is freed once: no buffer is freed twice, none
\* that a sender holds or the queue still lists is freed, and once the connection is
\* gone and the senders are out none is leaked.
BuffersFreedOnce ==
    /\ \A b \in Bufs : freed[b] <= 1
    /\ \A b \in Queued \cup {held[s] : s \in Senders} : b # NoBuf => freed[b] = 0
    /\ tpc = "gone" /\ (\A s \in Senders : spc[s] = "idle")
           => \A b \in 0..(numbered - 1) : freed[b] = 1

\* Who owns a numbered buffer that is not freed: one sender, or one slot of the queue.
Owned(b) == b \in Queued \/ \E s \in Senders : held[s] = b
Holders ==
    /\ \A s \in Senders : IF spc[s] = "idle" THEN held[s] = NoBuf
                                            ELSE held[s] \in 0..(numbered - 1) \ Queued
    /\ \A s, t \in Senders : held[s] = held[t] /\ s # t => held[s] = NoBuf
Listed ==
    \A i \in 0..(count - 1) :
        /\ slots[i].buf \in 0..(numbered - 1) /\ slots[i].seq = NumOf(slots[i].buf)
        /\ \A j \in 0..(i - 1) : slots[j].buf # slots[i].buf
Disowned == \A b \in Bufs : freed[b] = IF b < numbered /\ ~Owned(b) THEN 1 ELSE 0
Owners == Holders /\ Listed /\ Disowned

\* After the door is closed no sender is inside, and at the end nothing is queued.
Closed ==
    /\ tpc \in {"closed", "joining", "gone"} => ~open /\ StateFree
    /\ tpc = "gone" => count = 0 /\ rpc = "done"

\* Where the resend thread is when it looks at a slot, and before it sleeps for good.
Looking ==
    /\ rpc \in {"unlocked", "giveup", "relock"} => idx < Size
    /\ rpc = "willUntimed" => count = 0 /\ ~shouldStop

\* What holds of the buffer in every state: types, bounds and the ownership of packets;
\* with NoLostWakeup it is inductive.
SendBufferInv == TypeOK /\ BuffersFreedOnce /\ Owners /\ Closed /\ Looking

\* Whatever the order in which two senders pushed, an ack takes out exactly the packets
\* up to the acked number and leaves the others, with their tries and in their order.
AckTakesPrefix ==
    [][\A b \in Bufs : Ack(b) =>
          \E from \in [0..(count' - 1) -> 0..(count - 1)] :
              /\ {from[i] : i \in DOMAIN from}
                     = {i \in 0..(count - 1) : ~Covers(NumOf(b), slots[i])}
              /\ \A i, j \in DOMAIN from : i < j => from[i] < from[j]
              /\ \A i \in DOMAIN from : slots'[i] = slots[from[i]]]_vars

\* Only the console's ack and a give-up shorten the queue before the connection ends.
\* A queued packet does not stay for ever: it is acked or given up after its tries,
\* unless the resend thread left its loop because a wait failed.
QueuedLeaves == \A b \in Bufs : b \in Queued ~> (b \notin Queued \/ rpc = "done")

\* chiaki_takion_send_buffer_fini returns: neither a sender inside the buffer nor the
\* sleeping resend thread keeps the takion thread for ever (PLE-490).
FiniReturns == tpc = "ending" ~> tpc = "gone"

\* "re-sending until it is acked": giving up on one packet never takes a packet along
\* that still has tries left and that the console has not acked.
GiveUpSparesOthers == lost = {}
===============================================================================
