--------------------------- MODULE TakionDataChannel ---------------------------
(***************************************************************************)
(* Control data from the console to the callback (lib/src/takion.c): the   *)
(* data queue, its flush with the cumulative ack, and the re-check of what *)
(* is queued when the remote key becomes known.  The console and the       *)
(* network are outside: the console repeats what is not acked, up to a     *)
(* window; the network loses, repeats and reorders in both directions.     *)
(*                                                                         *)
(* A chunk is its true number n; the wire carries (InitSeq + n) % Modulus. *)
(***************************************************************************)
EXTENDS Integers, Sequences, FiniteSets, SequencesExt, ReorderQueue

CONSTANTS
    N,          \* bound: the chunks are 0..N-1
    Window,     \* how many chunks the console sends ahead of its acks
    Bang        \* the chunk whose callback calls chiaki_takion_set_crypt

Chunks == 0..(N - 1)

ASSUME DataAssumption ==
    /\ N \in Nat \ {0} /\ Window \in Nat \ {0} /\ Bang \in 0..(N - 1)
    /\ N <= Modulus \div 2 /\ NoUser \notin Chunks

VARIABLES
    running,    \* the receive loop has not ended
    crypt,      \* off; or enabled and the key missing, set, or seen by the loop
    crashed,    \* a write through a null pointer
    inbox,      \* the datagram that was received and is not yet handled
    queue,      \* takion->data_queue
    base,       \* ghost: the true number of queue.begin
    delivered,  \* history: the chunks given to the callback
    loaned,     \* history: chunk -> receive buffers of it not yet released
    sent,       \* console: how many chunks it has sent
    acked,      \* console: how many chunks it knows to be acked
    acks        \* acks that are or were on the network

consoleVars == <<sent, acked>>
vars == <<running, crypt, crashed, inbox, queue, base, delivered, loaned, consoleVars, acks>>

Release(bufs) == loaned' = [n \in Chunks |-> loaned[n] - Count(bufs, n)]

Alive == running /\ ~crashed

-------------------------------------------------------------------------------
(* The console and the network *)

ConsoleSends ==
    /\ sent < N /\ sent < acked + Window
    /\ sent' = sent + 1
    /\ UNCHANGED <<running, crypt, crashed, inbox, queue, base, delivered, loaned, acked, acks>>

AckArrives ==
    \E n \in 0..(sent - 1) :
        /\ Wire(n) \in acks /\ n >= acked
        /\ acked' = n + 1
        /\ UNCHANGED <<running, crypt, crashed, inbox, queue, base, delivered, loaned, sent, acks>>

-------------------------------------------------------------------------------
(* The takion thread *)

\* takion_flush_data_queue after everything in order was pulled: the ack names
\* the last chunk pulled, and there is none when nothing was.
AckAlways(users) ==                 \* mutant: an ack even when nothing was pulled
    acks' = acks \cup {IF users = <<>> THEN 0 ELSE Wire(Last(users))}

Ack(users) == acks' = acks \cup (IF users = <<>> THEN {} ELSE {Wire(Last(users))})

\* The callback for a chunk may set the key (streamconnection.c, BANG).
Callbacks(users) ==
    /\ delivered' = delivered \o users
    /\ crypt' = IF crypt = "missing" /\ Bang \in ToSet(users) THEN "set" ELSE crypt

\* takion_recv: some copy of a chunk arrives.
Arrives(n) ==
    /\ Alive /\ inbox = NoUser /\ n < sent
    /\ inbox' = n
    /\ loaned' = [loaned EXCEPT ![n] = @ + 1]
    /\ UNCHANGED <<running, crypt, crashed, queue, base, delivered, consoleVars, acks>>

HandleNoRelease ==                  \* mutant: a refused chunk is not released
    /\ Alive /\ inbox # NoUser
    /\ inbox' = NoUser
    /\ LET p == Push(queue, Wire(inbox), inbox, FALSE)
           f == PullAll(p.queue)
       IN  /\ queue' = f.queue
           /\ base' = base + ((f.queue.begin - queue.begin) % Modulus)
           /\ Callbacks(f.users) /\ Ack(f.users)
           /\ Release(f.users)
    /\ UNCHANGED <<running, crashed, consoleVars>>

\* takion_handle_packet_message_data: push, then flush.
Handle ==
    /\ Alive /\ inbox # NoUser
    /\ inbox' = NoUser
    /\ LET p == Push(queue, Wire(inbox), inbox, FALSE)
           f == PullAll(p.queue)
       IN  /\ queue' = f.queue
           /\ base' = base + ((f.queue.begin - queue.begin) % Modulus)
           /\ Callbacks(f.users) /\ Ack(f.users)
           /\ Release(SetToSeq(p.dropped) \o f.users)
    /\ UNCHANGED <<running, crashed, consoleVars>>

\* The top of the loop, once after the key was set: the MAC of every queued
\* chunk is to be checked again.  chiaki_reorder_queue_peek is given NULL for
\* seq_num and writes to it as soon as it finds an element.
Recheck ==
    /\ Alive /\ inbox = NoUser /\ crypt = "set"
    /\ IF Filled(queue) = {} THEN crypt' = "checked" /\ UNCHANGED crashed
                             ELSE crashed' = TRUE /\ UNCHANGED crypt
    /\ UNCHANGED <<running, inbox, queue, base, delivered, loaned, consoleVars, acks>>

\* The receive fails: the queue is finalised with what it holds.
LoopEnds ==
    /\ Alive /\ inbox = NoUser /\ crypt # "set"
    /\ running' = FALSE
    /\ queue' = EmptyQueue(queue.begin)
    /\ Release(SetToSeq(UsersAt(queue, Filled(queue))))
    /\ UNCHANGED <<crypt, crashed, inbox, base, delivered, consoleVars, acks>>

Init ==
    /\ running = TRUE /\ crypt \in {"off", "missing"} /\ crashed = FALSE
    /\ inbox = NoUser /\ queue = EmptyQueue(Wire(0)) /\ base = 0
    /\ delivered = <<>> /\ loaned = [n \in Chunks |-> 0]
    /\ sent = 0 /\ acked = 0 /\ acks = {}

Next == \/ ConsoleSends \/ AckArrives \/ Handle \/ Recheck \/ LoopEnds
        \/ \E n \in Chunks : Arrives(n)

\* The console repeats the oldest chunk that is not acked until a copy of it
\* gets through, and the thread handles what it received: Handle is always
\* enabled then and empties the inbox, so the last conjunct is its weak
\* fairness, without making TLC compute a flush to know that it is enabled.
Spec == Init /\ [][Next]_vars /\ SF_vars(Arrives(base)) /\ []<>(inbox = NoUser)

-------------------------------------------------------------------------------
Held == {base + i : i \in Filled(queue)}

\* Every variable has its type, and the window never outgrows the ring (the
\* assert of chiaki_reorder_queue_push).
TypeOK ==
    /\ running \in BOOLEAN /\ crashed \in BOOLEAN
    /\ crypt \in {"off", "missing", "set", "checked"}
    /\ inbox \in Chunks \cup {NoUser}
    /\ queue \in [begin : Begins, count : 0..QueueSize,
                  slot : [0..(QueueSize - 1) -> [set : BOOLEAN, user : Chunks \cup {NoUser}]]]
    /\ base \in 0..N /\ delivered \in Seq(Chunks) /\ loaned \in [Chunks -> Nat]
    /\ sent \in 0..N /\ acked \in 0..sent /\ acks \subseteq 0..(Modulus - 1)

\* The window is behind what the console has sent and begins at its next chunk, which is
\* missing, and every chunk it holds is in the slot of its number.
InFlight ==
    /\ queue.begin % Modulus = Wire(base)
    /\ base + queue.count <= sent /\ (inbox # NoUser => inbox < sent)
    /\ ~IsSet(queue, 0)
    /\ \A i \in Filled(queue) : Entry(queue, i).user = base + i

\* The control channel is reliable: the callback sees every chunk once, in order
\* and without a gap, though chunks arrive lost, repeated, reordered and beyond
\* the window.
DeliveredInOrder ==
    /\ Len(delivered) = base
    /\ \A i \in DOMAIN delivered : delivered[i] = i - 1

\* An ack on the network never covers a chunk that the callback has not seen:
\* the console would forget it, and nobody would send it again.
AckedIsDelivered ==
    /\ acks \subseteq {Wire(n) : n \in ToSet(delivered)}
    /\ acked <= Len(delivered)

\* takion_receive_buffer_release is called exactly once for every buffer that
\* was received, in or out of order, repeated, refused or left at the end.
BuffersConserved ==
    \A n \in Chunks :
        loaned[n] = Cardinality({i \in Filled(queue) : Entry(queue, i).user = n})
                    + (IF inbox = n THEN 1 ELSE 0)

\* What holds of the channel between the actions.
DataChannelInv == TypeOK /\ InFlight /\ DeliveredInOrder /\ BuffersConserved

\* Push and flush are Reassembly with the numbers wrapped: nothing is pushed
\* out, and a chunk too far ahead is refused.
Unwrapped == INSTANCE Reassembly WITH
    next <- IF running THEN base ELSE -1, held <- IF running THEN Held ELSE {},
    Numbers <- Chunks, Size <- QueueSize, DropOldest <- FALSE
IsReassembly == Unwrapped!Spec

\* What the console sends reaches the callback, even when the ring is full of
\* later chunks, for as long as the connection lasts.
SentIsDelivered == \A n \in Chunks : n < sent ~> (n \in ToSet(delivered) \/ ~Alive)

\* "gkcrypt_remote is set, so it has been set, so eventually all MACs will be
\* checked": the re-check gets through the queue.
RecheckSurvives == ~crashed
===============================================================================
