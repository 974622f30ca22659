----------------------------- MODULE ReorderQueue -----------------------------
(***************************************************************************)
(* The ring buffer of lib/src/reorderqueue.c as operators on a queue value *)
(* q = [begin, count, slot].  An element's sequence number is in           *)
(* 0..Modulus-1 (RFC 1982, lib/include/chiaki/seqnum.h); element n of the  *)
(* sender's, counted from 0, has the number Wire(n).  The queue's own      *)
(* begin and end are 64 bits wide and, with 16-bit numbers, leave that     *)
(* space when an addition crosses its end, see Add.  A slot outside        *)
(* the window keeps the flag and the pointer it had when it was pulled:    *)
(* the code clears a flag only when the window grows over its slot.        *)
(***************************************************************************)
EXTENDS Integers, FiniteSetsExt

CONSTANTS
    Modulus,    \* 2^16 for video packets, 2^32 for control data
    AddWraps,   \* does seq_num_add stay in the number space: 32 bit, not 16
    QueueSize,  \* 1 << size_exp: 64 for video, 16 for control data
    NoUser,     \* the contents of a slot that was never written
    InitSeq     \* the sequence number of element 0

ASSUME RingAssumption ==
    /\ Modulus \in Nat /\ QueueSize \in Nat \ {0}
    /\ Modulus % QueueSize = 0 /\ QueueSize < Modulus \div 2
    /\ Modulus = 2 * (Modulus \div 2) /\ InitSeq \in 0..(Modulus - 1)
    /\ AddWraps \in BOOLEAN

Wire(n) == (InitSeq + n) % Modulus

\* seq_num_{lt,gt} cast to the width of the numbers; neither holds at exactly half
\* the number space.  The = of ge compares 64 bits.
Lt(a, b)  == (b - a) % Modulus \in 1..(Modulus \div 2 - 1)
Gt(a, b)  == Lt(b, a)
Ge(a, b)  == a = b \/ Gt(a, b)

\* seq_num_add casts the operands.  32-bit ones are added in 32 bits; 16-bit ones are
\* promoted to int and the sum is not cast back: 65535 + 1 is 65536.
Add(a, k) == IF AddWraps THEN (a + k) % Modulus ELSE (a % Modulus) + (k % Modulus)

\* a after k additions of 1.
Stepped(a, k) == IF k = 0 THEN a ELSE Add(a + (k - 1), 1)
Slot(seq) == seq % QueueSize

EmptyQueue(start) ==
    [begin |-> start, count |-> 0,
     slot  |-> [i \in 0..(QueueSize - 1) |-> [set |-> FALSE, user |-> NoUser]]]

End(q)      == Add(q.begin, q.count)
Entry(q, i) == q.slot[Slot(Add(q.begin, i))]
IsSet(q, i) == i < q.count /\ Entry(q, i).set
Filled(q)   == {i \in 0..(q.count - 1) : Entry(q, i).set}
UsersAt(q, I) == {Entry(q, i).user : i \in I}

\* The numbers queue->begin can have.
Begins == 0..(Modulus + QueueSize - 1)

\* How often the user is in a list of those handed back.
Count(users, x) == Cardinality({i \in DOMAIN users : users[i] = x})

-------------------------------------------------------------------------------
(* chiaki_reorder_queue_push.  The result is the queue and the users that
   were handed to the drop callback.                                         *)

Put(q, seq, user) == [q EXCEPT !.slot[Slot(seq)] = [set |-> TRUE, user |-> user]]

\* The window grows to its new end; the slots it grows over lose their flag.
GrowStale(q, newEnd) ==             \* mutant: they keep it
    LET m == Min({k \in 0..(Modulus - 1) : ~Lt(Add(End(q), k), newEnd)}) IN
    [q EXCEPT !.count = @ + m]

Grow(q, newEnd) ==
    LET m == Min({k \in 0..(Modulus - 1) : ~Lt(Add(End(q), k), newEnd)})
        fresh == {Slot(Add(End(q), k)) : k \in 0..(m - 1)}
    IN  [q EXCEPT !.count = @ + m,
                  !.slot = [i \in DOMAIN @ |->
                               IF i \in fresh THEN [@[i] EXCEPT !.set = FALSE] ELSE @[i]]]

\* Would the window, after k drops from its begin, still be too short?
TooShort(q, k, newEnd) == Lt(Add(End(q), QueueSize - (q.count - k)), newEnd)

MakeRoomOneShort(q, seq) ==         \* mutant: stops dropping one element early
    LET newEnd == Add(seq, 1)
        k == Min({j \in 0..q.count : j = q.count \/ ~TooShort(q, j + 1, newEnd)})
        all == k = q.count /\ TooShort(q, 0, newEnd)
    IN  [queue |-> [q EXCEPT !.begin = IF all THEN seq ELSE Stepped(@, k), !.count = @ - k],
         dropped |-> UsersAt(q, Filled(q) \cap 0..(k - 1))]

\* Drop from the begin until the element fits or nothing is left; an empty
\* queue is moved to the element.
MakeRoom(q, seq) ==
    LET newEnd == Add(seq, 1)
        k == Min({j \in 0..q.count : j = q.count \/ ~TooShort(q, j, newEnd)})
        all == k = q.count /\ TooShort(q, 0, newEnd)
    IN  [queue |-> [q EXCEPT !.begin = IF all THEN seq ELSE Stepped(@, k), !.count = @ - k],
         dropped |-> UsersAt(q, Filled(q) \cap 0..(k - 1))]

Refused(q, user) == [queue |-> q, dropped |-> {user}]

AppendedAlways(q, seq, user, dropOldest) ==     \* mutant: forgets the drop strategy
    LET room == MakeRoom(q, seq) IN
    [queue |-> Put(Grow(room.queue, Add(seq, 1)), seq, user), dropped |-> room.dropped]

\* An element beyond the end, with the window already at or before it.
Appended(q, seq, user, dropOldest) ==
    IF TooShort(q, 0, Add(seq, 1)) /\ ~dropOldest
    THEN Refused(q, user)
    ELSE LET room == MakeRoom(q, seq) IN
         [queue |-> Put(Grow(room.queue, Add(seq, 1)), seq, user), dropped |-> room.dropped]

PushNoRebase(q, seq, user, dropOldest) ==   \* mutant: half way around is never admitted
    CASE Ge(seq, q.begin) /\ Lt(seq, End(q)) ->
            IF q.slot[Slot(seq)].set THEN Refused(q, user)
            ELSE [queue |-> Put(q, seq, user), dropped |-> {}]
      [] Lt(seq, q.begin) -> Refused(q, user)
      [] ~Lt(seq, q.begin) /\ Ge(seq, End(q)) -> Appended(q, seq, user, dropOldest)
      [] OTHER -> Refused(q, user)

PushNotHead(q, seq, user, dropOldest) ==    \* mutant: gt for ge, the head is refused
    CASE Gt(seq, q.begin) /\ Lt(seq, End(q)) ->
            IF q.slot[Slot(seq)].set THEN Refused(q, user)
            ELSE [queue |-> Put(q, seq, user), dropped |-> {}]
      [] Ge(seq, End(q)) -> Appended(q, seq, user, dropOldest)
      [] OTHER -> Refused(q, user)

Push(q, seq, user, dropOldest) ==
    CASE Ge(seq, q.begin) /\ Lt(seq, End(q)) ->
            IF q.slot[Slot(seq)].set THEN Refused(q, user)          \* received twice
            ELSE [queue |-> Put(q, seq, user), dropped |-> {}]
      [] Lt(seq, q.begin) -> Refused(q, user)
      [] ~Lt(seq, q.begin) /\ Ge(seq, End(q)) -> Appended(q, seq, user, dropOldest)
      [] OTHER ->                       \* half the space away, or = failed on 64 bits
            IF q.count = 0 /\ dropOldest
            THEN Appended([q EXCEPT !.begin = seq], seq, user, dropOldest)
            ELSE Refused(q, user)

-------------------------------------------------------------------------------
(* chiaki_reorder_queue_pull, called until it returns false.                 *)

\* The window gives up its first k places and begins at "begin".
From(q, begin, k) == [q EXCEPT !.begin = begin, !.count = @ - k]

RunLength(q) == Min({k \in 0..q.count : ~IsSet(q, k)})
PullAll(q) == [queue |-> From(q, Stepped(q.begin, RunLength(q)), RunLength(q)),
               users |-> [k \in 1..RunLength(q) |-> Entry(q, k - 1).user]]

\* The caller's loop over chiaki_reorder_queue_peek for the first element, and its
\* jump over the k places before it.
FirstSet(q) == Min({k \in 0..q.count : k = q.count \/ IsSet(q, k)})
Skip(q, k)  == From(q, Add(q.begin, k), k)
===============================================================================
