------------------------------ MODULE Reassembly ------------------------------
(***************************************************************************)
(* What a reorder queue and the loop that empties it promise, without ring *)
(* buffer and without wrap-around: packets carry true numbers, "next" is   *)
(* the number the reader waits for, and "held" are the packets kept until  *)
(* it arrives.  TakionVideoReorder and TakionDataChannel implement it.     *)
(***************************************************************************)
EXTENDS Integers, FiniteSetsExt

CONSTANTS
    Numbers,    \* the packet numbers, 0..N
    Size,       \* how many numbers the reader looks ahead
    DropOldest  \* a packet too far ahead: push out old ones, or be refused

Unset == -1     \* the reader has not seen a first packet

VARIABLES next, held

reassemblyVars == <<next, held>>

\* What remains to wait for once everything in order from k is handed over.
NextMissing(k, H) == Min({m \in k..(Max(H \cup {k}) + 1) : m \notin H})
Settle(k, H) == /\ next' = NextMissing(k, H)
                /\ held' = {h \in H : h > NextMissing(k, H)}

\* Where the reader looks after it has made room for packet n.
Floor(n) ==
    LET end == Max(held \cup {next - 1}) + 1
        low == n + 1 - Size
    IN  IF low <= next THEN next ELSE IF low < end THEN low ELSE n

Wanted(n) == n >= next /\ n \notin held /\ (DropOldest \/ n < next + Size)
Kept(n)   == {h \in held : h >= Floor(n)} \cup {n}

Start == /\ next = Unset
         /\ next' \in Numbers /\ held' = {}

StartWith(n) == /\ next = Unset
                /\ \E first \in Numbers : first <= n /\ n - first < Size /\ Settle(first, {n})

Receive(n) == next # Unset /\ Wanted(n) /\ Settle(Floor(n), Kept(n))

\* The reader waited long enough: it goes on with the first packet it holds.
GiveUp == held # {} /\ Settle(Min(held), held)

ReceiveAndGiveUp(n) ==
    /\ next # Unset /\ Wanted(n)
    /\ NextMissing(Floor(n), Kept(n)) = Floor(n)        \* n is not what it waits for
    /\ Settle(Min(Kept(n)), Kept(n))

Stop == next' = Unset /\ held' = {}

Next == \/ Start \/ Stop
        \/ DropOldest /\ GiveUp
        \/ \E n \in Numbers : \/ StartWith(n) \/ Receive(n)
                              \/ DropOldest /\ ReceiveAndGiveUp(n)

Init == next \in Numbers \cup {Unset} /\ held = {}
Spec == Init /\ [][Next]_reassemblyVars
===============================================================================
