--------------------------- MODULE VideoFramesProofs ---------------------------
(***************************************************************************)
(* The safety of VideoFrames, for every space of frame indices, number of  *)
(* reference slots, shape of a frame and length of the stream.             *)
(***************************************************************************)
EXTENDS VideoFrames, TLAPS

-----------------------------------------------------------------------------
(* Remainders.                                                             *)

LEMMA DivMod ==
    ASSUME NEW M \in Nat \ {0}, NEW x \in Int
    PROVE x % M \in 0..(M - 1) /\ x \div M \in Int /\ x = M * (x \div M) + (x % M)
OBVIOUS

LEMMA Multiples == ASSUME NEW M \in Nat \ {0}, NEW a \in Int, NEW b \in Int, a < b PROVE M * a + M <= M * b
<1>1. M * (b - a) = M * b - M * a
  OBVIOUS
<1>2. M * (b - a) >= M
  <2>1. b - a >= 1
    OBVIOUS
  <2> QED
    BY <2>1
<1> QED
  BY <1>1, <1>2

\* A remainder is found by writing the number with a multiple.
LEMMA ModIs ==
    ASSUME NEW M \in Nat \ {0}, NEW q \in Int, NEW r \in 0..(M - 1), NEW x \in Int, x = M * q + r
    PROVE x % M = r
<1> DEFINE p == x \div M
           s == x % M
<1>1. s \in 0..(M - 1) /\ p \in Int /\ x = M * p + s
  BY DivMod
<1> HIDE DEF p, s
<1>2. CASE p < q
  <2>1. M * p + M <= M * q
    BY <1>1, <1>2, Multiples
  <2>2. M * p \in Int /\ M * q \in Int
    BY <1>1
  <2> QED
    BY <1>1, <2>1, <2>2
<1>3. CASE q < p
  <2>1. M * q + M <= M * p
    BY <1>1, <1>3, Multiples
  <2>2. M * p \in Int /\ M * q \in Int
    BY <1>1
  <2> QED
    BY <1>1, <2>1, <2>2
<1>4. CASE p = q
  <2>1. M * p \in Int
    BY <1>1
  <2>2. s = r
    BY <1>1, <1>4, <2>1
  <2> QED
    BY <1>4, <2>2 DEF s
<1> QED
  BY <1>1, <1>2, <1>3, <1>4

LEMMA ModSmall == ASSUME NEW M \in Nat \ {0}, NEW x \in 0..(M - 1) PROVE x % M = x
<1>1. x = M * 0 + x /\ x \in Int
  OBVIOUS
<1> QED
  BY <1>1, ModIs

LEMMA ModBelow == ASSUME NEW M \in Nat \ {0}, NEW x \in (-M)..(-1) PROVE x % M = x + M
<1>1. x = M * (-1) + (x + M) /\ x \in Int /\ x + M \in 0..(M - 1) /\ -1 \in Int
  OBVIOUS
<1> QED
  BY <1>1, ModIs

\* Numbers that differ by a multiple have the same remainder.
LEMMA ModShift ==
    ASSUME NEW M \in Nat \ {0}, NEW x \in Int, NEW y \in Int, NEW k \in Int, y = x + M * k
    PROVE y % M = x % M
<1>1. PICK p \in Int : x = M * p + (x % M)
  BY DivMod
<1>2. x % M \in 0..(M - 1)
  BY DivMod
<1> DEFINE r == x % M
<1> HIDE DEF r
<1>3. r \in 0..(M - 1) /\ x = M * p + r
  BY <1>1, <1>2 DEF r
<1>4. M * p + M * k = M * (p + k) /\ p + k \in Int /\ M * p \in Int /\ M * k \in Int
  OBVIOUS
<1>5. y = M * (p + k) + r
  BY <1>3, <1>4
<1>6. y % M = r
  BY <1>3, <1>4, <1>5, ModIs
<1> QED
  BY <1>6 DEF r

LEMMA ModAdd ==
    ASSUME NEW M \in Nat \ {0}, NEW x \in Int, NEW k \in Int
    PROVE ((x % M) + k) % M = (x + k) % M
<1>1. x % M \in 0..(M - 1) /\ x \div M \in Int /\ x = M * (x \div M) + (x % M)
  BY DivMod
<1>2. x + k = ((x % M) + k) + M * (x \div M) /\ (x % M) + k \in Int /\ x + k \in Int
  BY <1>1
<1> QED
  BY <1>1, <1>2, ModShift

LEMMA ModSub ==
    ASSUME NEW M \in Nat \ {0}, NEW x \in Int, NEW y \in Int
    PROVE ((x % M) - (y % M)) % M = (x - y) % M
<1>1. x % M \in 0..(M - 1) /\ x \div M \in Int /\ x = M * (x \div M) + (x % M)
  BY DivMod
<1>2. y % M \in 0..(M - 1) /\ y \div M \in Int /\ y = M * (y \div M) + (y % M)
  BY DivMod
<1>3. M * (x \div M) - M * (y \div M) = M * ((x \div M) - (y \div M)) /\ (x \div M) - (y \div M) \in Int
      /\ M * (x \div M) \in Int /\ M * (y \div M) \in Int
  BY <1>1, <1>2
<1>4. x - y = ((x % M) - (y % M)) + M * ((x \div M) - (y \div M))
      /\ (x % M) - (y % M) \in Int /\ x - y \in Int
  BY <1>1, <1>2, <1>3
<1> QED
  BY <1>3, <1>4, ModShift

\* Numbers with the same remainder that are less than the modulus apart are the same.
LEMMA ModSame ==
    ASSUME NEW M \in Nat \ {0}, NEW x \in Int, NEW y \in Int, x % M = y % M, x - y < M, y - x < M
    PROVE x = y
<1>1. x % M \in 0..(M - 1) /\ x \div M \in Int /\ x = M * (x \div M) + (x % M)
  BY DivMod
<1>2. y % M \in 0..(M - 1) /\ y \div M \in Int /\ y = M * (y \div M) + (y % M)
  BY DivMod
<1>3. M * (x \div M) \in Int /\ M * (y \div M) \in Int
  BY <1>1, <1>2
<1>4. ~(x \div M < y \div M)
  <2> SUFFICES ASSUME x \div M < y \div M PROVE FALSE
    OBVIOUS
  <2>1. M * (x \div M) + M <= M * (y \div M)
    BY <1>1, <1>2, Multiples
  <2> QED
    BY <1>1, <1>2, <1>3, <2>1
<1>5. ~(y \div M < x \div M)
  <2> SUFFICES ASSUME y \div M < x \div M PROVE FALSE
    OBVIOUS
  <2>1. M * (y \div M) + M <= M * (x \div M)
    BY <1>1, <1>2, Multiples
  <2> QED
    BY <1>1, <1>2, <1>3, <2>1
<1>6. x \div M = y \div M
  BY <1>1, <1>2, <1>4, <1>5
<1> QED
  BY <1>1, <1>2, <1>6

-----------------------------------------------------------------------------
(* The indices in true numbers.                                            *)

LEMMA Sizes ==
    /\ SeqSize \in Nat \ {0} /\ Half \in Nat /\ SeqSize = 2 * Half /\ Half >= 2
    /\ RefSlots \in Nat /\ 1 <= RefSlots /\ RefSlots < Half /\ SourceUnits \in Nat /\ FecUnits \in Nat
BY ConstantsAssumption DEF Half

LEMMA IndexIs == ASSUME NEW a \in Int PROVE Index(a) \in 0..(SeqSize - 1)
BY Sizes, DivMod DEF Index

LEMMA IndexAdd == ASSUME NEW a \in Int, NEW k \in Int PROVE Index(Index(a) + k) = Index(a + k)
BY Sizes, ModAdd DEF Index

LEMMA Ahead == ASSUME NEW a \in Int, NEW b \in Int PROVE (Index(a) - Index(b)) % SeqSize = (a - b) % SeqSize
BY Sizes, ModSub DEF Index

LEMMA IndexOnce ==
    ASSUME NEW a \in Int, NEW b \in Int, Index(a) = Index(b), a - b < SeqSize, b - a < SeqSize
    PROVE a = b
BY Sizes, ModSame DEF Index

\* Less than half the space apart, the comparison of the indices is that of the numbers.
LEMMA Gts ==
    ASSUME NEW a \in Int, NEW b \in Int, a - b < Half, b - a <= Half
    PROVE Gt(Index(a), Index(b)) <=> a > b
<1>1. (Index(a) - Index(b)) % SeqSize = (a - b) % SeqSize
  BY Ahead
<1>2. CASE b <= a
  <2>1. a - b \in 0..(SeqSize - 1)
    BY <1>2, Sizes
  <2>2. (a - b) % SeqSize = a - b
    BY <2>1, Sizes, ModSmall
  <2> QED
    BY <1>1, <1>2, <2>2, Sizes DEF Gt, Half
<1>3. CASE a < b
  <2>1. a - b \in (-SeqSize)..(-1)
    BY <1>3, Sizes
  <2>2. (a - b) % SeqSize = (a - b) + SeqSize
    BY <2>1, Sizes, ModBelow
  <2>3. ~((a - b) + SeqSize \in 1..(Half - 1))
    BY <1>3, Sizes
  <2> QED
    BY <1>1, <1>3, <2>2, <2>3 DEF Gt, Half
<1> QED
  BY <1>2, <1>3

-----------------------------------------------------------------------------
(* The counters.                                                           *)

\* k more frames are lost, the last of them of index "last".
Lose(r, last, k) == [r EXCEPT !.counted = last, !.lostTotal = @ + k]

\* Frames f..l are counted as lost, but for those up to c that were counted before.
LEMMA CountIs ==
    ASSUME NEW r, NEW c \in Int, NEW f \in Int, NEW l \in Int, NEW from \in Int, r.counted = Index(c), r.lostTotal \in Nat,
           f - c < Half, c - f <= Half, from = IF f > c THEN f ELSE c + 1, from <= l, l - from < Half
    PROVE Count(r, Index(f), Index(l)) = Lose(r, Index(l), (l - from) + 1)
<1>1. CountFrom(r, Index(f)) = Index(from)
  <2>1. Gt(Index(f), r.counted) <=> f > c
    BY Gts
  <2>2. Index(r.counted + 1) = Index(c + 1)
    BY IndexAdd
  <2> QED
    BY <2>1, <2>2 DEF CountFrom
<1>2. ~Gt(Index(from), Index(l))
  <2>1. from - l < Half /\ l - from <= Half
    BY Sizes
  <2> QED
    BY <2>1, Gts
<1>3. (Index(l) - Index(from)) % SeqSize = l - from
  <2>1. l - from \in 0..(SeqSize - 1)
    BY Sizes
  <2>2. (l - from) % SeqSize = l - from
    BY <2>1, Sizes, ModSmall
  <2> QED
    BY <2>2, Ahead
<1> DEFINE x == CountFrom(r, Index(f))
           k == (Index(l) - x) % SeqSize
<1>4. Count(r, Index(f), Index(l)) =
        IF Gt(x, Index(l)) THEN r ELSE [r EXCEPT !.counted = Index(l), !.lostTotal = (@ + k) + 1]
  BY DEF Count
<1>5. x = Index(from) /\ k = l - from
  BY <1>1, <1>3
<1> HIDE DEF x, k
<1>6. r.lostTotal + k + 1 = r.lostTotal + ((l - from) + 1)
  BY <1>5
<1> QED
  BY <1>2, <1>4, <1>5, <1>6 DEF Lose

CountedOnce(r) ==
    r.receivedTotal + r.discardedTotal + r.lostTotal =
        IF r.cur < 0 THEN 0 ELSE r.now - r.first + (IF r.prev = r.cur THEN 1 ELSE 0)
Told(r, n) == n \in r.decoded \cup r.reported \/ (n \in r.unsent /\ (r.sent => n < Done(r)))
Reported(r) == r.cur >= 0 => \A n \in r.first..(r.now - 1) : Told(r, n)

\* What holds of a receiver between the steps of a packet.
Inv(r) ==
    /\ r \in Receivers /\ IndicesOk(r) /\ r.sample \subseteq r.decoded
    /\ CountedOnce(r) /\ Reported(r)

\* The numbers a receiver keeps.
LEMMA Numbers ==
    ASSUME NEW r \in Receivers
    PROVE /\ r.now \in Nat /\ r.first \in Nat /\ r.first > 0
          /\ r.lostTotal \in Nat /\ r.receivedTotal \in Nat /\ r.discardedTotal \in Nat
BY DEF Receivers

LEMMA DoneIs ==
    ASSUME NEW r, Inv(r)
    PROVE /\ Done(r) \in Nat /\ r.complete = Index(Done(r)) /\ Done(r) <= r.now /\ r.now - Done(r) < Half
          /\ r.prev # r.cur => Done(r) < r.now
          /\ Done(r) = 0 \/ Done(r) \in r.decoded
<1>1. r \in Receivers /\ IndicesOk(r)
  BY DEF Inv
<1>2. CASE r.known = <<>>
  BY <1>1, <1>2 DEF IndicesOk, Done, Receivers, Comparable
<1>3. CASE r.known # <<>>
  <2>1. 1 \in DOMAIN r.known /\ r.known[1] \in Nat
    BY <1>1, <1>3 DEF Receivers
  <2> QED
    BY <1>1, <1>3, <2>1 DEF IndicesOk, Done, Comparable
<1> QED
  BY <1>2, <1>3

\* A frame that is counted when it ends, and was not counted before.
LEMMA FailedIs ==
    ASSUME NEW r, Inv(r), r.prev # r.cur, NEW f \in Int, f <= r.now, r.now - f < Half
    PROVE FramesFailed(r, Index(f), r.cur) = Lose(r, r.cur, 1)
<1>1. /\ r \in Receivers /\ r.now \in Nat /\ r.arrived = r.cur /\ r.now > 0 /\ r.cur = Index(r.now)
      /\ r.counted = Index(r.now - 1) /\ r.lostTotal \in Nat
  BY SMTT(30) DEF Inv, IndicesOk, Receivers
<1>2. FramesFailed(r, Index(f), r.cur) = Count(r, Index(f), r.cur)
  <2>1. ~(r.arrived < 0)
    BY <1>1, IndexIs
  <2> QED
    BY <2>1 DEF FramesFailed
<1>3. Count(r, Index(f), Index(r.now)) = Lose(r, Index(r.now), 1)
  <2> DEFINE c == r.now - 1
             l == r.now
             from == r.now
  <2>1. c \in Int /\ l \in Int /\ from \in Int /\ f - c < Half /\ c - f <= Half
        /\ from = (IF f > c THEN f ELSE c + 1) /\ from <= l /\ l - from < Half /\ r.counted = Index(c)
    BY <1>1, Sizes
  <2>2. (l - from) + 1 = 1
    BY <1>1
  <2> HIDE DEF c, l, from
  <2>3. Count(r, Index(f), Index(l)) = Lose(r, Index(l), (l - from) + 1)
    BY <1>1, <2>1, CountIs
  <2>4. Count(r, Index(f), Index(l)) = Lose(r, Index(l), 1)
    BY <2>2, <2>3
  <2> QED
    BY <2>4 DEF l
<1> QED
  BY <1>1, <1>2, <1>3

-----------------------------------------------------------------------------
(* The end of a frame.                                                     *)

\* What the receiver s refers to: frames that were decoded, up to frame n.
RefsOk(s, n) ==
    /\ s.complete = Index(Done(s))
    /\ Len(s.refs) = Len(s.known) /\ Len(s.refs) <= RefSlots
    /\ \A i \in DOMAIN s.known :
          s.refs[i] = Index(s.known[i]) /\ s.known[i] \in s.decoded /\ s.known[i] <= n

\* Receiver s is r with its frame over: complete, discarded or lost.
Ended(r, s) ==
    /\ Inv(s) /\ s.prev = s.cur /\ s.now = r.now /\ s.cur = r.cur
    /\ \A n \in Nat : n > r.now /\ Comparable(r, n) => Comparable(s, n)

LEMMA Ends ==
    ASSUME NEW r, Inv(r), r.prev # r.cur, NEW s, s \in Receivers,
           s.cur = r.cur, s.now = r.now, s.first = r.first, s.arrived = r.arrived, s.prev = r.cur,
           s.counted \in {Index(r.now - 1), Index(r.now)},
           r.decoded \subseteq s.decoded, s.reported = r.reported, s.unsent = r.unsent, s.sent = r.sent,
           s.sample \subseteq s.decoded, Done(s) \in Nat, Done(r) <= Done(s),
           s.receivedTotal + s.discardedTotal + s.lostTotal = r.receivedTotal + r.discardedTotal + r.lostTotal + 1,
           RefsOk(s, r.now), s.known = <<>> => r.known = <<>>,
           \A i \in DOMAIN s.known : s.known[i] = r.now \/ \E j \in DOMAIN r.known : s.known[i] = r.known[j]
    PROVE Ended(r, s)
<1>1. /\ r \in Receivers /\ r.now \in Nat /\ r.now > 0 /\ r.cur = Index(r.now) /\ r.arrived = r.cur
      /\ \A i \in DOMAIN r.known : r.known[i] <= r.now /\ r.known[i] \in Nat
      /\ Comparable(r, r.now) /\ r.known \in Seq(Nat)
  <2>1. r \in Receivers /\ IndicesOk(r)
    BY DEF Inv
  <2>2. r.known \in Seq(Nat) /\ r.now \in Nat
    BY <2>1 DEF Receivers
  <2> QED
    BY <2>1, <2>2 DEF IndicesOk
<1>2. ASSUME NEW n \in Nat, n >= r.now, Comparable(r, n) PROVE Comparable(s, n)
  <2>1. n - r.now < Half
    <3>1. CASE r.known = <<>>
      BY <1>1, <1>2, <3>1, Sizes DEF Comparable
    <3>2. CASE r.known # <<>>
      <4>1. 1 \in DOMAIN r.known
        BY <1>1, <3>2
      <4>2. r.known[1] <= r.now /\ r.known[1] \in Nat /\ n - r.known[1] < Half
        BY <1>1, <1>2, <4>1 DEF Comparable
      <4> QED
        BY <1>1, <4>2, Sizes
    <3> QED
      BY <3>1, <3>2
  <2>2. \A i \in DOMAIN s.known : n - s.known[i] < Half
    BY <1>2, <2>1 DEF Comparable
  <2> QED
    BY <1>2, <2>2 DEF Comparable
<1>3. Comparable(s, s.now)
  <2>1. r.now >= r.now
    BY <1>1
  <2> QED
    BY <1>1, <1>2, <2>1
<1>4. IndicesOk(s)
  <2>1. s.cur = (IF s.now = 0 THEN -1 ELSE Index(s.now)) /\ s.arrived = s.cur /\ s.prev = s.cur
        /\ s.now > 0 /\ s.counted \in {Index(s.now - 1), Index(s.now)}
    BY <1>1
  <2> QED
    BY <1>1, <1>3, <2>1 DEF IndicesOk, RefsOk, Done
<1>5. CountedOnce(s)
  <2>1. ~(s.cur < 0) /\ ~(r.cur < 0)
    BY <1>1, IndexIs, SMTT(30)
  <2>2. r.receivedTotal + r.discardedTotal + r.lostTotal = r.now - r.first + 0
    BY <2>1 DEF Inv, CountedOnce
  <2>3. r.first \in Nat
    BY <1>1, Numbers
  <2>4. r.now - r.first + 0 + 1 = r.now - r.first + 1
    BY <1>1, <2>3
  <2> QED
    BY <2>1, <2>2, <2>4 DEF CountedOnce
<1>6. Reported(s)
  <2>1. Reported(r) /\ Done(r) \in Nat /\ r.first \in Nat
    BY <1>1, DoneIs, Numbers DEF Inv
  <2>2. \A n \in r.first..(r.now - 1) : Told(r, n) => Told(s, n)
    BY <1>1, <2>1 DEF Told
  <2> QED
    BY <2>1, <2>2 DEF Reported
<1>7. Inv(s)
  BY <1>4, <1>5, <1>6 DEF Inv
<1>8. \A n \in Nat : n > r.now /\ Comparable(r, n) => Comparable(s, n)
  <2> SUFFICES ASSUME NEW n \in Nat, n > r.now, Comparable(r, n) PROVE Comparable(s, n)
    OBVIOUS
  <2>1. n >= r.now
    BY <1>1
  <2> QED
    BY <1>2, <2>1
<1> QED
  BY <1>7, <1>8 DEF Ended

\* It refers to what it did.
LEMMA SameRefs ==
    ASSUME NEW r, Inv(r), NEW s, s.complete = r.complete, s.refs = r.refs, s.known = r.known, r.decoded \subseteq s.decoded
    PROVE RefsOk(s, r.now)
BY DEF Inv, IndicesOk, RefsOk, Done

LEMMA EndsAs ==
    ASSUME NEW r, Inv(r), r.prev # r.cur, NEW s, s \in Receivers,
           s.cur = r.cur, s.now = r.now, s.first = r.first, s.arrived = r.arrived, s.prev = r.cur,
           s.counted \in {Index(r.now - 1), Index(r.now)},
           s.decoded = r.decoded, s.reported = r.reported, s.unsent = r.unsent, s.sent = r.sent,
           s.sample = r.sample,
           s.complete = r.complete, s.refs = r.refs, s.known = r.known,
           \/ /\ s.lostTotal = r.lostTotal + 1 /\ s.discardedTotal = r.discardedTotal
              /\ s.receivedTotal = r.receivedTotal
           \/ /\ s.lostTotal = r.lostTotal /\ s.discardedTotal = r.discardedTotal + 1
              /\ s.receivedTotal = r.receivedTotal
           \/ /\ s.lostTotal = r.lostTotal /\ s.discardedTotal = r.discardedTotal
              /\ s.receivedTotal = r.receivedTotal + 1
    PROVE Ended(r, s)
<1>1. RefsOk(s, r.now)
  BY SameRefs
<1>2. s.receivedTotal + s.discardedTotal + s.lostTotal = r.receivedTotal + r.discardedTotal + r.lostTotal + 1
  <2>1. r.receivedTotal \in Nat /\ r.discardedTotal \in Nat /\ r.lostTotal \in Nat
    BY DEF Inv, Receivers
  <2> QED
    BY <2>1
<1>3. s.sample \subseteq s.decoded /\ Done(s) = Done(r) /\ Done(r) \in Nat
  BY DoneIs DEF Inv, Done
<1>4. Done(s) \in Nat /\ Done(r) <= Done(s)
  BY <1>3
<1> QED
  BY <1>1, <1>2, <1>3, <1>4, Ends

\* Every frame after the last complete one, up to n, was in a report that was sent or not.
Sent(r, n) == [r EXCEPT !.reported = @ \cup (Done(r) + 1)..n, !.sent = TRUE]
Unsent(r, n) == [r EXCEPT !.unsent = @ \cup (Done(r) + 1)..n, !.sent = FALSE]

\* A report covers every frame after the last complete one.
LEMMA CorruptIs ==
    ASSUME NEW r, Inv(r), NEW n \in Nat, Done(r) < n, n - Done(r) <= Half
    PROVE /\ SendCorrupt(r, NextExpected(r), n) = {Sent(r, n), Unsent(r, n)}
          /\ Sent(r, n) \in Receivers /\ Unsent(r, n) \in Receivers
<1>1. /\ r \in Receivers /\ Done(r) \in Nat /\ r.complete = Index(Done(r))
      /\ r.reported \subseteq Nat /\ r.unsent \subseteq Nat
  BY DoneIs DEF Inv, Receivers
<1>2. NextExpected(r) = Index(Done(r) + 1)
  BY <1>1, IndexAdd DEF NextExpected
<1>3. (n - Index(Done(r) + 1)) % SeqSize = n - (Done(r) + 1)
  <2> DEFINE d == Done(r) + 1
  <2>1. d \in Int /\ n - d \in 0..(SeqSize - 1) /\ n \in Int
    BY <1>1, Sizes
  <2> HIDE DEF d
  <2>2. (n - d) % SeqSize = n - d
    BY <2>1, Sizes, ModSmall
  <2>3. (n - Index(d)) % SeqSize = (n - d) % SeqSize
    <3>1. PICK q \in Int : d = SeqSize * q + Index(d)
      BY <2>1, Sizes, DivMod DEF Index
    <3>2. Index(d) \in Int /\ SeqSize * q \in Int
      BY <2>1, Sizes, IndexIs
    <3>3. n - Index(d) = (n - d) + SeqSize * q /\ n - Index(d) \in Int /\ n - d \in Int
      BY <2>1, <3>1, <3>2
    <3> QED
      BY <3>3, Sizes, ModShift
  <2>4. (n - Index(d)) % SeqSize = n - d
    BY <2>2, <2>3
  <2> QED
    BY <2>4 DEF d
<1>4. {n - k : k \in 0..(n - (Done(r) + 1))} = (Done(r) + 1)..n
  <2>1. ASSUME NEW x \in (Done(r) + 1)..n PROVE n - x \in 0..(n - (Done(r) + 1)) /\ n - (n - x) = x
    BY <1>1
  <2>2. ASSUME NEW k \in 0..(n - (Done(r) + 1)) PROVE n - k \in (Done(r) + 1)..n
    BY <1>1
  <2> QED
    BY <2>1, <2>2
<1>5. SendCorrupt(r, NextExpected(r), n) = {Sent(r, n), Unsent(r, n)}
  BY <1>2, <1>3, <1>4 DEF SendCorrupt, Sent, Unsent
<1>6. r.reported \cup (Done(r) + 1)..n \subseteq Nat /\ r.unsent \cup (Done(r) + 1)..n \subseteq Nat
  BY <1>1
<1>7. Sent(r, n) \in Receivers /\ Unsent(r, n) \in Receivers
  BY <1>1, <1>6 DEF Sent, Unsent, Receivers
<1> QED
  BY <1>5, <1>7

\* It changes nothing else, and leaves no frame behind that may still be told of.
LEMMA ReportKeeps ==
    ASSUME NEW r, Inv(r), NEW n \in Nat, n >= r.now - 1, NEW s \in {Sent(r, n), Unsent(r, n)}, s \in Receivers
    PROVE /\ Inv(s) /\ s.prev = r.prev /\ s.cur = r.cur /\ s.now = r.now /\ s.first = r.first
          /\ s.known = r.known /\ s.decoded = r.decoded
          /\ \A m \in (Done(r) + 1)..n : Told(s, m)
<1>1. /\ s.cur = r.cur /\ s.prev = r.prev /\ s.complete = r.complete /\ s.refs = r.refs
      /\ s.lostTotal = r.lostTotal /\ s.receivedTotal = r.receivedTotal /\ s.discardedTotal = r.discardedTotal
      /\ s.arrived = r.arrived /\ s.counted = r.counted /\ s.now = r.now /\ s.first = r.first
      /\ s.known = r.known /\ s.decoded = r.decoded /\ s.sample = r.sample
  BY ZenonT(40) DEF Sent, Unsent, Inv, Receivers
<1>2. \/ s.sent = TRUE /\ s.reported = r.reported \cup (Done(r) + 1)..n /\ s.unsent = r.unsent
      \/ s.sent = FALSE /\ s.reported = r.reported /\ s.unsent = r.unsent \cup (Done(r) + 1)..n
  BY DEF Sent, Unsent, Inv, Receivers
<1>3. Done(s) = Done(r) /\ Done(r) \in Nat /\ (Done(r) = 0 \/ Done(r) \in r.decoded)
  BY <1>1, DoneIs DEF Done
<1>4. IndicesOk(s)
  BY <1>1, <1>3 DEF Inv, IndicesOk, Comparable
<1>5. \A m \in (Done(r) + 1)..n : Told(s, m)
  BY <1>2 DEF Told
<1>6. \A m \in Nat : m < Done(r) /\ Told(r, m) => Told(s, m)
  BY <1>1, <1>2, <1>3 DEF Told
<1>7. Reported(s)
  <2> SUFFICES ASSUME s.cur >= 0, NEW m \in s.first..(s.now - 1) PROVE Told(s, m)
    BY DEF Reported
  <2>1. Told(r, m)
    BY <1>1 DEF Inv, Reported
  <2>2. m \in Nat /\ m <= n /\ m # 0
    <3>1. r.now \in Nat /\ r.first \in Nat /\ r.first > 0
      BY Numbers DEF Inv
    <3> QED
      BY <1>1, <3>1
  <2>3. CASE m < Done(r)
    BY <1>6, <2>1, <2>2, <2>3
  <2>4. CASE m = Done(r)
    BY <1>1, <1>3, <2>2, <2>4 DEF Told
  <2>5. CASE m > Done(r)
    BY <1>3, <1>5, <2>2, <2>5
  <2> QED
    BY <1>3, <2>2, <2>3, <2>4, <2>5
<1>8. CountedOnce(s) /\ s.sample \subseteq s.decoded
  BY <1>1 DEF Inv, CountedOnce
<1>9. Inv(s)
  BY <1>4, <1>7, <1>8 DEF Inv
<1> QED
  BY <1>1, <1>5, <1>9

\* FEC fails: the frame is counted as lost and reported.
LEMMA FailEnds ==
    ASSUME NEW r, Inv(r), r.prev # r.cur, NEW s \in FlushFailed(r)
    PROVE Ended(r, s)
<1>1. /\ r \in Receivers /\ Done(r) \in Nat /\ Done(r) < r.now /\ r.now - Done(r) < Half /\ r.now \in Nat
      /\ r.complete = Index(Done(r)) /\ r.cur = Index(r.now)
  BY DoneIs DEF Inv, IndicesOk, Receivers
<1>8. /\ SendCorrupt(r, NextExpected(r), r.now) = {Sent(r, r.now), Unsent(r, r.now)}
      /\ Sent(r, r.now) \in Receivers /\ Unsent(r, r.now) \in Receivers
  BY <1>1, CorruptIs, Sizes
<1>9. PICK t \in SendCorrupt(r, NextExpected(r), r.now), w \in BOOLEAN :
             s = [FramesFailed(t, NextExpected(r), r.cur) EXCEPT !.prev = r.cur, !.waiting = w]
  <2>1. r.waiting \in BOOLEAN
    BY <1>1 DEF Receivers
  <2>2. PICK t \in SendCorrupt(r, NextExpected(r), r.now) :
             s \in {[FramesFailed(t, NextExpected(r), r.cur) EXCEPT !.prev = r.cur, !.waiting = w] :
                        w \in {r.waiting} \cup (IF IdrOnFecFailure THEN {TRUE} ELSE {})}
    BY DEF FlushFailed
  <2>3. PICK w \in {r.waiting} \cup (IF IdrOnFecFailure THEN {TRUE} ELSE {}) :
             s = [FramesFailed(t, NextExpected(r), r.cur) EXCEPT !.prev = r.cur, !.waiting = w]
    BY <2>2
  <2>4. w \in BOOLEAN
    BY <2>1
  <2> QED
    BY <2>3, <2>4
<1> DEFINE l == Lose(t, t.cur, 1)
<1>2. t \in {Sent(r, r.now), Unsent(r, r.now)} /\ t \in Receivers
  BY <1>8, <1>9
<1>3. Inv(t) /\ t.prev = r.prev /\ t.cur = r.cur /\ t.now = r.now /\ t.known = r.known
  BY <1>1, <1>2, ReportKeeps
<1>4. NextExpected(r) = Index(Done(r) + 1)
  BY <1>1, IndexAdd DEF NextExpected
<1>5. FramesFailed(t, NextExpected(r), r.cur) = l
  <2> DEFINE f == Done(r) + 1
  <2>1. f \in Int /\ f <= t.now /\ t.now - f < Half
    BY <1>1, <1>3, Sizes
  <2> HIDE DEF f
  <2>2. FramesFailed(t, Index(f), t.cur) = l
    BY <1>3, <2>1, FailedIs
  <2> QED
    BY <1>3, <1>4, <2>2 DEF f
<1>6. s = [l EXCEPT !.prev = r.cur, !.waiting = w]
  BY <1>5, <1>9
<1>7. /\ s \in Receivers /\ s.cur = t.cur /\ s.now = t.now /\ s.first = t.first /\ s.arrived = t.arrived
      /\ s.prev = t.cur /\ s.counted = t.cur /\ s.decoded = t.decoded /\ s.reported = t.reported
      /\ s.unsent = t.unsent /\ s.sent = t.sent
      /\ s.sample = t.sample /\ s.complete = t.complete /\ s.refs = t.refs /\ s.known = t.known
      /\ s.receivedTotal = t.receivedTotal /\ s.discardedTotal = t.discardedTotal /\ s.lostTotal = t.lostTotal + 1
  <2>2. s = [t EXCEPT !.counted = t.cur, !.lostTotal = @ + 1, !.prev = t.cur, !.waiting = w]
    BY <1>2, <1>3, <1>6 DEF Lose, Receivers
  <2>3. t.cur \in -1..(SeqSize - 1) /\ t.lostTotal + 1 \in Nat
    <3>1. t.cur \in -1..(SeqSize - 1)
      BY <1>2 DEF Receivers
    <3> QED
      BY <1>2, <3>1, Numbers
  <2>4. s \in Receivers
    <3> DEFINE lost == t.lostTotal + 1
               u == [t EXCEPT !.counted = t.cur, !.lostTotal = lost]
    <3>1. lost \in Nat /\ t.cur \in -1..(SeqSize - 1) /\ w \in BOOLEAN
      BY <2>3
    <3>2. s = [t EXCEPT !.counted = t.cur, !.lostTotal = lost, !.prev = t.cur, !.waiting = w]
      BY <1>2, <2>2 DEF Receivers
    <3> HIDE DEF lost
    <3>3. u \in Receivers
      <4> DEFINE q == [t EXCEPT !.counted = t.cur]
      <4>1. q \in Receivers
        BY <1>2, <2>3 DEF Receivers
      <4>2. u = [q EXCEPT !.lostTotal = lost]
        BY <1>2 DEF Receivers
      <4> HIDE DEF q, u
      <4> QED
        BY <3>1, <4>1, <4>2 DEF Receivers
    <3>4. s = [u EXCEPT !.prev = t.cur, !.waiting = w]
      BY <1>2, <3>2 DEF Receivers
    <3> HIDE DEF u
    <3> QED
      BY <3>1, <3>3, <3>4 DEF Receivers
  <2>5. /\ s.cur = t.cur /\ s.now = t.now /\ s.first = t.first /\ s.arrived = t.arrived
        /\ s.prev = t.cur /\ s.counted = t.cur /\ s.decoded = t.decoded /\ s.reported = t.reported
        /\ s.unsent = t.unsent /\ s.sent = t.sent
        /\ s.sample = t.sample /\ s.complete = t.complete /\ s.refs = t.refs /\ s.known = t.known
        /\ s.receivedTotal = t.receivedTotal /\ s.discardedTotal = t.discardedTotal /\ s.lostTotal = t.lostTotal + 1
    BY <1>2, <2>2 DEF Receivers
  <2> QED
    BY <2>4, <2>5
<1>10. t.cur = Index(t.now)
  BY <1>1, <1>3
<1>11. Ended(t, s)
  BY <1>2, <1>3, <1>7, <1>10, EndsAs
<1> QED
  BY <1>3, <1>11 DEF Ended, Comparable

\* Its reference is missing: the frame is counted as lost.
LEMMA MissingEnds ==
    ASSUME NEW r, Inv(r), r.prev # r.cur
    PROVE Ended(r, RefMissing(r))
<1> DEFINE s == RefMissing(r)
<1>1. r \in Receivers /\ r.now \in Nat /\ r.cur = Index(r.now)
  BY DEF Inv, IndicesOk, Receivers
<1>2. FramesFailed(r, r.cur, r.cur) = Lose(r, r.cur, 1)
  <2> DEFINE f == r.now
  <2>1. f \in Int /\ f <= r.now /\ r.now - f < Half
    BY <1>1, Sizes
  <2> HIDE DEF f
  <2>2. FramesFailed(r, Index(f), r.cur) = Lose(r, r.cur, 1)
    BY <2>1, FailedIs
  <2> QED
    BY <1>1, <2>2 DEF f
<1>3. s = [r EXCEPT !.counted = r.cur, !.lostTotal = @ + 1, !.prev = r.cur]
  BY <1>1, <1>2 DEF RefMissing, Lose, Receivers
<1> HIDE DEF s
<1>4. s \in Receivers
  <2>1. r.lostTotal + 1 \in Nat
    BY <1>1 DEF Receivers
  <2> QED
    BY <1>1, <1>3, <2>1 DEF Receivers
<1>5. /\ s.cur = r.cur /\ s.now = r.now /\ s.first = r.first /\ s.arrived = r.arrived
      /\ s.prev = r.cur /\ s.counted = r.cur /\ s.decoded = r.decoded /\ s.reported = r.reported
      /\ s.unsent = r.unsent /\ s.sent = r.sent
      /\ s.sample = r.sample /\ s.complete = r.complete /\ s.refs = r.refs /\ s.known = r.known
      /\ s.receivedTotal = r.receivedTotal /\ s.discardedTotal = r.discardedTotal /\ s.lostTotal = r.lostTotal + 1
  BY <1>1, <1>3 DEF Receivers
<1>6. Ended(r, s)
  BY <1>1, <1>4, <1>5, EndsAs
<1> QED
  BY <1>6 DEF s

\* It is discarded while an IDR frame is awaited.
LEMMA DiscardEnds ==
    ASSUME NEW r, Inv(r), r.prev # r.cur
    PROVE Ended(r, Discard(r))
<1> DEFINE s == Discard(r)
<1>1. r \in Receivers /\ r.counted = Index(r.now - 1)
  BY DEF Inv, IndicesOk
<1>2. s \in Receivers
  <2>1. r.discardedTotal + 1 \in Nat
    BY <1>1 DEF Receivers
  <2> QED
    BY <1>1, <2>1 DEF Discard, Receivers
<1>3. /\ s.cur = r.cur /\ s.now = r.now /\ s.first = r.first /\ s.arrived = r.arrived
      /\ s.prev = r.cur /\ s.counted = r.counted /\ s.decoded = r.decoded /\ s.reported = r.reported
      /\ s.unsent = r.unsent /\ s.sent = r.sent
      /\ s.sample = r.sample /\ s.complete = r.complete /\ s.refs = r.refs /\ s.known = r.known
      /\ s.receivedTotal = r.receivedTotal /\ s.discardedTotal = r.discardedTotal + 1 /\ s.lostTotal = r.lostTotal
  BY <1>1 DEF Discard, Receivers
<1> HIDE DEF s
<1>4. Ended(r, s)
  BY <1>1, <1>2, <1>3, EndsAs
<1> QED
  BY <1>4 DEF s

\* The newest reference comes first, and the oldest one may be dropped.
Added(S, q, x, a) ==
    /\ a \in Seq(S) /\ a # <<>> /\ a[1] = x
    /\ Len(a) = (IF Len(q) < RefSlots THEN Len(q) + 1 ELSE RefSlots)
    /\ \A i \in DOMAIN a : i > 1 => i - 1 \in DOMAIN q /\ a[i] = q[i - 1]

LEMMA AddRefIs ==
    ASSUME NEW S, NEW q \in Seq(S), NEW x \in S
    PROVE Added(S, q, x, AddRef(q, x))
<1> DEFINE p == <<x>> \o q
           m == IF Len(q) < RefSlots THEN Len(q) + 1 ELSE RefSlots
           a == AddRef(q, x)
<1>1. p \in Seq(S) /\ Len(p) = Len(q) + 1 /\ p[1] = x /\ \A i \in 2..(Len(q) + 1) : p[i] = q[i - 1]
  OBVIOUS
<1>2. m \in Nat /\ 1 <= m /\ m <= Len(p)
  BY <1>1, Sizes
<1>3. a = SubSeq(p, 1, m)
  BY DEF AddRef
<1> HIDE DEF p, m, a
<1>4. a \in Seq(S) /\ Len(a) = m /\ \A i \in 1..m : a[i] = p[i]
  BY <1>1, <1>2, <1>3
<1>5. ASSUME NEW i \in DOMAIN a, i > 1 PROVE i - 1 \in DOMAIN q /\ a[i] = q[i - 1]
  BY <1>1, <1>2, <1>4, <1>5
<1>6. a # <<>> /\ a[1] = x
  BY <1>1, <1>2, <1>4
<1>7. Added(S, q, x, a)
  BY <1>4, <1>5, <1>6 DEF Added, m
<1> QED
  BY <1>7 DEF a

\* A reference that is found by its index is the frame that is meant, and was decoded.
LEMMA HaveRefIs ==
    ASSUME NEW r, Inv(r), r.now > 0, NEW d \in Distance, HaveRef(r, Index(r.cur - d - 1))
    PROVE r.now - d - 1 \in r.decoded
<1>1. r.now \in Nat /\ r.cur = Index(r.now) /\ r.known \in Seq(Nat) /\ d \in Nat /\ d < RefSlots
  BY Sizes DEF Inv, IndicesOk, Receivers, Distance
<1>2. Index(r.cur - d - 1) = Index(r.now - d - 1)
  <2> DEFINE n == r.now
             k == -(d + 1)
  <2>1. n \in Int /\ k \in Int /\ n + k = r.now - d - 1 /\ r.cur = Index(n)
    BY <1>1
  <2> HIDE DEF n
  <2>2. Index(n) \in Int
    BY <2>1, IndexIs, Sizes
  <2>3. Index(n) + k = Index(n) - d - 1
    BY <1>1, <2>2
  <2> HIDE DEF k
  <2>4. Index(Index(n) + k) = Index(n + k)
    BY <2>1, IndexAdd
  <2> QED
    BY <2>1, <2>3, <2>4
<1>3. PICK i \in DOMAIN r.refs : r.refs[i] = Index(r.now - d - 1)
  BY <1>2 DEF HaveRef, Range
<1>4. i \in DOMAIN r.known
  BY <1>1 DEF Inv, IndicesOk, Receivers
<1>5. /\ r.refs[i] = Index(r.known[i]) /\ r.known[i] \in r.decoded /\ r.known[i] <= r.now /\ r.known[i] \in Nat
      /\ r.now - r.known[i] < Half
  BY <1>1, <1>4 DEF Inv, IndicesOk, Comparable
<1>6. r.known[i] = r.now - d - 1
  <2> DEFINE a == r.known[i]
             n == r.now
             b == n - d - 1
  <2>1. Index(a) = Index(b)
    BY <1>3, <1>5
  <2>2. a \in Nat /\ n \in Nat /\ d \in Nat /\ d < RefSlots /\ a <= n /\ n - a < Half
    BY <1>1, <1>5
  <2> HIDE DEF a, n
  <2>3. a \in Int /\ b \in Int /\ a - b < SeqSize /\ b - a < SeqSize
    BY <2>2, Sizes
  <2> HIDE DEF b
  <2>4. a = b
    BY <2>1, <2>3, IndexOnce
  <2> QED
    BY <2>4 DEF a, b, n
<1> QED
  BY <1>5, <1>6

\* The frame is given to the decoder, which takes it or not.
LEMMA DeliverEnds ==
    ASSUME NEW r, Inv(r), r.prev # r.cur, NEW d \in Distance,
           r.content.kind = "P" => HaveRef(r, Index(r.cur - d - 1)), NEW s \in Deliver(r, d)
    PROVE Ended(r, s)
<1> DEFINE sample == IF r.content.kind = "P" THEN {r.now - d - 1} ELSE {}
<1>1. /\ r \in Receivers /\ r.now \in Nat /\ r.now > 0 /\ r.cur = Index(r.now) /\ r.known \in Seq(Nat)
      /\ r.refs \in Seq(0..(SeqSize - 1)) /\ r.receivedTotal \in Nat /\ r.discardedTotal \in Nat /\ r.lostTotal \in Nat
      /\ r.counted \in {Index(r.now - 1), Index(r.now)} /\ d \in Nat /\ r.cur \in 0..(SeqSize - 1)
  <2>1. r \in Receivers /\ IndicesOk(r) /\ d \in Nat
    BY Sizes DEF Inv, Distance
  <2>2. /\ r.now \in Nat /\ r.known \in Seq(Nat) /\ r.refs \in Seq(0..(SeqSize - 1))
        /\ r.receivedTotal \in Nat /\ r.discardedTotal \in Nat /\ r.lostTotal \in Nat
    BY <2>1 DEF Receivers
  <2>3. r.now > 0 /\ r.cur = Index(r.now) /\ r.counted \in {Index(r.now - 1), Index(r.now)}
    BY <2>1, <2>2 DEF IndicesOk
  <2>4. Index(r.now) \in 0..(SeqSize - 1)
    <3> DEFINE n == r.now
    <3>1. n \in Int
      BY <2>2
    <3> HIDE DEF n
    <3>2. Index(n) \in 0..(SeqSize - 1)
      BY <3>1, IndexIs
    <3> QED
      BY <3>2 DEF n
  <2> QED
    BY <2>1, <2>2, <2>3, <2>4
<1>2. sample \subseteq r.decoded /\ sample \subseteq Int
  <2>1. CASE r.content.kind = "P"
    <3>1. r.now - d - 1 \in r.decoded
      BY <1>1, <2>1, HaveRefIs
    <3> QED
      BY <1>1, <2>1, <3>1
  <2>2. CASE r.content.kind # "P"
    BY <2>2
  <2> QED
    BY <2>1, <2>2
<1> HIDE DEF sample
<1>3. PICK ok \in BOOLEAN :
        s = [r EXCEPT !.prev = r.cur, !.complete = Complete(r, ok), !.receivedTotal = @ + 1,
                      !.refs = IF ok THEN AddRef(@, r.cur) ELSE @,
                      !.known = IF ok THEN AddRef(@, r.now) ELSE @,
                      !.decoded = IF ok THEN @ \cup {r.now} ELSE @,
                      !.sample = sample]
  BY DEF Deliver, sample
<1> DEFINE refs == IF ok THEN AddRef(r.refs, r.cur) ELSE r.refs
           known == IF ok THEN AddRef(r.known, r.now) ELSE r.known
           decoded == IF ok THEN r.decoded \cup {r.now} ELSE r.decoded
           total == r.receivedTotal + 1
<1>4. s = [r EXCEPT !.prev = r.cur, !.complete = Complete(r, ok), !.receivedTotal = total,
                    !.refs = refs, !.known = known, !.decoded = decoded, !.sample = sample]
  BY <1>1, <1>3 DEF Receivers
<1>5. /\ refs \in Seq(0..(SeqSize - 1)) /\ known \in Seq(Nat) /\ decoded \subseteq Nat /\ total \in Nat
      /\ Complete(r, ok) \in 0..(SeqSize - 1)
  <2>1. r.decoded \subseteq Nat /\ r.complete \in 0..(SeqSize - 1)
    BY <1>1 DEF Receivers
  <2>2. AddRef(r.refs, r.cur) \in Seq(0..(SeqSize - 1)) /\ AddRef(r.known, r.now) \in Seq(Nat)
    BY <1>1, AddRefIs DEF Added
  <2>3. r.refs \in Seq(0..(SeqSize - 1)) /\ r.known \in Seq(Nat) /\ r.now \in Nat
    BY <1>1 DEF Receivers
  <2>4. refs \in Seq(0..(SeqSize - 1)) /\ known \in Seq(Nat) /\ decoded \subseteq Nat
    BY <2>1, <2>2, <2>3
  <2>5. total \in Nat
    BY <1>1, Numbers
  <2>6. Complete(r, ok) \in 0..(SeqSize - 1)
    BY <1>1, <2>1, <2>2 DEF Complete
  <2> QED
    BY <2>4, <2>5, <2>6
<1>6. /\ Len(refs) = Len(known) /\ Len(refs) <= RefSlots /\ r.decoded \subseteq decoded
      /\ Complete(r, ok) = Index(IF known = <<>> THEN 0 ELSE known[1]) /\ (known = <<>> => r.known = <<>>)
      /\ \A i \in DOMAIN known :
            /\ refs[i] = Index(known[i]) /\ known[i] \in decoded /\ known[i] <= r.now
            /\ known[i] = r.now \/ \E j \in DOMAIN r.known : known[i] = r.known[j]
  <2>1. /\ Len(r.refs) = Len(r.known) /\ Len(r.refs) <= RefSlots /\ r.complete = Index(Done(r))
        /\ \A i \in DOMAIN r.known :
              r.refs[i] = Index(r.known[i]) /\ r.known[i] \in r.decoded /\ r.known[i] <= r.now
    BY DEF Inv, IndicesOk, Done
  <2>2. CASE ok
    <3> DEFINE a == AddRef(r.refs, r.cur)
               b == AddRef(r.known, r.now)
    <3>1. Added(0..(SeqSize - 1), r.refs, r.cur, a)
      BY <1>1, AddRefIs
    <3>2. Added(Nat, r.known, r.now, b)
      BY <1>1, AddRefIs
    <3> HIDE DEF a, b
    <3>3. Len(a) = Len(b) /\ Len(a) <= RefSlots /\ DOMAIN a = DOMAIN b
      BY <1>1, <2>1, <3>1, <3>2, Sizes DEF Added
    <3>4. ASSUME NEW i \in DOMAIN b
          PROVE /\ a[i] = Index(b[i]) /\ b[i] \in r.decoded \cup {r.now} /\ b[i] <= r.now
                /\ b[i] = r.now \/ \E j \in DOMAIN r.known : b[i] = r.known[j]
      <4>1. CASE i = 1
        BY <1>1, <3>1, <3>2, <4>1 DEF Added
      <4>2. CASE i # 1
        <5>1. i > 1 /\ i \in DOMAIN a
          BY <3>2, <3>3, <4>2 DEF Added
        <5>2. i - 1 \in DOMAIN r.known /\ b[i] = r.known[i - 1] /\ a[i] = r.refs[i - 1]
          BY <3>1, <3>2, <5>1 DEF Added
        <5> QED
          BY <2>1, <5>2
      <4> QED
        BY <4>1, <4>2
    <3>5. refs = a /\ known = b /\ decoded = r.decoded \cup {r.now} /\ Complete(r, ok) = r.cur
      BY <2>2 DEF a, b, Complete
    <3> HIDE DEF refs, known, decoded
    <3> QED
      BY <1>1, <3>2, <3>3, <3>4, <3>5 DEF Added
  <2>3. CASE ~ok
    <3>1. refs = r.refs /\ known = r.known /\ decoded = r.decoded /\ Complete(r, ok) = r.complete
      BY <2>3 DEF Complete
    <3> HIDE DEF refs, known, decoded
    <3> QED
      BY <2>1, <3>1 DEF Done
  <2> QED
    BY <2>2, <2>3
<1> HIDE DEF refs, known, decoded, total
<1>7. s \in Receivers
  BY <1>1, <1>2, <1>4, <1>5 DEF Receivers
<1>8. /\ s.cur = r.cur /\ s.now = r.now /\ s.first = r.first /\ s.arrived = r.arrived
      /\ s.prev = r.cur /\ s.counted = r.counted /\ s.decoded = decoded /\ s.reported = r.reported
      /\ s.unsent = r.unsent /\ s.sent = r.sent
      /\ s.sample = sample /\ s.complete = Complete(r, ok) /\ s.refs = refs /\ s.known = known
      /\ s.receivedTotal = total /\ s.discardedTotal = r.discardedTotal /\ s.lostTotal = r.lostTotal
  BY <1>1, <1>4 DEF Receivers
<1>9. RefsOk(s, r.now)
  <2>1. s.complete = Index(Done(s))
    BY <1>6, <1>8 DEF Done
  <2> QED
    BY <1>6, <1>8, <2>1 DEF RefsOk
<1>10. s.receivedTotal + s.discardedTotal + s.lostTotal = r.receivedTotal + r.discardedTotal + r.lostTotal + 1
  BY <1>1, <1>8 DEF total
<1>11. Done(s) \in Nat /\ Done(r) <= Done(s)
  <2>1. Done(r) \in Nat /\ Done(r) <= r.now
    BY DoneIs
  <2>2. CASE ok
    <3>1. Added(Nat, r.known, r.now, known)
      BY <1>1, <2>2, AddRefIs DEF known
    <3> QED
      BY <1>1, <1>8, <2>1, <3>1 DEF Added, Done
  <2>3. CASE ~ok
    <3>1. s.known = r.known
      BY <1>8, <2>3 DEF known
    <3> QED
      BY <2>1, <3>1 DEF Done
  <2> QED
    BY <2>2, <2>3
<1> QED
  BY <1>1, <1>2, <1>6, <1>7, <1>8, <1>9, <1>10, <1>11, Ends

\* Fields that no property is about: whether an IDR frame is awaited, and the units.
LEMMA WaitingKeeps ==
    ASSUME NEW r, Inv(r), NEW w \in BOOLEAN, NEW s, s = [r EXCEPT !.waiting = w]
    PROVE /\ Inv(s) /\ s.prev = r.prev /\ s.cur = r.cur /\ s.now = r.now /\ s.known = r.known
          /\ s.content = r.content /\ s.refs = r.refs
<1>1. r \in Receivers
  BY DEF Inv
<1>2. s \in Receivers
  BY <1>1 DEF Receivers
<1>3. /\ s.cur = r.cur /\ s.prev = r.prev /\ s.complete = r.complete /\ s.refs = r.refs
      /\ s.lostTotal = r.lostTotal /\ s.receivedTotal = r.receivedTotal /\ s.discardedTotal = r.discardedTotal
      /\ s.arrived = r.arrived /\ s.counted = r.counted /\ s.now = r.now /\ s.first = r.first
      /\ s.known = r.known /\ s.decoded = r.decoded /\ s.sample = r.sample /\ s.reported = r.reported
      /\ s.unsent = r.unsent /\ s.sent = r.sent
      /\ s.content = r.content
  BY <1>1 DEF Receivers
<1>4. IndicesOk(s)
  BY <1>3 DEF Inv, IndicesOk, Comparable, Done
<1>5. CountedOnce(s) /\ Reported(s) /\ s.sample \subseteq s.decoded
  BY <1>3 DEF Inv, CountedOnce, Reported, Told, Done
<1> QED
  BY <1>2, <1>3, <1>4, <1>5 DEF Inv

LEMMA UnitsKeep ==
    ASSUME NEW r, Inv(r), NEW u \in Units, NEW s, s = [r EXCEPT !.units = @ \cup {u}]
    PROVE Inv(s) /\ s.prev = r.prev /\ s.cur = r.cur /\ s.now = r.now /\ s.known = r.known
<1>1. r \in Receivers
  BY DEF Inv
<1>2. s \in Receivers
  BY <1>1 DEF Receivers
<1>3. /\ s.cur = r.cur /\ s.prev = r.prev /\ s.complete = r.complete /\ s.refs = r.refs
      /\ s.lostTotal = r.lostTotal /\ s.receivedTotal = r.receivedTotal /\ s.discardedTotal = r.discardedTotal
      /\ s.arrived = r.arrived /\ s.counted = r.counted /\ s.now = r.now /\ s.first = r.first
      /\ s.known = r.known /\ s.decoded = r.decoded /\ s.sample = r.sample /\ s.reported = r.reported
      /\ s.unsent = r.unsent /\ s.sent = r.sent
  BY <1>1 DEF Receivers
<1>4. IndicesOk(s)
  BY <1>3 DEF Inv, IndicesOk, Comparable, Done
<1>5. CountedOnce(s) /\ Reported(s) /\ s.sample \subseteq s.decoded
  BY <1>3 DEF Inv, CountedOnce, Reported, Told, Done
<1> QED
  BY <1>2, <1>3, <1>4, <1>5 DEF Inv

LEMMA ParsedEnds ==
    ASSUME NEW r, Inv(r), r.prev # r.cur, NEW s \in FlushParsed(r)
    PROVE Ended(r, s)
<1>1. r.content \in Contents
  BY DEF Inv, Receivers
<1>2. r.content.ref \in Distance
  BY <1>1, Sizes DEF Contents, Distance
<1>3. CASE r.content.kind # "P" \/ HaveRef(r, Index(r.cur - r.content.ref - 1))
  <2>1. s \in Deliver(r, r.content.ref)
    BY <1>3 DEF FlushParsed
  <2> QED
    BY <1>2, <1>3, <2>1, DeliverEnds
<1>4. CASE ~(r.content.kind # "P" \/ HaveRef(r, Index(r.cur - r.content.ref - 1)))
  <2>1. s = RefMissing(r) \/ \E d \in Older(r) : s \in Deliver(r, d)
    BY <1>4 DEF FlushParsed
  <2>2. CASE s = RefMissing(r)
    BY <2>2, MissingEnds
  <2>3. ASSUME NEW d \in Older(r), s \in Deliver(r, d) PROVE Ended(r, s)
    <3>1. d \in Distance /\ HaveRef(r, Index(r.cur - d - 1))
      BY <1>2, Sizes DEF Older, Distance
    <3> QED
      BY <2>3, <3>1, DeliverEnds
  <2> QED
    BY <2>1, <2>2, <2>3
<1> QED
  BY <1>3, <1>4

\* chiaki_video_receiver_flush_frame, whatever comes of it.
LEMMA FlushEnds ==
    ASSUME NEW r, Inv(r), r.prev # r.cur, NEW s \in Flush(r)
    PROVE Ended(r, s)
<1>1. r.content \in Contents
  BY DEF Inv, Receivers
<1>2. CASE ~FlushPossible(r)
  <2>1. s \in FlushFailed(r)
    BY <1>2 DEF Flush
  <2> QED
    BY <2>1, FailEnds
<1>3. CASE FlushPossible(r)
  <2>1. s \in FlushAssembled(r)
    BY <1>3 DEF Flush
  <2>2. CASE r.content.kind = "raw"
    <3>1. s \in Deliver(r, 0) /\ 0 \in Distance
      BY <2>1, <2>2, Sizes DEF FlushAssembled, Distance
    <3> QED
      BY <2>2, <3>1, DeliverEnds
  <2>3. CASE r.content.kind = "I"
    <3> DEFINE t == [r EXCEPT !.waiting = FALSE]
    <3>1. s \in FlushParsed(t)
      BY <2>1, <2>3 DEF FlushAssembled
    <3>2. Inv(t) /\ t.prev = r.prev /\ t.cur = r.cur /\ t.now = r.now /\ t.known = r.known
      BY WaitingKeeps
    <3> HIDE DEF t
    <3>3. Ended(t, s)
      BY <3>1, <3>2, ParsedEnds
    <3> QED
      BY <3>2, <3>3 DEF Ended, Comparable
  <2>4. CASE r.content.kind \notin {"raw", "I"}
    <3>1. s \in (IF r.waiting THEN {Discard(r)} ELSE FlushParsed(r))
      BY <2>1, <2>4 DEF FlushAssembled
    <3>2. CASE r.waiting
      BY <3>1, <3>2, DiscardEnds
    <3>3. CASE ~r.waiting
      BY <3>1, <3>3, ParsedEnds
    <3> QED
      BY <3>2, <3>3
  <2> QED
    BY <2>2, <2>3, <2>4
<1> QED
  BY <1>2, <1>3

-----------------------------------------------------------------------------
(* The start of a frame.                                                   *)

LEMMA NearIs ==
    ASSUME NEW r, Inv(r), NEW n \in Nat, n >= r.now, Comparable(r, n)
    PROVE n - r.now < Half /\ n - Done(r) < Half
<1>1. r.now \in Nat /\ r.known \in Seq(Nat) /\ Done(r) \in Nat /\ Done(r) <= r.now
  BY DoneIs DEF Inv, Receivers
<1>2. n - Done(r) < Half
  <2>1. CASE r.known = <<>>
    BY <2>1, Sizes DEF Comparable, Done
  <2>2. CASE r.known # <<>>
    <3>1. 1 \in DOMAIN r.known
      BY <1>1, <2>2
    <3> QED
      BY <2>2, <3>1 DEF Comparable, Done
  <2> QED
    BY <2>1, <2>2
<1> QED
  BY <1>1, <1>2, Sizes

\* The frames that are missing before frame n are in a report.
LEMMA GapIs ==
    ASSUME NEW r, Inv(r), NEW n \in Nat, n > r.now, Comparable(r, n), NEW t \in ReportGap(r, n)
    PROVE /\ Inv(t) /\ t.cur = r.cur /\ t.prev = r.prev /\ t.now = r.now /\ t.known = r.known
          /\ \A m \in (Done(t) + 1)..(n - 1) : Told(t, m)
<1>1. Done(r) \in Nat /\ Done(r) <= r.now /\ r.complete = Index(Done(r)) /\ r.now \in Nat
  BY DoneIs DEF Inv, Receivers
<1>2. n - Done(r) < Half
  BY <1>1, NearIs
<1>3. NextExpected(r) = Index(Done(r) + 1)
  BY <1>1, IndexAdd DEF NextExpected
<1>4. Gt(Index(n), NextExpected(r)) <=> n > Done(r) + 1
  <2> DEFINE b == Done(r) + 1
  <2>1. b \in Int /\ n \in Int /\ n - b < Half /\ b - n <= Half
    BY <1>1, <1>2, Sizes
  <2> HIDE DEF b
  <2>2. Gt(Index(n), Index(b)) <=> n > b
    BY <2>1, Gts
  <2> QED
    BY <1>3, <2>2 DEF b
<1>5. CASE n > Done(r) + 1
  <2>1. n - 1 \in Nat /\ Done(r) < n - 1 /\ (n - 1) - Done(r) <= Half
    BY <1>1, <1>2, <1>5, Sizes
  <2>2. t \in {Sent(r, n - 1), Unsent(r, n - 1)} /\ t \in Receivers
    <3>1. /\ SendCorrupt(r, NextExpected(r), n - 1) = {Sent(r, n - 1), Unsent(r, n - 1)}
          /\ Sent(r, n - 1) \in Receivers /\ Unsent(r, n - 1) \in Receivers
      BY <2>1, CorruptIs
    <3>2. t \in SendCorrupt(r, NextExpected(r), n - 1)
      BY <1>4, <1>5 DEF ReportGap
    <3> QED
      BY <3>1, <3>2
  <2>3. n - 1 >= r.now - 1
    BY <1>1
  <2>4. /\ Inv(t) /\ t.prev = r.prev /\ t.cur = r.cur /\ t.now = r.now /\ t.known = r.known
        /\ \A m \in (Done(r) + 1)..(n - 1) : Told(t, m)
    BY <2>1, <2>2, <2>3, ReportKeeps
  <2> QED
    BY <2>4 DEF Done
<1>6. CASE ~(n > Done(r) + 1)
  <2>1. t = r
    BY <1>4, <1>6 DEF ReportGap
  <2>2. (Done(r) + 1)..(n - 1) = {}
    BY <1>1, <1>6
  <2> QED
    BY <2>1, <2>2
<1> QED
  BY <1>5, <1>6

Arrived(r, n, k) == [r EXCEPT !.arrived = Index(n), !.counted = Index(n - 1), !.lostTotal = @ + k]

\* chiaki_frame_loss_tracker_frame_arrived: the frames between the last one and
\* frame n are counted as lost.
LEMMA ArrivedIs ==
    ASSUME NEW r, Inv(r), NEW n \in Nat, n > r.now, n - r.now < Half,
           NEW k, k = IF r.now = 0 THEN 0 ELSE n - 1 - r.now
    PROVE FrameArrived(r, Index(n)) = Arrived(r, n, k)
<1>1. /\ r \in Receivers /\ r.now \in Nat /\ r.lostTotal \in Nat
      /\ r.arrived = (IF r.now = 0 THEN -1 ELSE Index(r.now))
      /\ r.now > 0 => r.counted \in {Index(r.now - 1), Index(r.now)}
  BY DEF Inv, IndicesOk, Receivers
<1>2. Index(Index(n) - 1) = Index(n - 1)
  <2> DEFINE m == -1
  <2>1. m \in Int
    OBVIOUS
  <2> HIDE DEF m
  <2>2. Index(Index(n) + m) = Index(n + m)
    BY <2>1, IndexAdd
  <2>3. Index(n) \in Int
    BY IndexIs, Sizes
  <2>4. Index(n) + m = Index(n) - 1 /\ n + m = n - 1
    BY <2>3 DEF m
  <2> QED
    BY <2>2, <2>4
<1>3. CASE r.now = 0
  <2>0. r.arrived < 0
    BY <1>1, <1>3
  <2>1. FrameArrived(r, Index(n)) = [r EXCEPT !.arrived = Index(n), !.counted = Index(n - 1)]
    BY <1>2, <2>0 DEF FrameArrived
  <2>2. r.lostTotal + k = r.lostTotal
    BY <1>1, <1>3
  <2> QED
    BY <1>1, <2>1, <2>2 DEF Receivers, Arrived
<1>4. CASE r.now > 0
  <2> DEFINE o == r.now
  <2>1. o \in Int /\ o > 0 /\ n - o < Half /\ n > o /\ r.arrived = Index(o)
        /\ r.counted \in {Index(o - 1), Index(o)} /\ k = n - 1 - o
    BY <1>1, <1>4
  <2> HIDE DEF o
  <2>2. ~(r.arrived < 0)
    BY <2>1, IndexIs
  <2>3. Gt(Index(n), r.arrived)
    <3>1. o - n <= Half
      BY <2>1, Sizes
    <3> QED
      BY <2>1, <3>1, Gts
  <2>4. Index(r.arrived + 1) = Index(o + 1)
    BY <2>1, IndexAdd
  <2>5. Index(n) = Index(o + 1) <=> n = o + 1
    <3>1. o + 1 \in Int /\ n - (o + 1) < SeqSize /\ (o + 1) - n < SeqSize
      BY <2>1, Sizes
    <3> QED
      BY <3>1, IndexOnce
  <2> DEFINE c == IF Index(n) = Index(r.arrived + 1) THEN r ELSE Count(r, Index(r.arrived + 1), Index(Index(n) - 1))
  <2>6. FrameArrived(r, Index(n)) =
          [c EXCEPT !.arrived = Index(n), !.counted = IF Gt(Index(n - 1), @) THEN Index(n - 1) ELSE @]
    BY <1>2, <2>2, <2>3 DEF FrameArrived
  <2>7. CASE n = o + 1
    <3>1. c = r /\ k = 0
      BY <2>1, <2>4, <2>5, <2>7
    <3>2. n - 1 = o
      BY <2>1, <2>7
    <3>3. (IF Gt(Index(n - 1), r.counted) THEN Index(n - 1) ELSE r.counted) = Index(n - 1)
      <4>1. CASE r.counted = Index(o)
        BY <3>2, <4>1
      <4>2. CASE r.counted = Index(o - 1)
        <5>1. o - 1 \in Int /\ o - (o - 1) < Half /\ (o - 1) - o <= Half /\ o > o - 1
          BY <2>1, Sizes
        <5>2. Gt(Index(o), Index(o - 1))
          BY <2>1, <5>1, Gts
        <5> QED
          BY <3>2, <4>2, <5>2
      <4> QED
        BY <2>1, <4>1, <4>2
    <3>4. r.lostTotal + k = r.lostTotal
      BY <1>1, <3>1
    <3> HIDE DEF c
    <3> QED
      BY <1>1, <2>6, <3>1, <3>3, <3>4, ZenonT(40) DEF Receivers, Arrived
  <2>8. CASE n # o + 1
    <3> DEFINE f == o + 1
               l == n - 1
    <3>1. f \in Int /\ l \in Int /\ f <= l /\ l - f < Half /\ (l - f) + 1 = k
      BY <2>1, <2>8, Sizes
    <3>2. c = Count(r, Index(f), Index(l))
      BY <1>2, <2>4, <2>5, <2>8
    <3>3. PICK b \in {o - 1, o} : r.counted = Index(b)
      BY <2>1
    <3>4. b \in Int /\ f - b < Half /\ b - f <= Half /\ f = (IF f > b THEN f ELSE b + 1)
      BY <2>1, <2>8, <3>3, Sizes
    <3> HIDE DEF f, l, c
    <3>5. Count(r, Index(f), Index(l)) = Lose(r, Index(l), (l - f) + 1)
      BY <1>1, <3>1, <3>3, <3>4, CountIs
    <3>6. c = Lose(r, Index(l), k)
      BY <3>1, <3>2, <3>5
    <3>7. c.counted = Index(l) /\ l = n - 1
      BY <1>1, <3>6 DEF Lose, Receivers, l
    <3>8. (IF Gt(Index(n - 1), c.counted) THEN Index(n - 1) ELSE c.counted) = Index(n - 1)
      BY <3>7
    <3>9. FrameArrived(r, Index(n)) = [c EXCEPT !.arrived = Index(n), !.counted = Index(n - 1)]
      BY <2>6, <3>8
    <3> QED
      BY <1>1, <3>6, <3>7, <3>9 DEF Lose, Receivers, Arrived
  <2> QED
    BY <2>7, <2>8
<1> QED
  BY <1>1, <1>3, <1>4

\* What the start of frame n makes of the receiver t that has reported the gap.
Started(t, n, c, k, f) ==
    [t EXCEPT !.arrived = Index(n), !.counted = Index(n - 1), !.lostTotal = @ + k, !.cur = Index(n),
              !.now = n, !.units = {}, !.content = c, !.first = f]

LEMMA StartedIs ==
    ASSUME NEW t, Inv(t), NEW n \in Nat, n > t.now, Comparable(t, n), NEW c
    PROVE StartFrame(t, n, c) = Started(t, n, c, IF t.now = 0 THEN 0 ELSE n - 1 - t.now,
                                        IF t.cur < 0 THEN n ELSE t.first)
<1> DEFINE k == IF t.now = 0 THEN 0 ELSE n - 1 - t.now
<1>1. n - t.now < Half
  <2>1. t.now \in Nat
    BY DEF Inv, Receivers
  <2> QED
    BY <2>1, NearIs
<1>2. StartFrame(t, n, c) =
        [FrameArrived(t, Index(n)) EXCEPT !.cur = Index(n), !.now = n, !.units = {}, !.content = c,
                                          !.first = IF t.cur < 0 THEN n ELSE @]
  BY DEF StartFrame
<1>3. k = IF t.now = 0 THEN 0 ELSE n - 1 - t.now
  OBVIOUS
<1> HIDE DEF k
<1>4. FrameArrived(t, Index(n)) = Arrived(t, n, k)
  BY <1>1, <1>3, ArrivedIs
<1>5. StartFrame(t, n, c) = Started(t, n, c, k, IF t.cur < 0 THEN n ELSE t.first)
  <2>1. t \in Receivers
    BY DEF Inv
  <2> QED
    BY <1>2, <1>4, <2>1 DEF Started, Arrived, Receivers
<1> QED
  BY <1>5 DEF k

\* A frame starts only when the one before it is over; it is not counted yet.
LEMMA StartIs ==
    ASSUME NEW t, Inv(t), t.prev = t.cur, NEW n \in Nat, n > t.now, Comparable(t, n),
           \A m \in (Done(t) + 1)..(n - 1) : Told(t, m), NEW c \in Contents, NEW s, s = StartFrame(t, n, c)
    PROVE Inv(s) /\ s.now = n /\ s.prev # s.cur
<1> DEFINE k == IF t.now = 0 THEN 0 ELSE n - 1 - t.now
           f == IF t.cur < 0 THEN n ELSE t.first
<1>1. s = Started(t, n, c, k, f)
  BY StartedIs
<1>3. /\ t.now \in Nat /\ t.first \in Nat /\ t.first > 0 /\ Done(t) \in Nat /\ Done(t) <= t.now
      /\ Done(t) = 0 \/ Done(t) \in t.decoded
  BY DoneIs, Numbers DEF Inv
<1>4. n - t.now < Half
  BY <1>3, NearIs
<1>5. t.cur = (IF t.now = 0 THEN -1 ELSE Index(t.now))
  BY DEF Inv, IndicesOk
<1>6. t.cur < 0 <=> t.now = 0
  BY <1>3, <1>5, IndexIs
<1>7. k \in Nat /\ f \in Nat \ {0} /\ n > 0
  BY <1>3, <1>6
<1>8. t \in Receivers
  BY DEF Inv
<1>9. Index(n) \in 0..(SeqSize - 1) /\ Index(n - 1) \in 0..(SeqSize - 1)
  BY IndexIs
<1> HIDE DEF k, f
<1>10. /\ s.arrived = Index(n) /\ s.counted = Index(n - 1) /\ s.lostTotal = t.lostTotal + k /\ s.cur = Index(n)
       /\ s.now = n /\ s.first = f /\ s.prev = t.prev /\ s.complete = t.complete /\ s.refs = t.refs
       /\ s.receivedTotal = t.receivedTotal /\ s.discardedTotal = t.discardedTotal /\ s.known = t.known
       /\ s.decoded = t.decoded /\ s.reported = t.reported /\ s.sample = t.sample
       /\ s.unsent = t.unsent /\ s.sent = t.sent
  BY <1>1, <1>8 DEF Started, Receivers
<1>11. s \in Receivers
  <2> DEFINE i == Index(n)
             j == Index(n - 1)
             l == t.lostTotal + k
  <2>1. i \in -1..(SeqSize - 1) /\ j \in -1..(SeqSize - 1)
    <3> HIDE DEF i, j
    <3>1. i \in 0..(SeqSize - 1) /\ j \in 0..(SeqSize - 1)
      BY <1>9 DEF i, j
    <3> QED
      BY <3>1, Sizes
  <2>2. l \in Nat
    BY <1>7, <1>8, Numbers
  <2>3. s = [t EXCEPT !.arrived = i, !.counted = j, !.lostTotal = l, !.cur = i, !.now = n, !.units = {},
                      !.content = c, !.first = f]
    BY <1>1, <1>8 DEF Started, Receivers
  <2> HIDE DEF i, j, l
  <2> DEFINE v == [t EXCEPT !.arrived = i, !.counted = j, !.lostTotal = l, !.cur = i]
  <2>4. v \in Receivers
    BY <1>8, <2>1, <2>2 DEF Receivers
  <2>5. s = [v EXCEPT !.now = n, !.units = {}, !.content = c, !.first = f]
    BY <1>8, <2>3 DEF Receivers
  <2> HIDE DEF v
  <2> DEFINE u == [v EXCEPT !.now = n, !.units = {}]
  <2>6. u \in Receivers
    <3>1. {} \in SUBSET Units
      OBVIOUS
    <3> QED
      BY <2>4, <3>1 DEF Receivers
  <2>7. s = [u EXCEPT !.content = c, !.first = f]
    BY <2>4, <2>5 DEF Receivers
  <2> HIDE DEF u
  <2> QED
    BY <1>7, <2>6, <2>7 DEF Receivers
<1>12. s.prev # s.cur
  <2>1. CASE t.now = 0
    BY <1>5, <1>9, <1>10, <2>1
  <2>2. CASE t.now > 0
    <3> DEFINE o == t.now
    <3>1. o \in Int /\ n - o < SeqSize /\ o - n < SeqSize /\ n # o /\ s.prev = Index(o)
      BY <1>3, <1>4, <1>5, <1>10, <2>2, Sizes
    <3> HIDE DEF o
    <3> QED
      BY <1>10, <3>1, IndexOnce
  <2> QED
    BY <1>3, <2>1, <2>2
<1>13. IndicesOk(s)
  <2>1. /\ t.complete = Index(IF t.known = <<>> THEN 0 ELSE t.known[1])
        /\ Len(t.refs) = Len(t.known) /\ Len(t.refs) <= RefSlots
        /\ \A i \in DOMAIN t.known :
              t.refs[i] = Index(t.known[i]) /\ t.known[i] \in t.decoded /\ t.known[i] <= t.now
    BY DEF Inv, IndicesOk, Done
  <2>2. \A i \in DOMAIN t.known : t.known[i] \in Nat
    <3>1. t.known \in Seq(Nat)
      BY <1>8 DEF Receivers
    <3> QED
      BY <3>1
  <2>3. Comparable(s, n)
    BY <1>10 DEF Comparable
  <2>4. \A i \in DOMAIN s.known :
           s.refs[i] = Index(s.known[i]) /\ s.known[i] \in s.decoded /\ s.known[i] < n /\ s.known[i] <= n
    BY <1>3, <1>10, <2>1, <2>2
  <2> QED
    BY <1>7, <1>10, <2>1, <2>3, <2>4 DEF IndicesOk, Done
<1>14. CountedOnce(s)
  <2> DEFINE total == t.receivedTotal + t.discardedTotal + t.lostTotal
  <2>1. total = IF t.cur < 0 THEN 0 ELSE t.now - t.first + 1
    BY DEF Inv, CountedOnce
  <2>2. t.receivedTotal \in Nat /\ t.discardedTotal \in Nat /\ t.lostTotal \in Nat
    BY <1>8 DEF Receivers
  <2>3. s.receivedTotal + s.discardedTotal + s.lostTotal = total + k
    BY <1>7, <1>10, <2>2
  <2> HIDE DEF total
  <2>4. total + k = n - f
    BY <1>3, <1>6, <2>1 DEF k, f
  <2>5. ~(s.cur < 0)
    BY <1>9, <1>10
  <2> QED
    BY <1>7, <1>10, <1>12, <2>3, <2>4, <2>5 DEF CountedOnce
<1>15. Reported(s)
  <2> SUFFICES ASSUME NEW m \in f..(n - 1) PROVE Told(t, m)
    <3>1. \A m : Told(s, m) <=> Told(t, m)
      BY <1>10 DEF Told, Done
    <3> QED
      BY <1>10, <3>1 DEF Reported
  <2>1. ~(t.cur < 0) /\ m \in Nat /\ m >= t.first /\ t.cur >= 0
    BY <1>3, <1>5, <1>7, <1>9, IndexIs DEF f
  <2>2. CASE m < t.now
    <3>1. m \in t.first..(t.now - 1)
      BY <1>3, <2>1, <2>2
    <3> QED
      BY <2>1, <3>1 DEF Inv, Reported
  <2>3. CASE m >= t.now /\ Done(t) < m
    <3>1. m \in (Done(t) + 1)..(n - 1)
      BY <1>3, <1>7, <2>1, <2>3
    <3> QED
      BY <3>1
  <2>4. CASE m >= t.now /\ ~(Done(t) < m)
    <3>1. m = Done(t) /\ Done(t) # 0
      BY <1>3, <1>6, <2>1, <2>4
    <3> QED
      BY <1>3, <3>1 DEF Told
  <2> QED
    BY <1>3, <2>1, <2>2, <2>3, <2>4
<1>16. s.sample \subseteq s.decoded
  BY <1>10 DEF Inv
<1> QED
  BY <1>10, <1>11, <1>12, <1>13, <1>14, <1>15, <1>16 DEF Inv

-----------------------------------------------------------------------------
(* The steps.                                                              *)

\* A unit that completes the frame, or is its last, ends it; no other changes anything
\* that the properties are about.
LEMMA PutIs ==
    ASSUME NEW r, Inv(r), NEW u \in Units, NEW s \in PutUnit(r, u)
    PROVE Inv(s)
<1> DEFINE t == [r EXCEPT !.units = @ \cup {u}]
<1>1. s \in IF t.cur # t.prev /\ (FlushPossible(t) \/ u = SourceUnits + FecUnits - 1) THEN Flush(t) ELSE {t}
  BY DEF PutUnit
<1>2. Inv(t)
  BY UnitsKeep
<1> HIDE DEF t
<1>3. CASE s \in Flush(t) /\ t.cur # t.prev
  BY <1>2, <1>3, FlushEnds DEF Ended
<1> QED
  BY <1>1, <1>2, <1>3

\* The frame that is not over yet when another begins ends first.
LEMMA FlushLastIs ==
    ASSUME NEW r, Inv(r), NEW n \in Nat, n > r.now, Comparable(r, n), NEW s \in FlushLast(r)
    PROVE Inv(s) /\ s.prev = s.cur /\ s.now = r.now /\ Comparable(s, n)
<1>1. CASE r.cur >= 0 /\ r.prev # r.cur
  <2>1. Ended(r, s)
    BY <1>1, FlushEnds DEF FlushLast
  <2> QED
    BY <2>1 DEF Ended
<1>2. CASE ~(r.cur >= 0 /\ r.prev # r.cur)
  <2>1. s = r
    BY <1>2 DEF FlushLast
  <2>2. r.prev = r.cur
    <3>1. CASE r.now = 0
      BY <3>1 DEF Inv, IndicesOk
    <3>2. CASE r.now # 0
      <4>1. r.cur = Index(r.now) /\ r.now \in Nat
        BY <3>2 DEF Inv, IndicesOk, Receivers
      <4> QED
        BY <1>2, <4>1, IndexIs
    <3> QED
      BY <3>1, <3>2
  <2> QED
    BY <2>1, <2>2
<1> QED
  BY <1>1, <1>2

(***************************************************************************)
(* The inductive invariant.                                                *)
(***************************************************************************)
IInv == Inv(rx) /\ lastUnit \in Units /\ gui \in {"idle", "asked", "done"}

LEMMA FreshOk == Inv(Fresh)
<1>1. Fresh \in Receivers
  <2>1. [kind |-> "I", ref |-> 0] \in Contents
    BY DEF Contents
  <2>2. MaxFrames \in Nat /\ -1 \in -1..(SeqSize - 1) /\ 0 \in 0..(SeqSize - 1)
    BY Sizes, ConstantsAssumption
  <2> QED
    BY <2>1, <2>2 DEF Fresh, Receivers
<1>2. IndicesOk(Fresh)
  <2>1. Index(0) = 0
    BY Sizes, ModSmall DEF Index
  <2> QED
    BY <2>1, Sizes DEF IndicesOk, Fresh, Comparable, Done
<1> QED
  BY <1>1, <1>2 DEF Inv, CountedOnce, Reported, Fresh

LEMMA SeqIs ==
    ASSUME NEW S, NEW k \in Nat, NEW q \in [1..k -> S]
    PROVE q \in Seq(S) /\ Len(q) = k /\ DOMAIN q = 1..k
OBVIOUS

LEMMA RunningOk == Inv(Running)
<1> DEFINE n == SeqSize - 2
           q == [i \in 1..RefSlots |-> n + 1 - i]
           D == {n + 1 - i : i \in 1..RefSlots}
<1>1. n \in Nat /\ n > 0 /\ n <= SeqSize - 1 /\ n - 1 \in Nat /\ n - 1 <= SeqSize - 1 /\ RefSlots <= n /\ MaxFrames \in Nat
      /\ RefSlots \in Nat \ {0} /\ RefSlots < Half
  BY Sizes, ConstantsAssumption
<1>2. /\ Running.cur = n /\ Running.prev = n /\ Running.complete = n /\ Running.units = Units
      /\ Running.refs = q /\ Running.arrived = n /\ Running.counted = n - 1 /\ Running.now = n
      /\ Running.first = n + 1 /\ Running.known = q /\ Running.decoded = D /\ Running.last = n + MaxFrames
      /\ Running.lostTotal = 0 /\ Running.receivedTotal = 0 /\ Running.discardedTotal = 0
      /\ Running.sample = {} /\ Running.reported = {}
  BY DEF Running, Fresh
<1>3. q \in Seq(Nat) /\ q \in Seq(0..(SeqSize - 1)) /\ Len(q) = RefSlots /\ DOMAIN q = 1..RefSlots
      /\ \A i \in 1..RefSlots : q[i] = n + 1 - i
  <2>1. \A i \in 1..RefSlots : n + 1 - i \in Nat /\ n + 1 - i \in 0..(SeqSize - 1)
    BY <1>1, Sizes
  <2>2. q \in [1..RefSlots -> Nat] /\ q \in [1..RefSlots -> 0..(SeqSize - 1)]
    BY <2>1
  <2>3. \A i \in 1..RefSlots : q[i] = n + 1 - i
    OBVIOUS
  <2> HIDE DEF q
  <2> QED
    BY <1>1, <2>2, <2>3, SeqIs
<1>4. D \subseteq Nat
  BY <1>1
<1>5. Running \in Receivers
  <2>1. [kind |-> "I", ref |-> 0] \in Contents
    BY DEF Contents
  <2>2. n \in -1..(SeqSize - 1) /\ n - 1 \in -1..(SeqSize - 1) /\ n \in 0..(SeqSize - 1) /\ n + MaxFrames \in Nat /\ n + 1 \in Nat
    BY <1>1
  <2>3. Running = [Fresh EXCEPT !.cur = n, !.prev = n, !.complete = n, !.units = Units, !.refs = q, !.arrived = n,
                     !.counted = n - 1, !.now = n, !.first = n + 1, !.known = q, !.decoded = D, !.last = n + MaxFrames]
    BY DEF Running
  <2>4. Fresh \in Receivers
    BY FreshOk DEF Inv
  <2> HIDE DEF n, q, D
  <2> DEFINE v == [Fresh EXCEPT !.cur = n, !.prev = n, !.complete = n, !.units = Units, !.refs = q]
  <2>5. v \in Receivers
    BY <1>3, <2>2, <2>4 DEF Receivers
  <2>6. Running = [v EXCEPT !.arrived = n, !.counted = n - 1, !.now = n, !.first = n + 1, !.known = q,
                            !.decoded = D, !.last = n + MaxFrames]
    BY <2>3, <2>4 DEF Receivers
  <2> HIDE DEF v
  <2> DEFINE u == [v EXCEPT !.arrived = n, !.counted = n - 1, !.now = n]
  <2>7. u \in Receivers
    <3>1. n \in Nat
      BY <2>2
    <3> QED
      BY <2>2, <2>5, <3>1 DEF Receivers
  <2>8. Running = [u EXCEPT !.first = n + 1, !.known = q, !.decoded = D, !.last = n + MaxFrames]
    BY <2>5, <2>6 DEF Receivers
  <2> HIDE DEF u
  <2>9. n + 1 \in Nat \ {0}
    BY <1>1
  <2> QED
    BY <1>1, <1>3, <1>4, <2>2, <2>7, <2>8, <2>9 DEF Receivers
<1>6. IndicesOk(Running)
  <2>1. \A x \in 0..(SeqSize - 1) : Index(x) = x
    BY Sizes, ModSmall DEF Index
  <2>2. Index(n) = n /\ Index(n - 1) = n - 1
    BY <1>1, <2>1
  <2>3. \A i \in 1..RefSlots : n + 1 - i \in 0..(SeqSize - 1) /\ n + 1 - i \in D /\ n + 1 - i <= n /\ n - (n + 1 - i) < Half
    BY <1>1, Sizes
  <2> HIDE DEF q, D
  <2>4. \A i \in 1..RefSlots : q[i] \in 0..(SeqSize - 1) /\ q[i] \in D /\ q[i] <= n /\ n - q[i] < Half /\ q[i] = Index(q[i])
    BY <1>3, <2>1, <2>3
  <2>6. q # <<>> /\ q[1] = n
    BY <1>1, <1>3
  <2> HIDE DEF n, q, D
  <2>5. Comparable(Running, n)
    BY <1>2, <1>3, <2>4, <2>6 DEF Comparable
  <2> QED
    BY <1>1, <1>2, <1>3, <2>2, <2>4, <2>5, <2>6 DEF IndicesOk, Done
<1>7. CountedOnce(Running) /\ Reported(Running)
  BY <1>1, <1>2 DEF CountedOnce, Reported
<1> QED
  BY <1>2, <1>5, <1>6, <1>7 DEF Inv

LEMMA InitHolds == Init => IInv
<1> SUFFICES ASSUME Init PROVE IInv
  OBVIOUS
<1>1. Inv(rx)
  BY FreshOk, RunningOk DEF Init
<1>2. lastUnit \in Units
  BY Sizes, ConstantsAssumption DEF Init, Units
<1> QED
  BY <1>1, <1>2 DEF Init, IInv

LEMMA Inductive == IInv /\ [Next]_vars => IInv'
<1> SUFFICES ASSUME IInv, [Next]_vars PROVE IInv'
  OBVIOUS
<1> USE DEF IInv
<1>1. ASSUME NEW u \in Units, NextUnit(u) PROVE IInv'
  <2>1. Inv(rx')
    BY <1>1, PutIs DEF NextUnit
  <2> QED
    BY <1>1, <2>1 DEF NextUnit
<1>2. ASSUME NEW n \in (rx.now + 1)..rx.last, NEW u \in Units, NEW c \in Contents, NextFrame(n, u, c) PROVE IInv'
  <2>1. rx.now \in Nat /\ rx.last \in Nat
    BY DEF Inv, Receivers
  <2>2. n \in Nat /\ n > rx.now /\ Comparable(rx, n)
    BY <1>2, <2>1 DEF NextFrame
  <2>3. PICK r \in FlushLast(rx) : \E t \in ReportGap(r, n) : rx' \in PutUnit(StartFrame(t, n, c), u)
    BY <1>2 DEF NextFrame
  <2>8. PICK t \in ReportGap(r, n) : rx' \in PutUnit(StartFrame(t, n, c), u)
    BY <2>3
  <2>4. Inv(r) /\ r.prev = r.cur /\ r.now = rx.now /\ Comparable(r, n)
    BY <2>2, <2>3, FlushLastIs
  <2>5. /\ Inv(t) /\ t.prev = t.cur /\ t.now = rx.now /\ Comparable(t, n)
        /\ \A m \in (Done(t) + 1)..(n - 1) : Told(t, m)
    <3>1. /\ Inv(t) /\ t.cur = r.cur /\ t.prev = r.prev /\ t.now = r.now /\ t.known = r.known
          /\ \A m \in (Done(t) + 1)..(n - 1) : Told(t, m)
      BY <2>2, <2>4, <2>8, GapIs
    <3> QED
      BY <2>4, <3>1 DEF Comparable
  <2>7. Inv(StartFrame(t, n, c))
    BY <2>2, <2>5, StartIs
  <2>6. Inv(rx')
    BY <2>7, <2>8, PutIs
  <2> QED
    BY <1>2, <2>6 DEF NextFrame
<1>3. CASE RequestIdr
  BY <1>3 DEF RequestIdr
<1>4. CASE SetWaiting
  <2>1. Inv(rx')
    BY <1>4, WaitingKeeps DEF SetWaiting
  <2> QED
    BY <1>4, <2>1 DEF SetWaiting
<1>5. CASE UNCHANGED vars
  BY <1>5 DEF vars
<1> QED
  BY <1>1, <1>2, <1>3, <1>4, <1>5 DEF Next

LEMMA Invariance == Spec => []IInv
<1>1. Init => IInv
  BY InitHolds
<1>2. IInv /\ [Next]_vars => IInv'
  BY Inductive
<1> QED
  BY <1>1, <1>2, PTL DEF Spec

-----------------------------------------------------------------------------
\* The indices that the receiver keeps are those of the frames that it means, and a P
\* frame is given to the decoder only with a reference that the decoder took.
THEOREM ReceiverSafe == Spec => []ReceiverInv
<1>1. IInv => ReceiverInv
  BY DEF IInv, Inv, ReceiverInv, TypeOK, ReferenceDecoded
<1> QED
  BY <1>1, Invariance, PTL

\* Every frame that is over is in exactly one of frames received, discarded and
\* frames_lost_total, over every wrap of the index.
THEOREM CountedSafe == Spec => []LossCountedOnce
<1>1. IInv => LossCountedOnce
  BY DEF IInv, Inv, CountedOnce, LossCountedOnce, Over
<1> QED
  BY <1>1, Invariance, PTL

\* The console is told of every frame that the decoder did not take before a later one
\* begins to arrive, but for those whose report could not be sent; and a report that is sent
\* makes up for those that were not, as far back as the last frame that was completed.
THEOREM ReportedSafe == Spec => []LossIsReported
<1>1. IInv => LossIsReported
  BY DEF IInv, Inv, Reported, Told, LossIsReported
<1> QED
  BY <1>1, Invariance, PTL
=============================================================================
