----------------------- MODULE TakionReorderProofs -----------------------
(***************************************************************************)
(* The safety of the two users of the reorder queue, TakionDataChannel and *)
(* TakionVideoReorder, and that each implements Reassembly: for every ring *)
(* and number space, every first number, every number of chunks and window *)
(* of the channel, every number of video packets, frame length, delay and  *)
(* outage.  The lemmas of the first parts are about the numbers of         *)
(* seqnum.h and about the operators of ReorderQueue.                       *)
(***************************************************************************)
EXTENDS TakionDataChannel, TakionVideoReorder, TLAPS, FiniteSetTheorems, WellFoundedInduction

-----------------------------------------------------------------------------
(* Remainders.                                                             *)

LEMMA DivMod ==
    ASSUME NEW M \in Nat \ {0}, NEW x \in Int
    PROVE x % M \in 0..(M - 1) /\ x \div M \in Int /\ x = M * (x \div M) + (x % M)
OBVIOUS

LEMMA Multiples == ASSUME NEW M \in Nat \ {0}, NEW a \in Int, NEW b \in Int, a < b PROVE M * a + M <= M * b
<1>1. M * (b - a) = M * b - M * a
  OBVIOUS
<1>2. M * (b - a) >= M
  <2>1. b - a >= 1
    OBVIOUS
  <2> QED
    BY <2>1
<1> QED
  BY <1>1, <1>2

\* A remainder is found by writing the number with a multiple.
LEMMA ModIs ==
    ASSUME NEW M \in Nat \ {0}, NEW q \in Int, NEW r \in 0..(M - 1), NEW x \in Int, x = M * q + r
    PROVE x % M = r
<1> DEFINE p == x \div M
           s == x % M
<1>1. s \in 0..(M - 1) /\ p \in Int /\ x = M * p + s
  BY DivMod
<1> HIDE DEF p, s
<1>2. CASE p < q
  <2>1. M * p + M <= M * q
    BY <1>1, <1>2, Multiples
  <2>2. M * p \in Int /\ M * q \in Int
    BY <1>1
  <2> QED
    BY <1>1, <2>1, <2>2
<1>3. CASE q < p
  <2>1. M * q + M <= M * p
    BY <1>1, <1>3, Multiples
  <2>2. M * p \in Int /\ M * q \in Int
    BY <1>1
  <2> QED
    BY <1>1, <2>1, <2>2
<1>4. CASE p = q
  <2>1. M * p \in Int
    BY <1>1
  <2>2. s = r
    BY <1>1, <1>4, <2>1
  <2> QED
    BY <1>4, <2>2 DEF s
<1> QED
  BY <1>1, <1>2, <1>3, <1>4

LEMMA ModSmall == ASSUME NEW M \in Nat \ {0}, NEW x \in 0..(M - 1) PROVE x % M = x
<1>1. x = M * 0 + x /\ x \in Int
  OBVIOUS
<1> QED
  BY <1>1, ModIs

LEMMA ModBelow == ASSUME NEW M \in Nat \ {0}, NEW x \in (-M)..(-1) PROVE x % M = x + M
<1>1. x = M * (-1) + (x + M) /\ x \in Int /\ x + M \in 0..(M - 1) /\ -1 \in Int
  OBVIOUS
<1> QED
  BY <1>1, ModIs

\* Numbers that differ by a multiple have the same remainder.
LEMMA ModShift ==
    ASSUME NEW M \in Nat \ {0}, NEW x \in Int, NEW y \in Int, NEW k \in Int, y = x + M * k
    PROVE y % M = x % M
<1>1. PICK p \in Int : x = M * p + (x % M)
  BY DivMod
<1>2. x % M \in 0..(M - 1)
  BY DivMod
<1> DEFINE r == x % M
<1> HIDE DEF r
<1>3. r \in 0..(M - 1) /\ x = M * p + r
  BY <1>1, <1>2 DEF r
<1>4. M * p + M * k = M * (p + k) /\ p + k \in Int /\ M * p \in Int /\ M * k \in Int
  OBVIOUS
<1>5. y = M * (p + k) + r
  BY <1>3, <1>4
<1>6. y % M = r
  BY <1>3, <1>4, <1>5, ModIs
<1> QED
  BY <1>6 DEF r

LEMMA ModAdd ==
    ASSUME NEW M \in Nat \ {0}, NEW x \in Int, NEW k \in Int
    PROVE ((x % M) + k) % M = (x + k) % M
<1>1. x % M \in 0..(M - 1) /\ x \div M \in Int /\ x = M * (x \div M) + (x % M)
  BY DivMod
<1>2. x + k = ((x % M) + k) + M * (x \div M) /\ (x % M) + k \in Int /\ x + k \in Int
  BY <1>1
<1> QED
  BY <1>1, <1>2, ModShift

LEMMA ModSub ==
    ASSUME NEW M \in Nat \ {0}, NEW x \in Int, NEW y \in Int
    PROVE ((x % M) - (y % M)) % M = (x - y) % M
<1>1. x % M \in 0..(M - 1) /\ x \div M \in Int /\ x = M * (x \div M) + (x % M)
  BY DivMod
<1>2. y % M \in 0..(M - 1) /\ y \div M \in Int /\ y = M * (y \div M) + (y % M)
  BY DivMod
<1>3. M * (x \div M) - M * (y \div M) = M * ((x \div M) - (y \div M)) /\ (x \div M) - (y \div M) \in Int
      /\ M * (x \div M) \in Int /\ M * (y \div M) \in Int
  BY <1>1, <1>2
<1>4. x - y = ((x % M) - (y % M)) + M * ((x \div M) - (y \div M))
      /\ (x % M) - (y % M) \in Int /\ x - y \in Int
  BY <1>1, <1>2, <1>3
<1> QED
  BY <1>3, <1>4, ModShift

\* The ring divides the number space, so wrapping the number first changes no slot.
LEMMA ModMod ==
    ASSUME NEW M \in Nat \ {0}, NEW S \in Nat \ {0}, M % S = 0, NEW x \in Int
    PROVE (x % M) % S = x % S
<1>1. PICK p \in Int : x = M * p + (x % M)
  BY DivMod
<1>2. PICK c \in Int : M = S * c + (M % S)
  <2>1. M \in Int
    OBVIOUS
  <2>2. M \div S \in Int /\ M = S * (M \div S) + (M % S)
    BY <2>1, DivMod
  <2> DEFINE d == M \div S
             e == M % S
  <2>3. d \in Int /\ M = S * d + e
    BY <2>2
  <2> HIDE DEF d, e
  <2>4. \E c \in Int : M = S * c + e
    BY <2>3
  <2> QED
    BY <2>4 DEF e
<1>3. x % M \in Int
  BY DivMod
<1> DEFINE r == x % M
<1> HIDE DEF r
<1>4. r \in Int /\ x = M * p + r
  BY <1>1, <1>3 DEF r
<1>5. M = S * c
  <2>1. S * c \in Int
    OBVIOUS
  <2> QED
    BY <1>2, <2>1
<1>6. (S * c) * p = S * (c * p) /\ c * p \in Int
  OBVIOUS
<1>7. x = r + S * (c * p)
  BY <1>4, <1>5, <1>6
<1>8. x % S = r % S
  BY <1>4, <1>6, <1>7, ModShift
<1> QED
  BY <1>8 DEF r

\* Numbers with the same remainder that are less than the modulus apart are the same.
LEMMA ModSame ==
    ASSUME NEW M \in Nat \ {0}, NEW x \in Int, NEW y \in Int, x % M = y % M, x - y < M, y - x < M
    PROVE x = y
<1>1. x % M \in 0..(M - 1) /\ x \div M \in Int /\ x = M * (x \div M) + (x % M)
  BY DivMod
<1>2. y % M \in 0..(M - 1) /\ y \div M \in Int /\ y = M * (y \div M) + (y % M)
  BY DivMod
<1>3. M * (x \div M) \in Int /\ M * (y \div M) \in Int
  BY <1>1, <1>2
<1>4. ~(x \div M < y \div M)
  <2> SUFFICES ASSUME x \div M < y \div M PROVE FALSE
    OBVIOUS
  <2>1. M * (x \div M) + M <= M * (y \div M)
    BY <1>1, <1>2, Multiples
  <2> QED
    BY <1>1, <1>2, <1>3, <2>1
<1>5. ~(y \div M < x \div M)
  <2> SUFFICES ASSUME y \div M < x \div M PROVE FALSE
    OBVIOUS
  <2>1. M * (y \div M) + M <= M * (x \div M)
    BY <1>1, <1>2, Multiples
  <2> QED
    BY <1>1, <1>2, <1>3, <2>1
<1>6. x \div M = y \div M
  BY <1>1, <1>2, <1>4, <1>5
<1> QED
  BY <1>1, <1>2, <1>6

-----------------------------------------------------------------------------
(* Least and greatest members.                                             *)

LEMMA Least ==
    ASSUME NEW T, T \subseteq Nat, T # {}
    PROVE \E m \in T : \A k \in T : m <= k
<1> DEFINE R == {ss \in Nat \X Nat : ss[1] < ss[2]}
<1>1. IsWellFoundedOn(R, Nat)
  BY NatLessThanWellFounded DEF OpToRel
<1>2. \A x, y \in Nat : <<x, y>> \in R <=> x < y
  OBVIOUS
<1> HIDE DEF R
<1>3. PICK m \in T : \A y \in T : ~(<<y, m>> \in R)
  BY WFMin, <1>1
<1>4. \A k \in T : k \in Nat /\ m \in Nat /\ ~(k < m)
  BY <1>2, <1>3
<1> QED
  BY <1>4

LEMMA MinIs ==
    ASSUME NEW T, T \subseteq Int, NEW m \in T, \A k \in T : m <= k
    PROVE Min(T) = m
<1>1. \A k \in T : (\A y \in T : k <= y) => k = m
  <2> SUFFICES ASSUME NEW k \in T, \A y \in T : k <= y PROVE k = m
    OBVIOUS
  <2>1. k <= m /\ m <= k /\ k \in Int /\ m \in Int
    OBVIOUS
  <2> QED
    BY <2>1
<1> QED
  BY <1>1 DEF Min

LEMMA MaxIs ==
    ASSUME NEW T, T \subseteq Int, NEW m \in T, \A k \in T : k <= m
    PROVE Max(T) = m
<1>1. \A k \in T : (\A y \in T : y <= k) => k = m
  <2> SUFFICES ASSUME NEW k \in T, \A y \in T : y <= k PROVE k = m
    OBVIOUS
  <2>1. k <= m /\ m <= k /\ k \in Int /\ m \in Int
    OBVIOUS
  <2> QED
    BY <2>1
<1> QED
  BY <1>1 DEF Max

-----------------------------------------------------------------------------
(* The queue in true numbers.                                              *)

LEMMA Sizes ==
    /\ Modulus \in Nat \ {0} /\ QueueSize \in Nat \ {0} /\ Modulus % QueueSize = 0
    /\ QueueSize < Modulus \div 2 /\ InitSeq \in Int
    /\ Modulus \div 2 \in Nat /\ 2 * (Modulus \div 2) = Modulus /\ AddWraps \in BOOLEAN
BY RingAssumption

LEMMA WireIs == ASSUME NEW a \in Int PROVE Wire(a) \in 0..(Modulus - 1)
<1>1. InitSeq + a \in Int
  BY Sizes
<1> QED
  BY <1>1, Sizes, DivMod DEF Wire

\* A number of the queue, 64 bits wide, that stands for the element a.
Num(x, a) == x \in Nat /\ x % Modulus = Wire(a)

LEMMA WireNum == ASSUME NEW a \in Int PROVE Num(Wire(a), a) /\ Wire(a) \in Begins
<1>1. Wire(a) \in 0..(Modulus - 1)
  BY WireIs
<1>2. Wire(a) % Modulus = Wire(a)
  BY <1>1, Sizes, ModSmall
<1> QED
  BY <1>1, <1>2, Sizes DEF Num, Begins

LEMMA WirePlus == ASSUME NEW a \in Int, NEW k \in Int PROVE (Wire(a) + k) % Modulus = Wire(a + k)
<1> DEFINE x == InitSeq + a
           y == InitSeq + (a + k)
<1>1. x \in Int /\ x + k = y
  BY Sizes
<1>2. Wire(a) = x % Modulus /\ Wire(a + k) = y % Modulus
  BY DEF Wire
<1> HIDE DEF x, y
<1>3. ((x % Modulus) + k) % Modulus = (x + k) % Modulus
  BY <1>1, Sizes, ModAdd
<1> QED
  BY <1>1, <1>2, <1>3

\* Adding leads to the number of the right element, in the number space or above it.
LEMMA Adds ==
    ASSUME NEW a \in Int, NEW x, Num(x, a), NEW k \in Nat
    PROVE Num(Add(x, k), a + k) /\ (k <= QueueSize => Add(x, k) \in Begins)
<1>1. x \in Nat /\ x % Modulus = Wire(a) /\ Wire(a) \in 0..(Modulus - 1) /\ a + k \in Int
  BY WireIs DEF Num
<1>2. CASE AddWraps
  <2>1. Add(x, k) = (x + k) % Modulus
    BY <1>2 DEF Add
  <2>2. (x + k) % Modulus = Wire(a + k)
    <3>1. ((x % Modulus) + k) % Modulus = (x + k) % Modulus
      <4>1. x \in Int /\ k \in Int /\ Modulus \in Nat \ {0}
        BY <1>1, Sizes
      <4> QED
        BY <4>1, ModAdd, ZenonT(30)
    <3>2. (Wire(a) + k) % Modulus = Wire(a + k)
      BY WirePlus
    <3> QED
      BY <1>1, <3>1, <3>2
  <2>3. Num(Wire(a + k), a + k) /\ Wire(a + k) \in Begins
    BY <1>1, WireNum
  <2> QED
    BY <2>1, <2>2, <2>3
<1>3. CASE ~AddWraps
  <2> DEFINE r == k % Modulus
             w == Wire(a)
  <2>1. Add(x, k) = w + r
    BY <1>1, <1>3 DEF Add
  <2>2. r \in 0..(Modulus - 1)
    BY Sizes, DivMod
  <2>3. (w + r) % Modulus = Wire(a + k)
    <3>1. (r + w) % Modulus = (k + w) % Modulus
      <4>1. w \in Int /\ k \in Int /\ Modulus \in Nat \ {0}
        BY <1>1, Sizes
      <4> HIDE DEF w
      <4> QED
        BY <4>1, ModAdd, ZenonT(30)
    <3>2. r + w = w + r /\ k + w = w + k
      BY <1>1, <2>2
    <3>3. (w + k) % Modulus = Wire(a + k)
      BY WirePlus
    <3> HIDE DEF r, w
    <3> QED
      BY <3>1, <3>2, <3>3
  <2>4. k <= QueueSize => r = k
    <3>1. k <= QueueSize => k \in 0..(Modulus - 1)
      BY Sizes
    <3> QED
      BY <3>1, Sizes, ModSmall
  <2>5. w \in 0..(Modulus - 1)
    BY <1>1
  <2> HIDE DEF r, w
  <2>6. w + r \in Nat /\ (k <= QueueSize => w + r \in Begins)
    BY <2>2, <2>4, <2>5, Sizes DEF Begins
  <2> QED
    BY <2>1, <2>3, <2>6 DEF Num
<1> QED
  BY <1>2, <1>3

\* Adding nothing to a begin in either arithmetic gives the number on the wire.
LEMMA AddNothing == ASSUME NEW a \in Int, NEW x, Num(x, a) PROVE Add(x, 0) = Wire(a)
<1>1. x \in Nat /\ x % Modulus = Wire(a) /\ Wire(a) \in 0..(Modulus - 1)
  BY WireIs DEF Num
<1>2. x + 0 = x /\ Wire(a) + 0 = Wire(a)
  BY <1>1
<1>3. 0 % Modulus = 0
  <2>1. 0 \in 0..(Modulus - 1)
    BY Sizes
  <2> QED
    BY <2>1, Sizes, ModSmall
<1> QED
  BY <1>1, <1>2, <1>3 DEF Add

\* Additions of 1, one after the other.
LEMMA Steps ==
    ASSUME NEW a \in Int, NEW x, Num(x, a), x \in Begins, NEW k \in Nat
    PROVE Num(Stepped(x, k), a + k) /\ Stepped(x, k) \in Begins
<1>1. CASE k = 0
  BY <1>1 DEF Stepped
<1>2. CASE k # 0
  <2> DEFINE y == x + (k - 1)
             b == a + (k - 1)
  <2>1. y \in Nat /\ b \in Int /\ b + 1 = a + k /\ Stepped(x, k) = Add(y, 1)
    BY <1>2 DEF Num, Stepped
  <2>2. Num(y, b)
    <3>1. x \in Nat /\ x % Modulus = Wire(a) /\ k - 1 \in Int
      BY DEF Num
    <3>2. ((x % Modulus) + (k - 1)) % Modulus = y % Modulus
      <4>1. x \in Int /\ k - 1 \in Int /\ Modulus \in Nat \ {0}
        BY <3>1, Sizes
      <4> QED
        BY <4>1, ModAdd, ZenonT(30)
    <3>3. (Wire(a) + (k - 1)) % Modulus = Wire(b)
      BY <3>1, WirePlus
    <3> QED
      BY <2>1, <3>1, <3>2, <3>3 DEF Num
  <2> HIDE DEF y, b
  <2>3. Num(Add(y, 1), b + 1) /\ (1 <= QueueSize => Add(y, 1) \in Begins)
    BY <2>1, <2>2, Adds
  <2>4. 1 <= QueueSize
    BY Sizes
  <2> QED
    BY <2>1, <2>3, <2>4
<1> QED
  BY <1>1, <1>2

\* How far one number is ahead of another.
LEMMA Ahead == ASSUME NEW a \in Int, NEW b \in Int PROVE (Wire(b) - Wire(a)) % Modulus = (b - a) % Modulus
<1> DEFINE x == InitSeq + b
           y == InitSeq + a
<1>1. x \in Int /\ y \in Int /\ x - y = b - a
  BY Sizes
<1>2. Wire(b) = x % Modulus /\ Wire(a) = y % Modulus
  BY DEF Wire
<1> HIDE DEF x, y
<1>3. ((x % Modulus) - (y % Modulus)) % Modulus = (x - y) % Modulus
  BY <1>1, Sizes, ModSub
<1> QED
  BY <1>1, <1>2, <1>3

\* Within half the number space the wrapped comparison is the true one.
LEMMA Lts ==
    ASSUME NEW a \in Int, NEW b \in Int, b - a < Modulus \div 2, a - b <= Modulus \div 2
    PROVE Lt(Wire(a), Wire(b)) <=> a < b
<1>1. (Wire(b) - Wire(a)) % Modulus = (b - a) % Modulus
  BY Ahead
<1>2. CASE a <= b
  <2>1. b - a \in 0..(Modulus - 1)
    BY <1>2, Sizes
  <2>2. (b - a) % Modulus = b - a
    BY <2>1, Sizes, ModSmall
  <2> QED
    BY <1>1, <1>2, <2>2, Sizes DEF Lt
<1>3. CASE b < a
  <2>1. b - a \in (-Modulus)..(-1)
    BY <1>3, Sizes
  <2>2. (b - a) % Modulus = (b - a) + Modulus
    BY <2>1, Sizes, ModBelow
  <2>3. ~((b - a) + Modulus \in 1..(Modulus \div 2 - 1))
    BY <1>3, Sizes
  <2> QED
    BY <1>1, <1>3, <2>2, <2>3 DEF Lt
<1> QED
  BY <1>2, <1>3

\* The comparisons and the ring only look at what the number stands for.
LEMMA LtNum ==
    ASSUME NEW a \in Int, NEW b \in Int, NEW x, NEW y, Num(x, a), Num(y, b)
    PROVE Lt(x, y) <=> Lt(Wire(a), Wire(b))
<1>1. x \in Int /\ y \in Int /\ x % Modulus = Wire(a) /\ y % Modulus = Wire(b)
  BY DEF Num
<1>2. (Wire(b) - Wire(a)) % Modulus = (y - x) % Modulus
  BY <1>1, Sizes, ModSub
<1> QED
  BY <1>2 DEF Lt

LEMMA AheadNum ==
    ASSUME NEW a \in Int, NEW b \in Int, NEW x, NEW y, Num(x, a), Num(y, b)
    PROVE (y - x) % Modulus = (b - a) % Modulus
<1>1. x \in Int /\ y \in Int /\ x % Modulus = Wire(a) /\ y % Modulus = Wire(b)
  BY DEF Num
<1>2. (Wire(b) - Wire(a)) % Modulus = (y - x) % Modulus
  BY <1>1, Sizes, ModSub
<1> QED
  BY <1>2, Ahead

\* Where the ring keeps a chunk.
Place(a) == (InitSeq + a) % QueueSize

LEMMA PlaceIs == ASSUME NEW a \in Int PROVE Place(a) \in 0..(QueueSize - 1) /\ Slot(Wire(a)) = Place(a)
<1>1. InitSeq + a \in Int
  BY Sizes
<1>2. ((InitSeq + a) % Modulus) % QueueSize = (InitSeq + a) % QueueSize
  BY <1>1, Sizes, ModMod
<1>3. (InitSeq + a) % QueueSize \in 0..(QueueSize - 1)
  BY <1>1, Sizes, DivMod
<1> QED
  BY <1>2, <1>3 DEF Place, Slot, Wire

LEMMA PlaceNum == ASSUME NEW a \in Int, NEW x, Num(x, a) PROVE Slot(x) = Place(a)
<1>1. x \in Int /\ x % Modulus = Wire(a)
  BY DEF Num
<1>2. (x % Modulus) % QueueSize = x % QueueSize
  BY <1>1, Sizes, ModMod
<1>3. Slot(Wire(a)) = Place(a)
  BY PlaceIs
<1> QED
  BY <1>1, <1>2, <1>3 DEF Slot

LEMMA PlaceOnce ==
    ASSUME NEW a \in Int, NEW b \in Int, Place(a) = Place(b), a - b < QueueSize, b - a < QueueSize
    PROVE a = b
<1>1. InitSeq + a \in Int /\ InitSeq + b \in Int /\ (InitSeq + a) - (InitSeq + b) < QueueSize
      /\ (InitSeq + b) - (InitSeq + a) < QueueSize
  BY Sizes
<1>2. InitSeq + a = InitSeq + b
  BY <1>1, Sizes, ModSame DEF Place
<1> QED
  BY <1>2, Sizes

Rings(U) == [0..(QueueSize - 1) -> [set : BOOLEAN, user : U \cup {NoUser}]]

\* A queue whose begin is the true number b, every chunk in its place.
QueueOk(U, q, b) ==
    /\ b \in Nat /\ q.count \in 0..QueueSize /\ q.slot \in Rings(U)
    /\ q = [begin |-> q.begin, count |-> q.count, slot |-> q.slot]
    /\ q.begin \in Begins /\ Num(q.begin, b)
    /\ \A x \in b..(b + q.count - 1) : q.slot[Place(x)].set => q.slot[Place(x)].user = x

HeldIn(q, b) == {x \in b..(b + q.count - 1) : q.slot[Place(x)].set}

LEMMA EntryIs ==
    ASSUME NEW U, NEW q, NEW b, QueueOk(U, q, b), NEW i \in Nat
    PROVE Entry(q, i) = q.slot[Place(b + i)]
<1>1. b \in Int /\ b + i \in Int /\ Num(q.begin, b)
  BY DEF QueueOk
<1>2. Num(Add(q.begin, i), b + i)
  BY <1>1, Adds
<1>3. Slot(Add(q.begin, i)) = Place(b + i)
  BY <1>1, <1>2, PlaceNum
<1> QED
  BY <1>3 DEF Entry

LEMMA FilledIs ==
    ASSUME NEW U, NEW q, NEW b, QueueOk(U, q, b)
    PROVE /\ \A i \in 0..(q.count - 1) : Entry(q, i).set <=> b + i \in HeldIn(q, b)
          /\ Filled(q) = {i \in 0..(q.count - 1) : b + i \in HeldIn(q, b)}
          /\ HeldIn(q, b) = {b + i : i \in Filled(q)}
          /\ \A i \in Filled(q) : Entry(q, i).user = b + i
<1>1. b \in Nat /\ q.count \in Nat
  BY Sizes DEF QueueOk
<1>2. ASSUME NEW i \in 0..(q.count - 1)
      PROVE b + i \in b..(b + q.count - 1) /\ Entry(q, i) = q.slot[Place(b + i)]
  <2>1. i \in Nat /\ b + i \in b..(b + q.count - 1)
    BY <1>1
  <2> QED
    BY <2>1, EntryIs
<1>3. \A i \in 0..(q.count - 1) : Entry(q, i).set <=> b + i \in HeldIn(q, b)
  BY <1>2 DEF HeldIn
<1>4. Filled(q) = {i \in 0..(q.count - 1) : b + i \in HeldIn(q, b)}
  BY <1>3 DEF Filled
<1>5. \A i \in Filled(q) : Entry(q, i).user = b + i
  BY <1>2 DEF Filled, QueueOk
<1>6. ASSUME NEW x \in HeldIn(q, b) PROVE \E i \in Filled(q) : x = b + i
  <2>1. x \in b..(b + q.count - 1)
    BY DEF HeldIn
  <2>2. x - b \in 0..(q.count - 1) /\ x = b + (x - b)
    BY <1>1, <2>1
  <2> QED
    BY <1>4, <2>2
<1>7. HeldIn(q, b) = {b + i : i \in Filled(q)}
  BY <1>4, <1>6
<1> QED
  BY <1>3, <1>4, <1>5, <1>7

\* Numbers less than the number space apart are different on the wire.
LEMMA WireOnce ==
    ASSUME NEW a \in Int, NEW b \in Int, Wire(a) = Wire(b), a - b < Modulus, b - a < Modulus
    PROVE a = b
<1>1. InitSeq + a \in Int /\ InitSeq + b \in Int /\ (InitSeq + a) - (InitSeq + b) < Modulus
      /\ (InitSeq + b) - (InitSeq + a) < Modulus
  BY Sizes
<1>2. InitSeq + a = InitSeq + b
  BY <1>1, Sizes, ModSame DEF Wire
<1> QED
  BY <1>2, Sizes

\* The comparison with a begin or an end is the true one, but for the element due there:
\* that one is seen when the begin or end is in the number space.
LEMMA GeNum ==
    ASSUME NEW a \in Int, NEW b \in Int, NEW y, Num(y, b), a - b < Modulus \div 2, b - a <= Modulus \div 2
    PROVE Ge(Wire(a), y) <=> a > b \/ (a = b /\ y = Wire(b))
<1>1. Lt(y, Wire(a)) <=> b < a
  <2>1. Lt(Wire(b), Wire(a)) <=> b < a
    BY Lts
  <2>2. Num(Wire(a), a)
    BY WireNum
  <2> QED
    BY <2>1, <2>2, LtNum
<1>2. Wire(a) = y => a = b
  <2> SUFFICES ASSUME Wire(a) = y PROVE a = b
    OBVIOUS
  <2>1. Wire(a) % Modulus = Wire(a) /\ y % Modulus = Wire(b)
    BY WireNum DEF Num
  <2>2. a - b < Modulus /\ b - a < Modulus /\ Wire(a) = Wire(b)
    BY <2>1, Sizes
  <2> QED
    BY <2>2, WireOnce
<1>3. a > b <=> b < a
  OBVIOUS
<1> QED
  BY <1>1, <1>2, <1>3 DEF Ge, Gt

\* A free slot of the window is filled.
LEMMA PutIs ==
    ASSUME NEW U, NEW q, NEW b, QueueOk(U, q, b), NEW n \in U, n \in b..(b + q.count - 1)
    PROVE /\ QueueOk(U, Put(q, Wire(n), n), b) /\ Put(q, Wire(n), n).count = q.count
          /\ HeldIn(Put(q, Wire(n), n), b) = HeldIn(q, b) \cup {n}
<1>1. b \in Nat /\ q.count \in Nat /\ q.count <= QueueSize /\ n \in Int /\ QueueSize \in Nat
  BY Sizes DEF QueueOk
<1>2. Place(n) \in 0..(QueueSize - 1) /\ Slot(Wire(n)) = Place(n)
  BY <1>1, PlaceIs
<1> DEFINE r == Put(q, Wire(n), n)
           new == [set |-> TRUE, user |-> n]
<1>3. r = [begin |-> q.begin, count |-> q.count, slot |-> [q.slot EXCEPT ![Place(n)] = new]]
  <2>1. r = [q EXCEPT !.slot[Place(n)] = new]
    BY <1>2 DEF Put
  <2>2. q = [begin |-> q.begin, count |-> q.count, slot |-> q.slot]
    BY DEF QueueOk
  <2> HIDE DEF r, new
  <2> QED
    BY <2>1, <2>2
<1>4. new \in [set : BOOLEAN, user : U \cup {NoUser}]
  OBVIOUS
<1> HIDE DEF r
<1>5. r.slot \in Rings(U) /\ r.slot[Place(n)] = new
      /\ \A i \in 0..(QueueSize - 1) : i # Place(n) => r.slot[i] = q.slot[i]
  BY <1>2, <1>3, <1>4 DEF QueueOk, Rings
<1>6. ASSUME NEW x \in b..(b + q.count - 1), x # n PROVE r.slot[Place(x)] = q.slot[Place(x)]
  <2>1. x \in Int /\ x - n < QueueSize /\ n - x < QueueSize
    BY <1>1
  <2>2. Place(x) # Place(n) /\ Place(x) \in 0..(QueueSize - 1)
    BY <1>1, <1>6, <2>1, PlaceIs, PlaceOnce
  <2> QED
    BY <1>5, <2>2
<1>7. ASSUME NEW x \in b..(b + q.count - 1), r.slot[Place(x)].set PROVE r.slot[Place(x)].user = x
  <2>1. CASE x = n
    BY <1>5, <2>1
  <2>2. CASE x # n
    BY <1>6, <1>7, <2>2 DEF QueueOk
  <2> QED
    BY <2>1, <2>2
<1>8. QueueOk(U, r, b) /\ r.count = q.count
  BY <1>3, <1>5, <1>7 DEF QueueOk
<1>9. HeldIn(r, b) = HeldIn(q, b) \cup {n}
  BY <1>5, <1>6, <1>8 DEF HeldIn
<1> QED
  BY <1>8, <1>9 DEF r

\* The window grows up to a chunk behind its end, with empty slots.
LEMMA GrowIs ==
    ASSUME NEW U, NEW q, NEW b, QueueOk(U, q, b), NEW n \in Nat, n >= b + q.count, n < b + QueueSize,
           NEW top, Num(top, n + 1)
    PROVE /\ QueueOk(U, Grow(q, top), b) /\ Grow(q, top).count = n + 1 - b
          /\ HeldIn(Grow(q, top), b) = HeldIn(q, b)
<1>1. /\ b \in Nat /\ q.count \in Nat /\ q.count <= QueueSize /\ n \in Nat /\ QueueSize \in Nat
      /\ QueueSize < Modulus \div 2 /\ Modulus \in Nat /\ Modulus \div 2 \in Nat /\ Modulus \div 2 <= Modulus
  BY Sizes DEF QueueOk
<1> DEFINE e == b + q.count
           m == (n + 1) - e
           G == {k \in 0..(Modulus - 1) : ~Lt(Add(End(q), k), top)}
           fresh == {Slot(Add(End(q), k)) : k \in 0..(m - 1)}
           r == Grow(q, top)
<1>2. e \in Nat /\ m \in Nat /\ m > 0 /\ m <= QueueSize /\ m \in 0..(Modulus - 1)
      /\ q.count + m = (n + 1) - b /\ (n + 1) - b \in 0..QueueSize
  BY <1>1
<1>3. \A k \in Nat : Num(Add(End(q), k), e + k)
  <2>1. Num(End(q), e)
    BY <1>1, Adds DEF End, QueueOk
  <2> HIDE DEF e
  <2> QED
    BY <1>2, <2>1, Adds
<1> HIDE DEF e
<1>4. \A k \in 0..m : Lt(Add(End(q), k), top) <=> k < m
  <2> SUFFICES ASSUME NEW k \in 0..m PROVE Lt(Add(End(q), k), top) <=> k < m
    OBVIOUS
  <2>1. e + k \in Int /\ n + 1 \in Int /\ (n + 1) - (e + k) < Modulus \div 2
        /\ (e + k) - (n + 1) <= Modulus \div 2 /\ (e + k < n + 1 <=> k < m)
    BY <1>1, <1>2
  <2>2. Num(Add(End(q), k), e + k)
    BY <1>2, <1>3
  <2>3. Lt(Add(End(q), k), top) <=> Lt(Wire(e + k), Wire(n + 1))
    BY <2>1, <2>2, LtNum
  <2> QED
    BY <2>1, <2>3, Lts
<1>5. Min(G) = m
  <2>1. m \in G
    BY <1>2, <1>4
  <2>2. ASSUME NEW k \in G PROVE m <= k
    <3>1. CASE k < m
      <4>1. k \in 0..m
        BY <1>2, <3>1
      <4> QED
        BY <1>4, <3>1, <4>1
    <3> QED
      BY <1>2, <3>1
  <2>3. \A k \in G : k \in Int
    OBVIOUS
  <2> HIDE DEF G, m
  <2>4. \A k \in G : (\A y \in G : k <= y) => k = m
    <3> SUFFICES ASSUME NEW k \in G, \A y \in G : k <= y PROVE k = m
      OBVIOUS
    <3>1. k <= m /\ m <= k /\ k \in Int /\ m \in Int
      BY <2>1, <2>2, <2>3
    <3> QED
      BY <3>1
  <2> QED
    BY <2>1, <2>2, <2>4 DEF Min
<1>6. \A i : i \in fresh <=> \E x \in e..n : i = Place(x)
  <2>1. \A k \in 0..(m - 1) : Slot(Add(End(q), k)) = Place(e + k) /\ e + k \in e..n
    <3> SUFFICES ASSUME NEW k \in 0..(m - 1) PROVE Slot(Add(End(q), k)) = Place(e + k) /\ e + k \in e..n
      OBVIOUS
    <3>1. k \in Nat /\ e + k \in Int /\ e + k \in e..n
      BY <1>1, <1>2
    <3> QED
      BY <1>3, <3>1, PlaceNum
  <2>2. \A x \in e..n : x - e \in 0..(m - 1) /\ e + (x - e) = x
    BY <1>1, <1>2
  <2> QED
    BY <2>1, <2>2
<1>7. r = [begin |-> q.begin, count |-> q.count + m,
           slot |-> [i \in 0..(QueueSize - 1) |-> IF i \in fresh THEN [q.slot[i] EXCEPT !.set = FALSE] ELSE q.slot[i]]]
  <2> DEFINE flat == [i \in 0..(QueueSize - 1) |-> IF i \in fresh THEN [q.slot[i] EXCEPT !.set = FALSE] ELSE q.slot[i]]
  <2>2. DOMAIN q.slot = 0..(QueueSize - 1) /\ q = [begin |-> q.begin, count |-> q.count, slot |-> q.slot]
    BY DEF QueueOk, Rings
  <2>1. r = [q EXCEPT !.count = @ + m, !.slot = flat]
    <3>1. r = [q EXCEPT !.count = @ + m,
                        !.slot = [i \in DOMAIN @ |-> IF i \in fresh THEN [@[i] EXCEPT !.set = FALSE] ELSE @[i]]]
      BY <1>5 DEF Grow
    <3>2. flat = [i \in DOMAIN q.slot |-> IF i \in fresh THEN [q.slot[i] EXCEPT !.set = FALSE] ELSE q.slot[i]]
      BY <2>2
    <3> HIDE DEF fresh, m, r
    <3> QED
      BY <3>1, <3>2
  <2> HIDE DEF fresh, m, r, flat
  <2>3. r = [begin |-> q.begin, count |-> q.count + m, slot |-> flat]
    <3>1. PICK w, c, t : q = [begin |-> w, count |-> c, slot |-> t]
      BY <2>2
    <3>2. q.count = c /\ q.begin = w
      BY <3>1
    <3> QED
      BY <2>1, <3>1, <3>2
  <2> QED
    BY <2>3 DEF flat
<1> HIDE DEF fresh, m, r, G
<1>8. ASSUME NEW i \in 0..(QueueSize - 1)
      PROVE /\ r.slot[i] \in [set : BOOLEAN, user : U \cup {NoUser}]
            /\ i \in fresh => r.slot[i].set = FALSE
            /\ i \notin fresh => r.slot[i] = q.slot[i]
  <2>1. q.slot[i] \in [set : BOOLEAN, user : U \cup {NoUser}]
    BY DEF QueueOk, Rings
  <2>2. r.slot[i] = IF i \in fresh THEN [q.slot[i] EXCEPT !.set = FALSE] ELSE q.slot[i]
    BY <1>7
  <2>3. [q.slot[i] EXCEPT !.set = FALSE] \in [set : BOOLEAN, user : U \cup {NoUser}]
        /\ [q.slot[i] EXCEPT !.set = FALSE].set = FALSE
    BY <2>1
  <2> QED
    BY <2>1, <2>2, <2>3
<1>9. r.slot \in Rings(U)
  BY <1>7, <1>8 DEF Rings
<1>10. r.count = (n + 1) - b
  BY <1>2, <1>7
<1>11. ASSUME NEW x \in b..n
       PROVE /\ x \in e..n => r.slot[Place(x)].set = FALSE
             /\ x \notin e..n => r.slot[Place(x)] = q.slot[Place(x)]
  <2>1. x \in Int /\ Place(x) \in 0..(QueueSize - 1)
    BY <1>1, PlaceIs
  <2>2. x \in e..n => Place(x) \in fresh
    BY <1>6
  <2>3. ASSUME x \notin e..n, Place(x) \in fresh PROVE FALSE
    <3>1. PICK y \in e..n : Place(x) = Place(y)
      BY <1>6, <2>3
    <3>2. y \in Int /\ x - y < QueueSize /\ y - x < QueueSize
      BY <1>1, <1>2, <2>1 DEF e
    <3>3. x = y
      BY <2>1, <3>1, <3>2, PlaceOnce
    <3> QED
      BY <2>3, <3>3
  <2> QED
    BY <1>8, <2>1, <2>2, <2>3
<1>12. /\ \A x \in b..(b + r.count - 1) : x \in b..n
       /\ \A x \in b..n : x \in b..(b + r.count - 1)
       /\ \A x \in b..n : x \notin e..n <=> x \in b..(b + q.count - 1)
  BY <1>1, <1>2, <1>10 DEF e
<1>13. ASSUME NEW x \in b..(b + r.count - 1), r.slot[Place(x)].set PROVE r.slot[Place(x)].user = x
  <2>1. x \in b..n
    BY <1>12
  <2>2. x \notin e..n
    <3> SUFFICES ASSUME x \in e..n PROVE FALSE
      OBVIOUS
    <3>1. r.slot[Place(x)].set = FALSE
      BY <1>11, <2>1
    <3> QED
      BY <1>13, <3>1
  <2>3. x \in b..(b + q.count - 1) /\ r.slot[Place(x)] = q.slot[Place(x)]
    BY <1>11, <1>12, <2>1, <2>2
  <2> QED
    BY <1>13, <2>3 DEF QueueOk
<1>14. QueueOk(U, r, b)
  <2>1. b \in Nat /\ r.count \in 0..QueueSize
    BY <1>1, <1>2, <1>10
  <2>2. r = [begin |-> r.begin, count |-> r.count, slot |-> r.slot] /\ r.begin = q.begin
    BY <1>7
  <2> QED
    BY <1>9, <1>13, <2>1, <2>2 DEF QueueOk
<1>15. HeldIn(r, b) = HeldIn(q, b)
  <2>1. ASSUME NEW x \in HeldIn(r, b) PROVE x \in HeldIn(q, b)
    <3>1. x \in b..(b + r.count - 1) /\ r.slot[Place(x)].set
      BY DEF HeldIn
    <3>3. x \in b..n
      BY <1>12, <3>1
    <3>4. x \notin e..n
      <4> SUFFICES ASSUME x \in e..n PROVE FALSE
        OBVIOUS
      <4>1. r.slot[Place(x)].set = FALSE
        BY <1>11, <3>3
      <4> QED
        BY <3>1, <4>1
    <3>2. x \in b..n /\ x \notin e..n /\ x \in b..(b + q.count - 1)
      BY <1>12, <3>3, <3>4
    <3> QED
      BY <1>11, <3>1, <3>2 DEF HeldIn
  <2>2. ASSUME NEW x \in HeldIn(q, b) PROVE x \in HeldIn(r, b)
    <3>1. x \in b..(b + q.count - 1) /\ q.slot[Place(x)].set
      BY DEF HeldIn
    <3>2. x \in b..n
      BY <1>1, <1>2, <3>1 DEF e
    <3>3. x \notin e..n /\ x \in b..(b + r.count - 1)
      BY <1>12, <3>1, <3>2
    <3> QED
      BY <1>11, <3>1, <3>2, <3>3 DEF HeldIn
  <2> QED
    BY <2>1, <2>2
<1>16. r = Grow(q, top)
  BY DEF r
<1> HIDE DEF r
<1>17. QueueOk(U, r, b) /\ r.count = (n + 1) - b /\ HeldIn(r, b) = HeldIn(q, b)
  BY <1>10, <1>14, <1>15
<1>18. r.count = n + 1 - b
  BY <1>1, <1>17
<1> QED
  BY <1>16, <1>17, <1>18

\* A queue that is not too short for the chunk drops nothing to make room.
LEMMA RoomIs ==
    ASSUME NEW U, NEW q, NEW b, QueueOk(U, q, b), NEW seq, ~TooShort(q, 0, Add(seq, 1))
    PROVE MakeRoom(q, seq) = [queue |-> q, dropped |-> {}]
<1> DEFINE newEnd == Add(seq, 1)
           J == {j \in 0..q.count : j = q.count \/ ~TooShort(q, j, newEnd)}
           k == Min(J)
           all == k = q.count /\ TooShort(q, 0, newEnd)
<1>1. q.count \in Nat /\ b \in Int
  BY Sizes DEF QueueOk
<1>2. k = 0
  <2>1. 0 \in J
    BY <1>1
  <2>2. \A j \in J : j \in Nat
    BY <1>1
  <2> HIDE DEF J
  <2>3. \A j \in J : 0 <= j
    BY <2>2
  <2>4. \A j \in J : (\A y \in J : j <= y) => j = 0
    <3> SUFFICES ASSUME NEW j \in J, \A y \in J : j <= y PROVE j = 0
      OBVIOUS
    <3>1. j <= 0 /\ j \in Nat
      BY <2>1, <2>2
    <3> QED
      BY <3>1
  <2> QED
    BY <2>1, <2>3, <2>4 DEF Min
<1>3. all = FALSE
  OBVIOUS
<1>4. MakeRoom(q, seq) = [queue |-> [q EXCEPT !.begin = IF all THEN seq ELSE Stepped(@, k), !.count = @ - k],
                          dropped |-> UsersAt(q, Filled(q) \cap 0..(k - 1))]
  BY DEF MakeRoom
<1> HIDE DEF k, all
<1>5. [q EXCEPT !.begin = IF all THEN seq ELSE Stepped(@, k), !.count = @ - k] = q
  <2>1. Stepped(q.begin, 0) = q.begin
    BY DEF Stepped
  <2>2. PICK bb, c, t : q = [begin |-> bb, count |-> c, slot |-> t]
    BY DEF QueueOk
  <2>3. q.count - 0 = q.count
    BY <1>1
  <2> QED
    BY <1>2, <1>3, <2>1, <2>2, <2>3
<1>6. UsersAt(q, Filled(q) \cap 0..(k - 1)) = {}
  BY <1>2 DEF UsersAt
<1> QED
  BY <1>4, <1>5, <1>6

\* The chunk is kept, and nothing is pushed out for it.
Taken(U, q, b, n, p) ==
    /\ p.dropped = {} /\ QueueOk(U, p.queue, b)
    /\ HeldIn(p.queue, b) = HeldIn(q, b) \cup {n}
    /\ b + p.queue.count = IF n < b + q.count THEN b + q.count ELSE n + 1

LEMMA TakenAs ==
    ASSUME NEW U, NEW q, NEW b, NEW n, NEW r, QueueOk(U, r, b), HeldIn(r, b) = HeldIn(q, b) \cup {n},
           b + r.count = IF n < b + q.count THEN b + q.count ELSE n + 1
    PROVE Taken(U, q, b, n, [queue |-> r, dropped |-> {}])
<1> DEFINE p == [queue |-> r, dropped |-> {}]
<1>1. p.queue = r /\ p.dropped = {}
  OBVIOUS
<1> HIDE DEF p
<1>2. Taken(U, q, b, n, p)
  BY <1>1 DEF Taken
<1> QED
  BY <1>2 DEF p

\* Exactly half the number space apart neither comparison holds.
LEMMA Halfway ==
    ASSUME NEW a \in Int, NEW b \in Int, b - a = Modulus \div 2
    PROVE ~Lt(Wire(a), Wire(b)) /\ ~Lt(Wire(b), Wire(a)) /\ Wire(a) # Wire(b)
<1>1. b - a \in 0..(Modulus - 1) /\ Modulus \div 2 > 0
  BY Sizes
<1>2. (Wire(b) - Wire(a)) % Modulus = Modulus \div 2
  <2>1. (b - a) % Modulus = b - a
    BY <1>1, Sizes, ModSmall
  <2>2. (Wire(b) - Wire(a)) % Modulus = (b - a) % Modulus
    BY Ahead
  <2> QED
    BY <2>1, <2>2
<1>3. ~Lt(Wire(a), Wire(b))
  <2>1. ~(Modulus \div 2 \in 1..(Modulus \div 2 - 1))
    BY Sizes
  <2> QED
    BY <1>2, <2>1 DEF Lt
<1>4. ~Lt(Wire(b), Wire(a))
  <2>1. a - b < Modulus \div 2 /\ b - a <= Modulus \div 2 /\ ~(b < a)
    BY <1>1, Sizes
  <2> QED
    BY <2>1, Lts
<1>5. Wire(a) # Wire(b)
  <2>1. a - b < Modulus /\ b - a < Modulus /\ a # b
    BY <1>1, Sizes
  <2> QED
    BY <2>1, WireOnce
<1> QED
  BY <1>3, <1>4, <1>5

\* The end of the window.
LEMMA EndIs ==
    ASSUME NEW U, NEW q, NEW b, QueueOk(U, q, b)
    PROVE /\ Num(q.begin, b) /\ q.begin \in Begins /\ Num(End(q), b + q.count) /\ b \in Nat /\ q.count \in Nat
          /\ q.count <= QueueSize /\ b + q.count \in Nat /\ (q.count = 0 => End(q) = Wire(b))
<1>1. Num(q.begin, b) /\ q.begin \in Begins /\ b \in Nat /\ q.count \in Nat /\ q.count <= QueueSize
  BY Sizes DEF QueueOk
<1>2. Num(Add(q.begin, q.count), b + q.count)
  <2> DEFINE c == q.count
             x == q.begin
  <2>1. b \in Int /\ c \in Nat /\ Num(x, b)
    BY <1>1
  <2> HIDE DEF c, x
  <2>2. Num(Add(x, c), b + c)
    BY <2>1, Adds
  <2> QED
    BY <2>2 DEF c, x
<1>3. q.count = 0 => Add(q.begin, q.count) = Wire(b)
  BY <1>1, AddNothing
<1> QED
  BY <1>1, <1>2, <1>3 DEF End

\* The begin moves forward over the first k places.
LEMMA FromIs ==
    ASSUME NEW U, NEW q, NEW b, QueueOk(U, q, b), NEW k \in 0..q.count, NEW begin \in Begins, Num(begin, b + k)
    PROVE /\ QueueOk(U, From(q, begin, k), b + k) /\ From(q, begin, k).count = q.count - k
          /\ HeldIn(From(q, begin, k), b + k) = {x \in HeldIn(q, b) : x >= b + k}
<1> DEFINE r == From(q, begin, k)
<1>1. q.count \in Nat /\ b \in Nat /\ k \in Nat /\ k <= q.count /\ q.count <= QueueSize /\ QueueSize \in Nat
  BY Sizes DEF QueueOk
<1>2. r = [begin |-> begin, count |-> q.count - k, slot |-> q.slot]
  <2>1. r = [q EXCEPT !.begin = begin, !.count = @ - k]
    BY DEF From
  <2>2. PICK w, c, t : q = [begin |-> w, count |-> c, slot |-> t]
    BY DEF QueueOk
  <2>3. q.count = c /\ q.slot = t
    BY <2>2
  <2> QED
    BY <2>1, <2>2, <2>3
<1> HIDE DEF r
<1>3. r.count = q.count - k /\ r.slot = q.slot /\ r.begin = begin
  BY <1>2
<1>4. \A x : x \in (b + k)..((b + k) + r.count - 1) <=> x \in b..(b + q.count - 1) /\ x >= b + k
  BY <1>1, <1>3
<1>5. QueueOk(U, r, b + k)
  <2>1. b + k \in Nat /\ r.count \in 0..QueueSize
    BY <1>1, <1>3
  <2>2. r.slot \in Rings(U)
    BY <1>3 DEF QueueOk
  <2>3. ASSUME NEW x \in (b + k)..((b + k) + r.count - 1), r.slot[Place(x)].set
        PROVE r.slot[Place(x)].user = x
    <3>1. x \in b..(b + q.count - 1) /\ q.slot[Place(x)].set
      BY <1>3, <1>4, <2>3
    <3> QED
      BY <1>3, <3>1 DEF QueueOk
  <2>4. r = [begin |-> r.begin, count |-> r.count, slot |-> r.slot] /\ r.begin \in Begins /\ Num(r.begin, b + k)
    BY <1>2, <1>3
  <2> QED
    BY <2>1, <2>2, <2>3, <2>4 DEF QueueOk
<1>6. HeldIn(r, b + k) = {x \in HeldIn(q, b) : x >= b + k}
  <2>1. ASSUME NEW x PROVE x \in HeldIn(r, b + k) <=> x \in HeldIn(q, b) /\ x >= b + k
    BY <1>3, <1>4 DEF HeldIn
  <2> QED
    BY <2>1
<1> QED
  BY <1>3, <1>5, <1>6 DEF r

\* ... one place at a time,
LEMMA StepIs ==
    ASSUME NEW U, NEW q, NEW b, QueueOk(U, q, b), NEW k \in 0..q.count
    PROVE LET r == From(q, Stepped(q.begin, k), k) IN
          /\ QueueOk(U, r, b + k) /\ r.count = q.count - k
          /\ HeldIn(r, b + k) = {x \in HeldIn(q, b) : x >= b + k}
<1>1. q.begin \in Begins /\ Num(q.begin, b) /\ b \in Int /\ k \in Nat
  BY EndIs
<1>2. Stepped(q.begin, k) \in Begins /\ Num(Stepped(q.begin, k), b + k)
  BY <1>1, Steps
<1> QED
  BY <1>2, FromIs

\* ... or at once.
LEMMA SkipIs ==
    ASSUME NEW U, NEW q, NEW b, QueueOk(U, q, b), NEW k \in 0..q.count
    PROVE /\ QueueOk(U, Skip(q, k), b + k) /\ Skip(q, k).count = q.count - k
          /\ HeldIn(Skip(q, k), b + k) = {x \in HeldIn(q, b) : x >= b + k}
<1>1. q.begin \in Begins /\ Num(q.begin, b) /\ b \in Int /\ k \in Nat /\ k <= QueueSize
  <2>1. q.begin \in Begins /\ Num(q.begin, b) /\ b \in Nat /\ q.count \in Nat /\ q.count <= QueueSize
    BY EndIs
  <2> QED
    BY <2>1, Sizes
<1>2. Add(q.begin, k) \in Begins /\ Num(Add(q.begin, k), b + k)
  BY <1>1, Adds
<1> QED
  BY <1>2, FromIs DEF Skip

\* An element behind the begin is refused ...
LEMMA PushBehind ==
    ASSUME NEW U, NEW q, NEW b, QueueOk(U, q, b), NEW n \in Nat, NEW x, NEW drop \in BOOLEAN, n < b,
           b - n < Modulus \div 2 \/ (b + q.count - n <= Modulus \div 2 /\ ~drop)
    PROVE Push(q, Wire(n), x, drop) = Refused(q, x)
<1>1. Num(q.begin, b) /\ Num(End(q), b + q.count) /\ b \in Nat /\ q.count \in Nat
      /\ (q.count = 0 => End(q) = Wire(b)) /\ Num(Wire(n), n)
  BY EndIs, WireNum
<1>2. CASE b - n < Modulus \div 2
  <2>1. n - b < Modulus \div 2 /\ b - n <= Modulus \div 2 /\ n - b <= Modulus \div 2 /\ ~(n > b) /\ n # b
    BY <1>1, <1>2, Sizes
  <2>2. Lt(Wire(n), Wire(b))
    BY <1>1, <1>2, <2>1, Lts
  <2>3. Lt(Wire(n), q.begin)
    BY <1>1, <2>2, LtNum
  <2>4. ~Ge(Wire(n), q.begin)
    BY <1>1, <1>2, <2>1, GeNum
  <2> QED
    BY <2>3, <2>4 DEF Push
<1>3. CASE ~(b - n < Modulus \div 2)
  <2>1. b - n = Modulus \div 2 /\ q.count = 0 /\ b + q.count = b /\ drop = FALSE
    BY <1>1, <1>3, Sizes
  <2>2. ~Lt(Wire(n), Wire(b)) /\ ~Lt(Wire(b), Wire(n)) /\ Wire(n) # Wire(b)
    BY <1>1, <2>1, Halfway
  <2>3. ~Lt(Wire(n), q.begin) /\ ~Lt(q.begin, Wire(n))
    BY <1>1, <2>2, LtNum
  <2>4. Wire(n) # q.begin
    BY <1>1, <2>2 DEF Num
  <2>5. ~Ge(Wire(n), q.begin) /\ ~Ge(Wire(n), End(q))
    BY <1>1, <2>1, <2>2, <2>3, <2>4 DEF Ge, Gt
  <2> QED
    BY <2>1, <2>3, <2>5 DEF Push
<1> QED
  BY <1>2, <1>3

\* ... and so is one more than half the number space ahead, which looks like one behind.
LEMMA PushFar ==
    ASSUME NEW U, NEW q, NEW b, QueueOk(U, q, b), NEW n \in Nat, NEW x, NEW drop \in BOOLEAN,
           n - b > Modulus \div 2, n - b < Modulus
    PROVE Push(q, Wire(n), x, drop) = Refused(q, x)
<1>1. Num(q.begin, b) /\ b \in Nat /\ Num(Wire(n), n)
  BY EndIs, WireNum
<1>2. Lt(Wire(n), Wire(b))
  <2>1. b - n \in (-Modulus)..(-1) /\ (b - n) + Modulus \in 1..(Modulus \div 2 - 1)
    BY <1>1, Sizes
  <2>2. (b - n) % Modulus = (b - n) + Modulus
    BY <2>1, Sizes, ModBelow
  <2>3. (Wire(b) - Wire(n)) % Modulus = (b - n) % Modulus
    BY <1>1, Ahead
  <2> QED
    BY <2>1, <2>2, <2>3 DEF Lt
<1>3. ~Lt(Wire(b), Wire(n))
  <2>1. n - b \in 0..(Modulus - 1) /\ ~(n - b \in 1..(Modulus \div 2 - 1))
    BY <1>1, Sizes
  <2>2. (n - b) % Modulus = n - b
    BY <2>1, Sizes, ModSmall
  <2>3. (Wire(n) - Wire(b)) % Modulus = (n - b) % Modulus
    BY <1>1, Ahead
  <2> QED
    BY <2>1, <2>2, <2>3 DEF Lt
<1>4. Wire(n) # Wire(b)
  <2>1. n - b < Modulus /\ b - n < Modulus /\ n # b
    BY <1>1, Sizes
  <2> QED
    BY <1>1, <2>1, WireOnce
<1>5. Lt(Wire(n), q.begin) /\ ~Lt(q.begin, Wire(n))
  BY <1>1, <1>2, <1>3, LtNum
<1>6. ~Ge(Wire(n), q.begin)
  BY <1>1, <1>4, <1>5 DEF Ge, Gt, Num
<1> QED
  BY <1>5, <1>6 DEF Push

\* At the seam the element is due at a begin or an end that is not in the number space.
LEMMA SeamIs ==
    ASSUME NEW U, NEW q, NEW b, QueueOk(U, q, b), NEW n \in Nat, n >= b, n - b <= Modulus \div 2
    PROVE AtSeam(q, Wire(n)) <=>
            q.count > 0 /\ ((n = b /\ q.begin # Wire(n)) \/ (n = b + q.count /\ End(q) # Wire(n)))
<1>1. /\ Num(q.begin, b) /\ Num(End(q), b + q.count) /\ b \in Nat /\ q.count \in Nat
      /\ q.count <= QueueSize /\ b + q.count \in Nat
  BY EndIs
<1>2. q.begin % Modulus = Wire(n) <=> n = b
  <2>1. n - b < Modulus /\ b - n < Modulus
    BY <1>1, Sizes
  <2> QED
    BY <1>1, <2>1, WireOnce DEF Num
<1>3. End(q) % Modulus = Wire(n) <=> n = b + q.count
  <2> DEFINE e == b + q.count
  <2>1. n - e < Modulus /\ e - n < Modulus /\ e \in Nat /\ Num(End(q), e)
    BY <1>1, Sizes
  <2> HIDE DEF e
  <2>2. End(q) % Modulus = Wire(n) <=> n = e
    BY <2>1, WireOnce DEF Num
  <2> QED
    BY <2>2 DEF e
<1> QED
  BY <1>2, <1>3 DEF AtSeam

\* It is refused there.
LEMMA PushSeam ==
    ASSUME NEW U, NEW q, NEW b, QueueOk(U, q, b), NEW n \in Nat, NEW x, NEW drop \in BOOLEAN,
           n >= b, n - b <= Modulus \div 2, AtSeam(q, Wire(n))
    PROVE Push(q, Wire(n), x, drop) = Refused(q, x)
<1> DEFINE e == b + q.count
<1>1. /\ Num(q.begin, b) /\ Num(End(q), e) /\ b \in Nat /\ q.count \in Nat
      /\ q.count <= QueueSize /\ e \in Nat /\ e = b + q.count /\ Num(Wire(n), n)
  BY EndIs, WireNum
<1>2. q.count > 0 /\ ((n = b /\ q.begin # Wire(n)) \/ (n = b + q.count /\ End(q) # Wire(n)))
  BY SeamIs
<1> HIDE DEF e
<1>3. b - n < Modulus \div 2 /\ ~(n < b)
  BY <1>1, Sizes
<1>4. ~Lt(Wire(n), q.begin)
  <2>1. ~Lt(Wire(n), Wire(b))
    BY <1>1, <1>3, Lts
  <2> QED
    BY <1>1, <2>1, LtNum
<1>5. ~Ge(Wire(n), End(q)) /\ (Ge(Wire(n), q.begin) => ~Lt(Wire(n), End(q)))
  <2>1. CASE n = b /\ q.begin # Wire(n)
    <3>1. /\ n - e < Modulus \div 2 /\ e - n <= Modulus \div 2 /\ n < e
          /\ n - b < Modulus \div 2 /\ b - n <= Modulus \div 2 /\ ~(n > b)
      BY <1>1, <1>2, <2>1, Sizes
    <3>2. ~Ge(Wire(n), q.begin)
      BY <1>1, <2>1, <3>1, GeNum
    <3>3. ~(n > e) /\ n # e
      BY <1>1, <3>1
    <3>4. ~Ge(Wire(n), End(q))
      BY <1>1, <3>1, <3>3, GeNum
    <3> QED
      BY <3>2, <3>4
  <2>2. CASE n = e /\ End(q) # Wire(n)
    <3>1. n - e < Modulus \div 2 /\ e - n <= Modulus \div 2 /\ e - n < Modulus \div 2 /\ n - e <= Modulus \div 2
          /\ ~(n > e) /\ ~(n < e)
      BY <1>1, <2>2, Sizes
    <3>2. ~Ge(Wire(n), End(q))
      BY <1>1, <2>2, <3>1, GeNum
    <3>3. ~Lt(Wire(n), Wire(e))
      BY <1>1, <3>1, Lts
    <3>4. ~Lt(Wire(n), End(q))
      BY <1>1, <3>3, LtNum
    <3> QED
      BY <3>2, <3>4
  <2> QED
    BY <1>1, <1>2, <2>1, <2>2
<1>6. q.count # 0
  BY <1>1, <1>2
<1> QED
  BY <1>4, <1>5, <1>6 DEF Push

\* An element of the window is kept unless it is there already.
LEMMA PushInside ==
    ASSUME NEW U, NEW q, NEW b, QueueOk(U, q, b), NEW n \in U, n \in Nat, NEW drop \in BOOLEAN,
           n >= b, n < b + q.count, ~AtSeam(q, Wire(n))
    PROVE IF n \in HeldIn(q, b) THEN Push(q, Wire(n), n, drop) = Refused(q, n)
          ELSE Taken(U, q, b, n, Push(q, Wire(n), n, drop))
<1> DEFINE p == Push(q, Wire(n), n, drop)
           r == Put(q, Wire(n), n)
           e == b + q.count
<1>1. /\ Num(q.begin, b) /\ Num(End(q), e) /\ b \in Nat /\ q.count \in Nat
      /\ q.count <= QueueSize /\ e \in Nat /\ Num(Wire(n), n) /\ n < e
      /\ n - b <= Modulus \div 2 /\ q.count > 0 /\ e = b + q.count
  BY EndIs, WireNum, Sizes
<1>2. n = b => q.begin = Wire(n)
  BY <1>1, SeamIs
<1>3. Ge(Wire(n), q.begin)
  <2>1. n - b < Modulus \div 2 /\ b - n <= Modulus \div 2 /\ (n > b \/ n = b)
    BY <1>1, Sizes
  <2> QED
    BY <1>1, <1>2, <2>1, GeNum
<1> HIDE DEF e
<1>4. Lt(Wire(n), End(q)) /\ ~Lt(Wire(n), q.begin)
  <2>1. /\ n - b <= Modulus \div 2 /\ b - n < Modulus \div 2 /\ ~(n < b)
        /\ n - e <= Modulus \div 2 /\ e - n < Modulus \div 2
    BY <1>1, Sizes
  <2>2. Lt(Wire(n), Wire(e)) /\ ~Lt(Wire(n), Wire(b))
    BY <1>1, <2>1, Lts
  <2> QED
    BY <1>1, <2>2, LtNum
<1>5. ~Ge(Wire(n), End(q))
  <2>1. n - e < Modulus \div 2 /\ e - n <= Modulus \div 2 /\ ~(n > e) /\ n # e
    BY <1>1, Sizes
  <2> QED
    BY <1>1, <2>1, GeNum
<1>6. p = IF q.slot[Place(n)].set THEN Refused(q, n) ELSE [queue |-> r, dropped |-> {}]
  <2>1. Slot(Wire(n)) = Place(n)
    BY PlaceIs
  <2> QED
    BY <1>3, <1>4, <1>5, <2>1 DEF Push
<1>7. n \in b..(b + q.count - 1)
  BY <1>1
<1>8. n \in HeldIn(q, b) <=> q.slot[Place(n)].set
  BY <1>7 DEF HeldIn
<1> HIDE DEF p
<1>9. CASE n \in HeldIn(q, b)
  BY <1>6, <1>8, <1>9 DEF p
<1>10. CASE n \notin HeldIn(q, b)
  <2>1. QueueOk(U, r, b) /\ r.count = q.count /\ HeldIn(r, b) = HeldIn(q, b) \cup {n}
    BY <1>7, PutIs
  <2> HIDE DEF r
  <2>2. b + r.count = IF n < b + q.count THEN b + q.count ELSE n + 1
    BY <2>1
  <2>3. Taken(U, q, b, n, [queue |-> r, dropped |-> {}])
    BY <2>1, <2>2, TakenAs
  <2> QED
    BY <1>6, <1>8, <1>10, <2>3 DEF p
<1> QED
  BY <1>9, <1>10

\* An element beyond the end is appended, up to half the number space ahead.
LEMMA PushAhead ==
    ASSUME NEW U, NEW q, NEW b, QueueOk(U, q, b), NEW n \in Nat, NEW x, NEW drop \in BOOLEAN,
           n >= b + q.count, n - b <= Modulus \div 2, n - b < Modulus \div 2 \/ q.count > 0,
           ~AtSeam(q, Wire(n))
    PROVE Push(q, Wire(n), x, drop) = Appended(q, Wire(n), x, drop)
<1> DEFINE e == b + q.count
<1>1. /\ Num(q.begin, b) /\ Num(End(q), e) /\ b \in Nat /\ q.count \in Nat
      /\ q.count <= QueueSize /\ e \in Nat /\ e = b + q.count /\ Num(Wire(n), n) /\ n >= e /\ n >= b
      /\ (q.count = 0 => End(q) = Wire(b))
  BY EndIs, WireNum
<1>2. n = e => End(q) = Wire(n)
  <2>1. CASE q.count = 0
    BY <1>1, <2>1
  <2>2. CASE q.count > 0
    BY <1>1, <2>2, SeamIs
  <2> QED
    BY <1>1, <2>1, <2>2
<1> HIDE DEF e
<1>3. ~Lt(Wire(n), q.begin)
  <2>1. n - b <= Modulus \div 2 /\ b - n < Modulus \div 2 /\ ~(n < b)
    BY <1>1, Sizes
  <2>2. ~Lt(Wire(n), Wire(b))
    BY <1>1, <2>1, Lts
  <2> QED
    BY <1>1, <2>2, LtNum
<1>4. /\ n - e < Modulus \div 2 /\ e - n <= Modulus \div 2 /\ n - e <= Modulus \div 2 /\ e - n < Modulus \div 2
      /\ ~(n < e) /\ (n > e \/ n = e)
  BY <1>1, Sizes
<1>5. Ge(Wire(n), End(q))
  BY <1>1, <1>2, <1>4, GeNum
<1>6. ~Lt(Wire(n), End(q))
  <2>1. ~Lt(Wire(n), Wire(e))
    BY <1>1, <1>4, Lts
  <2> QED
    BY <1>1, <2>1, LtNum
<1> QED
  BY <1>3, <1>5, <1>6 DEF Push

\* The window has room for n once j places of its begin are given up.
LEMMA TooShortIs ==
    ASSUME NEW U, NEW q, NEW b, QueueOk(U, q, b), NEW n \in Nat, NEW j \in 0..q.count, NEW new, Num(new, n + 1),
           n >= b + q.count, n - b <= Modulus \div 2, n - b < Modulus \div 2 \/ QueueSize > 1
    PROVE TooShort(q, j, new) <=> b + QueueSize + j < n + 1
<1>1. /\ Num(End(q), b + q.count) /\ b \in Nat /\ q.count \in Nat
      /\ q.count <= QueueSize /\ b + q.count \in Nat
  BY EndIs
<1> DEFINE e == b + q.count
           d == QueueSize - (q.count - j)
           top == b + QueueSize + j
<1>2. d \in Nat /\ e + d = top /\ e \in Int /\ j \in Int /\ top \in Int
  BY <1>1, Sizes
<1>3. (n + 1) - top < Modulus \div 2 /\ top - (n + 1) <= Modulus \div 2 /\ n + 1 \in Int
  BY <1>1, Sizes
<1>4. Num(End(q), e)
  BY <1>1
<1>5. TooShort(q, j, new) <=> Lt(Add(End(q), d), new)
  BY DEF TooShort
<1> HIDE DEF e, d, top
<1>6. Num(Add(End(q), d), top)
  BY <1>2, <1>4, Adds
<1>7. Lt(Add(End(q), d), new) <=> Lt(Wire(top), Wire(n + 1))
  BY <1>2, <1>3, <1>6, LtNum
<1>8. Lt(Wire(top), Wire(n + 1)) <=> top < n + 1
  BY <1>2, <1>3, Lts
<1> QED
  BY <1>5, <1>7, <1>8 DEF top

\* What fits is appended and nothing is pushed out for it.
LEMMA AppendedFits ==
    ASSUME NEW U, NEW q, NEW b, QueueOk(U, q, b), NEW n \in U, n \in Nat, NEW drop \in BOOLEAN,
           n >= b + q.count, n < b + QueueSize
    PROVE Taken(U, q, b, n, Appended(q, Wire(n), n, drop))
<1>1. b \in Nat /\ q.count \in Nat /\ q.count <= QueueSize
  BY EndIs
<1> DEFINE new == Add(Wire(n), 1)
<1>2. Num(new, n + 1)
  BY WireNum, Adds
<1>3. ~TooShort(q, 0, new)
  <2>1. /\ n - b <= Modulus \div 2 /\ n - b < Modulus \div 2 /\ 0 \in 0..q.count
        /\ ~(b + QueueSize + 0 < n + 1)
    BY <1>1, Sizes
  <2> QED
    BY <1>2, <2>1, TooShortIs
<1>4. MakeRoom(q, Wire(n)) = [queue |-> q, dropped |-> {}]
  BY <1>3, RoomIs
<1> DEFINE g == Grow(q, new)
           r == Put(g, Wire(n), n)
<1>5. Appended(q, Wire(n), n, drop) = [queue |-> r, dropped |-> {}]
  BY <1>3, <1>4 DEF Appended
<1> HIDE DEF new
<1>6. QueueOk(U, g, b) /\ g.count = n + 1 - b /\ HeldIn(g, b) = HeldIn(q, b)
  BY <1>2, GrowIs
<1> HIDE DEF g
<1>7. n \in b..(b + g.count - 1)
  BY <1>1, <1>6
<1>8. QueueOk(U, r, b) /\ r.count = g.count /\ HeldIn(r, b) = HeldIn(g, b) \cup {n}
  BY <1>6, <1>7, PutIs
<1> HIDE DEF r
<1>9. b + r.count = IF n < b + q.count THEN b + q.count ELSE n + 1
  BY <1>1, <1>6, <1>8
<1>10. Taken(U, q, b, n, [queue |-> r, dropped |-> {}])
  BY <1>6, <1>8, <1>9, TakenAs
<1> QED
  BY <1>5, <1>10

\* A push that drops nothing takes what the window can reach and does not hold yet, but
\* at the seam; any other element is refused.
LEMMA PushIs ==
    ASSUME NEW U, NEW q, NEW b, QueueOk(U, q, b), NEW n \in U, n \in Nat,
           n - b < Modulus \div 2, b + q.count - n <= Modulus \div 2
    PROVE LET fits == n \in b..(b + QueueSize - 1) /\ n \notin HeldIn(q, b) /\ ~AtSeam(q, Wire(n)) IN
          /\ fits => Taken(U, q, b, n, Push(q, Wire(n), n, FALSE))
          /\ ~fits => Push(q, Wire(n), n, FALSE) = Refused(q, n)
<1>1. /\ b \in Nat /\ q.count \in Nat /\ q.count <= QueueSize /\ b + q.count \in Nat
  BY EndIs
<1>2. CASE n < b
  <2>1. Push(q, Wire(n), n, FALSE) = Refused(q, n)
    BY <1>2, PushBehind
  <2>2. n \notin b..(b + QueueSize - 1)
    BY <1>1, <1>2
  <2> QED
    BY <2>1, <2>2
<1>3. CASE n >= b /\ n < b + q.count /\ ~AtSeam(q, Wire(n))
  <2>1. n \in b..(b + QueueSize - 1)
    BY <1>1, <1>3, Sizes
  <2> QED
    BY <1>3, <2>1, PushInside
<1>4. CASE n >= b + q.count /\ ~AtSeam(q, Wire(n))
  <2>1. Push(q, Wire(n), n, FALSE) = Appended(q, Wire(n), n, FALSE)
    <3>1. n - b <= Modulus \div 2
      BY <1>1, Sizes
    <3> QED
      BY <1>4, <3>1, PushAhead
  <2>2. CASE n < b + QueueSize
    <3>1. n \notin HeldIn(q, b) /\ n \in b..(b + QueueSize - 1)
      BY <1>1, <1>4, <2>2, Sizes DEF HeldIn
    <3>2. Taken(U, q, b, n, Appended(q, Wire(n), n, FALSE))
      BY <1>4, <2>2, AppendedFits
    <3>3. ~AtSeam(q, Wire(n)) /\ Taken(U, q, b, n, Push(q, Wire(n), n, FALSE))
      BY <1>4, <2>1, <3>2
    <3> QED
      BY <3>1, <3>3
  <2>3. CASE n >= b + QueueSize
    <3>1. n - b <= Modulus \div 2 /\ 0 \in 0..q.count /\ b + QueueSize + 0 < n + 1
      BY <1>1, <2>3, Sizes
    <3>2. Num(Add(Wire(n), 1), n + 1)
      BY WireNum, Adds
    <3>3. TooShort(q, 0, Add(Wire(n), 1))
      BY <1>4, <3>1, <3>2, TooShortIs
    <3>4. Appended(q, Wire(n), n, FALSE) = Refused(q, n)
      BY <3>3 DEF Appended
    <3>5. n \notin b..(b + QueueSize - 1)
      BY <1>1, <2>3, Sizes
    <3>6. Push(q, Wire(n), n, FALSE) = Refused(q, n)
      BY <2>1, <3>4
    <3> QED
      BY <3>5, <3>6
  <2>4. n < b + QueueSize \/ n >= b + QueueSize
    BY <1>1, Sizes
  <2> QED
    BY <2>2, <2>3, <2>4
<1>5. CASE n >= b /\ AtSeam(q, Wire(n))
  <2>1. n - b <= Modulus \div 2
    BY <1>1, Sizes
  <2>2. Push(q, Wire(n), n, FALSE) = Refused(q, n)
    BY <1>5, <2>1, PushSeam
  <2> QED
    BY <1>5, <2>2
<1>6. n < b \/ (n >= b /\ n < b + q.count) \/ (n >= b + q.count /\ n >= b)
  BY <1>1
<1> QED
  BY <1>2, <1>3, <1>4, <1>5, <1>6

\* The users of the first k places.
LEMMA UsersBelow ==
    ASSUME NEW U, NEW q, NEW b, QueueOk(U, q, b), NEW k \in 0..q.count
    PROVE UsersAt(q, Filled(q) \cap 0..(k - 1)) = {x \in HeldIn(q, b) : x < b + k}
<1>1. b \in Nat /\ q.count \in Nat
  BY EndIs
<1>2. /\ Filled(q) = {i \in 0..(q.count - 1) : b + i \in HeldIn(q, b)}
      /\ HeldIn(q, b) = {b + i : i \in Filled(q)} /\ \A i \in Filled(q) : Entry(q, i).user = b + i
  BY FilledIs
<1>3. ASSUME NEW x \in UsersAt(q, Filled(q) \cap 0..(k - 1)) PROVE x \in HeldIn(q, b) /\ x < b + k
  <2>1. PICK i \in Filled(q) \cap 0..(k - 1) : x = Entry(q, i).user
    BY DEF UsersAt
  <2>2. x = b + i
    BY <1>2, <2>1
  <2>3. i \in 0..(k - 1) /\ k \in Nat
    OBVIOUS
  <2> QED
    BY <1>1, <1>2, <2>1, <2>2, <2>3
<1>4. ASSUME NEW x \in HeldIn(q, b), x < b + k PROVE x \in UsersAt(q, Filled(q) \cap 0..(k - 1))
  <2>1. PICK i \in Filled(q) : x = b + i
    BY <1>2
  <2>2. i \in 0..(q.count - 1)
    BY <1>2
  <2>3. i \in 0..(k - 1)
    BY <1>1, <1>4, <2>1, <2>2
  <2>4. Entry(q, i).user = x
    BY <1>2, <2>1
  <2> QED
    BY <2>3, <2>4 DEF UsersAt
<1> QED
  BY <1>3, <1>4

\* Where the window begins once it reaches n: as far back as the ring allows, and at n
\* itself when that leaves nothing of the window that ended at e.
FloorOf(b, e, n) ==
    IF n + 1 - QueueSize <= b THEN b ELSE IF n + 1 - QueueSize < e THEN n + 1 - QueueSize ELSE n

\* Everything before c is pushed out and the window begins there.
Cleared(U, q, b, c, room) ==
    /\ room.dropped = {x \in HeldIn(q, b) : x < c}
    /\ QueueOk(U, room.queue, c) /\ HeldIn(room.queue, c) = {x \in HeldIn(q, b) : x >= c}
    /\ room.queue.count = IF c < b + q.count THEN b + q.count - c ELSE 0

LEMMA MakeRoomIs ==
    ASSUME NEW U, NEW q, NEW b, QueueOk(U, q, b), NEW n \in Nat, n >= b + QueueSize,
           n - b <= Modulus \div 2, n - b < Modulus \div 2 \/ QueueSize > 1
    PROVE Cleared(U, q, b, FloorOf(b, b + q.count, n), MakeRoom(q, Wire(n)))
<1> DEFINE e == b + q.count
           low == n + 1 - QueueSize
           short == Add(Wire(n), 1)
           J == {j \in 0..q.count : j = q.count \/ ~TooShort(q, j, short)}
           k == Min(J)
           all == k = q.count /\ TooShort(q, 0, short)
           room == MakeRoom(q, Wire(n))
<1>1. /\ Num(q.begin, b) /\ b \in Nat /\ q.count \in Nat /\ q.count <= QueueSize /\ e \in Nat
      /\ e = b + q.count /\ QueueSize \in Nat /\ low \in Int /\ low > b /\ low = n + 1 - QueueSize /\ n >= e
  BY EndIs, Sizes
<1>2. \A j \in 0..q.count : TooShort(q, j, short) <=> b + j < low
  <2> SUFFICES ASSUME NEW j \in 0..q.count PROVE TooShort(q, j, short) <=> b + j < low
    OBVIOUS
  <2>1. Num(short, n + 1)
    BY WireNum, Adds
  <2> HIDE DEF short
  <2>2. TooShort(q, j, short) <=> b + QueueSize + j < n + 1
    BY <1>1, <2>1, TooShortIs
  <2> QED
    BY <1>1, <2>2
<1>3. TooShort(q, 0, short)
  BY <1>1, <1>2
<1>4. room = [queue |-> [q EXCEPT !.begin = IF all THEN Wire(n) ELSE Stepped(@, k), !.count = @ - k],
              dropped |-> UsersAt(q, Filled(q) \cap 0..(k - 1))]
  BY DEF MakeRoom
<1>5. PICK w0, m0, t : q = [begin |-> w0, count |-> m0, slot |-> t]
  BY DEF QueueOk
<1> HIDE DEF room, short
<1>6. CASE low < e
  <2> DEFINE m == low - b
             moved == From(q, Stepped(q.begin, m), m)
  <2>1. m \in 0..q.count /\ m \in Nat /\ m < q.count /\ b + m = low
    BY <1>1, <1>6
  <2>2. k = m
    <3>1. m \in J
      BY <1>1, <1>2, <2>1
    <3>2. \A j \in J : m <= j
      BY <1>1, <1>2, <2>1
    <3>3. J \subseteq Int
      OBVIOUS
    <3> HIDE DEF J, m
    <3> QED
      BY <3>1, <3>2, <3>3, MinIs
  <2>3. ~all
    BY <2>1, <2>2
  <2> HIDE DEF all, k, m
  <2>4. room = [queue |-> moved, dropped |-> UsersAt(q, Filled(q) \cap 0..(m - 1))]
    BY <1>4, <2>2, <2>3 DEF From
  <2>5. FloorOf(b, e, n) = low
    BY <1>1, <1>6 DEF FloorOf
  <2>6. /\ QueueOk(U, moved, low) /\ moved.count = q.count - m
        /\ HeldIn(moved, low) = {x \in HeldIn(q, b) : x >= low}
    BY <2>1, StepIs
  <2>7. UsersAt(q, Filled(q) \cap 0..(m - 1)) = {x \in HeldIn(q, b) : x < low}
    BY <2>1, UsersBelow
  <2>8. room.queue = moved /\ room.dropped = {x \in HeldIn(q, b) : x < low}
    BY <2>4, <2>7
  <2>9. q.count - m = e - low
    BY <1>1, <2>1
  <2> HIDE DEF e, low
  <2>10. Cleared(U, q, b, low, room)
    BY <1>1, <1>6, <2>6, <2>8, <2>9 DEF Cleared
  <2> QED
    BY <2>5, <2>10 DEF room, e
<1>7. CASE low >= e
  <2>1. k = q.count
    <3>1. q.count \in J
      BY <1>1
    <3>2. \A j \in J : q.count <= j
      BY <1>1, <1>2, <1>7
    <3>3. J \subseteq Int
      OBVIOUS
    <3> HIDE DEF J
    <3> QED
      BY <3>1, <3>2, <3>3, MinIs
  <2>2. all
    BY <1>3, <2>1
  <2> HIDE DEF all, k
  <2> DEFINE r == [begin |-> Wire(n), count |-> 0, slot |-> t]
  <2>3. room = [queue |-> r, dropped |-> UsersAt(q, Filled(q) \cap 0..(q.count - 1))]
    <3> DEFINE s == [q EXCEPT !.begin = Wire(n), !.count = @ - q.count]
    <3>1. q.count - q.count = 0
      BY <1>1
    <3>2. s = [q EXCEPT !.begin = Wire(n), !.count = q.count - q.count]
      OBVIOUS
    <3> HIDE DEF s
    <3>3. s = r
      BY <1>5, <3>1, <3>2
    <3> QED
      BY <1>4, <2>1, <2>2, <3>3 DEF s
  <2>4. r.count = 0 /\ r.slot = t /\ r.begin = Wire(n) /\ q.slot = t
    BY <1>5
  <2>5. r = [begin |-> r.begin, count |-> r.count, slot |-> r.slot]
    OBVIOUS
  <2> HIDE DEF r
  <2>6. \A x : x \notin n..(n + r.count - 1)
    BY <2>4
  <2>7. QueueOk(U, r, n)
    <3>1. r.slot \in Rings(U) /\ r.count \in 0..QueueSize
      BY <1>1, <2>4 DEF QueueOk
    <3>2. r.begin \in Begins /\ Num(r.begin, n)
      BY <2>4, WireNum
    <3> QED
      BY <2>5, <2>6, <3>1, <3>2 DEF QueueOk
  <2>8. HeldIn(r, n) = {}
    BY <2>6 DEF HeldIn
  <2>9. \A x \in HeldIn(q, b) : x < n /\ x < b + q.count
    BY <1>1 DEF HeldIn
  <2>10. UsersAt(q, Filled(q) \cap 0..(q.count - 1)) = HeldIn(q, b)
    <3>1. q.count \in 0..q.count
      BY <1>1
    <3>2. UsersAt(q, Filled(q) \cap 0..(q.count - 1)) = {x \in HeldIn(q, b) : x < b + q.count}
      BY <3>1, UsersBelow
    <3> QED
      BY <2>9, <3>2
  <2>11. room.queue = r /\ room.dropped = HeldIn(q, b)
    BY <2>3, <2>10
  <2>12. FloorOf(b, e, n) = n
    BY <1>1, <1>7 DEF FloorOf
  <2>13. {x \in HeldIn(q, b) : x < n} = HeldIn(q, b) /\ {x \in HeldIn(q, b) : x >= n} = {} /\ ~(n < b + q.count)
    <3>1. \A x \in HeldIn(q, b) : x \in Nat
      BY <1>1 DEF HeldIn
    <3>2. \A x \in HeldIn(q, b) : x < n /\ ~(x >= n)
      BY <2>9, <3>1
    <3>3. ~(n < b + q.count)
      BY <1>1
    <3> QED
      BY <3>2, <3>3
  <2>14. Cleared(U, q, b, n, room)
    BY <2>4, <2>7, <2>8, <2>11, <2>13 DEF Cleared
  <2> QED
    BY <2>12, <2>14 DEF room
<1>8. low < e \/ low >= e
  BY <1>1
<1> QED
  BY <1>6, <1>7, <1>8

\* The element is kept, everything before c is pushed out and the window begins there.
Pushed(U, q, b, n, c, p) ==
    /\ p.dropped = {x \in HeldIn(q, b) : x < c}
    /\ QueueOk(U, p.queue, c) /\ HeldIn(p.queue, c) = {x \in HeldIn(q, b) : x >= c} \cup {n}
    /\ c + p.queue.count = IF n < b + q.count THEN b + q.count ELSE n + 1

LEMMA TakenIsPushed ==
    ASSUME NEW U, NEW q, NEW b, QueueOk(U, q, b), NEW n, NEW p, Taken(U, q, b, n, p)
    PROVE Pushed(U, q, b, n, b, p)
<1>1. b \in Nat
  BY EndIs
<1>2. \A x \in HeldIn(q, b) : x >= b /\ ~(x < b)
  BY <1>1 DEF HeldIn
<1>3. {x \in HeldIn(q, b) : x < b} = {} /\ {x \in HeldIn(q, b) : x >= b} = HeldIn(q, b)
  BY <1>2
<1> QED
  BY <1>3 DEF Taken, Pushed

\* What does not fit pushes out what is oldest.
LEMMA AppendedOut ==
    ASSUME NEW U, NEW q, NEW b, QueueOk(U, q, b), NEW n \in U, n \in Nat, n >= b + QueueSize,
           n - b <= Modulus \div 2, n - b < Modulus \div 2 \/ QueueSize > 1
    PROVE Pushed(U, q, b, n, FloorOf(b, b + q.count, n), Appended(q, Wire(n), n, TRUE))
<1> DEFINE c == FloorOf(b, b + q.count, n)
           room == MakeRoom(q, Wire(n))
           new == Add(Wire(n), 1)
           g == Grow(room.queue, new)
           r == Put(g, Wire(n), n)
           p == Appended(q, Wire(n), n, TRUE)
<1>1. /\ b \in Nat /\ q.count \in Nat /\ q.count <= QueueSize /\ b + q.count \in Nat /\ QueueSize \in Nat \ {0}
  BY EndIs, Sizes
<1>2. Cleared(U, q, b, c, room)
  BY MakeRoomIs
<1>3. p = [queue |-> r, dropped |-> room.dropped]
  BY DEF Appended
<1>4. c \in Nat /\ c <= n /\ n < c + QueueSize /\ (c < b + q.count \/ c = n)
  BY <1>1 DEF FloorOf
<1>12. Num(new, n + 1)
  BY WireNum, Adds
<1> HIDE DEF c, room, new
<1>5. QueueOk(U, room.queue, c) /\ c + room.queue.count <= n
  BY <1>1, <1>2, <1>4 DEF Cleared
<1>6. QueueOk(U, g, c) /\ g.count = n + 1 - c /\ HeldIn(g, c) = HeldIn(room.queue, c)
  <2>1. n >= c + room.queue.count
    <3>1. c + room.queue.count \in Nat
      BY <1>5, EndIs
    <3> QED
      BY <1>5, <3>1
  <2> QED
    BY <1>4, <1>5, <1>12, <2>1, GrowIs
<1> HIDE DEF g
<1>7. n \in c..(c + g.count - 1)
  BY <1>4, <1>6
<1>8. QueueOk(U, r, c) /\ r.count = g.count /\ HeldIn(r, c) = HeldIn(g, c) \cup {n}
  BY <1>6, <1>7, PutIs
<1> HIDE DEF r, p
<1>9. c + r.count = n + 1 /\ ~(n < b + q.count)
  BY <1>1, <1>4, <1>6, <1>8
<1>10. p.queue = r /\ p.dropped = room.dropped
  BY <1>3
<1>11. Pushed(U, q, b, n, c, p)
  BY <1>2, <1>6, <1>8, <1>9, <1>10 DEF Pushed, Cleared
<1> QED
  BY <1>11 DEF p, c

\* Exactly half the number space ahead of an empty window, which moves to it.
LEMMA PushHalfway ==
    ASSUME NEW U, NEW q, NEW b \in Nat, QueueOk(U, q, b), NEW n \in U, n \in Nat,
           n = b + (Modulus \div 2), q.count = 0
    PROVE Pushed(U, q, b, n, n, Push(q, Wire(n), n, TRUE))
<1> DEFINE r == [q EXCEPT !.begin = Wire(n)]
           p == Push(q, Wire(n), n, TRUE)
<1>1. Num(q.begin, b) /\ End(q) = Wire(b) /\ b + q.count = b /\ n - b = Modulus \div 2 /\ Num(Wire(n), n)
  BY EndIs, WireNum, Sizes
<1>2. ~Lt(Wire(b), Wire(n)) /\ ~Lt(Wire(n), Wire(b)) /\ Wire(b) # Wire(n)
  BY <1>1, Halfway
<1>3. ~Lt(Wire(n), q.begin) /\ ~Ge(Wire(n), q.begin) /\ ~Ge(Wire(n), End(q))
  <2>1. ~Lt(Wire(n), q.begin) /\ ~Lt(q.begin, Wire(n))
    BY <1>1, <1>2, LtNum
  <2>2. Wire(n) # q.begin
    BY <1>1, <1>2 DEF Num
  <2> QED
    BY <1>1, <1>2, <2>1, <2>2 DEF Ge, Gt
<1>4. p = Appended(r, Wire(n), n, TRUE)
  BY <1>3 DEF Push
<1>5. PICK w, t : q = [begin |-> w, count |-> 0, slot |-> t]
  BY DEF QueueOk
<1>6. r = [begin |-> Wire(n), count |-> 0, slot |-> t]
  BY <1>5
<1>7. q.slot = t /\ t \in Rings(U)
  BY <1>5 DEF QueueOk
<1> HIDE DEF r, p
<1>8. r.count = 0 /\ r.slot = t /\ r.begin = Wire(n)
  BY <1>6
<1>9. \A x : x \notin n..(n + r.count - 1) /\ x \notin b..(b + q.count - 1)
  BY <1>8
<1>10. QueueOk(U, r, n)
  <2>1. r.begin \in Begins /\ Num(r.begin, n)
    BY <1>8, WireNum
  <2> QED
    BY <1>6, <1>7, <1>8, <1>9, <2>1, Sizes DEF QueueOk
<1>11. HeldIn(r, n) = {} /\ HeldIn(q, b) = {}
  BY <1>9 DEF HeldIn
<1>12. Taken(U, r, n, n, p)
  <2>1. n >= n + r.count /\ n < n + QueueSize
    BY <1>8, Sizes
  <2> QED
    BY <1>4, <1>10, <2>1, AppendedFits
<1>13. n + r.count = n /\ ~(n < n) /\ ~(n < b + q.count)
  BY <1>1, <1>8, Sizes
<1>14. Pushed(U, q, b, n, n, p)
  BY <1>11, <1>12, <1>13 DEF Taken, Pushed
<1> QED
  BY <1>14 DEF p

\* A push that drops the oldest keeps whatever is not behind the window, not held yet and
\* not more than half the number space ahead, but at the seam; any other is refused.
LEMMA PushDrops ==
    ASSUME NEW U, NEW q, NEW b, QueueOk(U, q, b), NEW n \in U, n \in Nat,
           b - n < Modulus \div 2, n - b < Modulus, q.count = 0 \/ QueueSize > 1
    PROVE LET wanted == n >= b /\ n \notin HeldIn(q, b) /\ n - b <= Modulus \div 2 /\ ~AtSeam(q, Wire(n)) IN
          /\ wanted => Pushed(U, q, b, n, FloorOf(b, b + q.count, n), Push(q, Wire(n), n, TRUE))
          /\ ~wanted => Push(q, Wire(n), n, TRUE) = Refused(q, n)
<1> DEFINE p == Push(q, Wire(n), n, TRUE)
           e == b + q.count
           c == FloorOf(b, e, n)
           seam == AtSeam(q, Wire(n))
           wanted == n >= b /\ n \notin HeldIn(q, b) /\ n - b <= Modulus \div 2 /\ ~seam
<1>1. /\ b \in Nat /\ q.count \in Nat /\ q.count <= QueueSize /\ e \in Nat /\ e = b + q.count
      /\ QueueSize \in Nat \ {0} /\ Modulus \div 2 \in Nat /\ QueueSize < Modulus \div 2
  BY EndIs, Sizes
<1>2. CASE n < b
  <2>1. p = Refused(q, n)
    BY <1>2, PushBehind, ZenonT(30)
  <2>2. ~wanted
    BY <1>1, <1>2
  <2> QED
    BY <2>1, <2>2
<1>3. CASE n >= b /\ n < e /\ ~seam
  <2>1. n - b <= Modulus \div 2 /\ c = b
    BY <1>1, <1>3 DEF FloorOf
  <2>2. CASE n \in HeldIn(q, b)
    BY <1>3, <2>2, PushInside
  <2>3. CASE n \notin HeldIn(q, b)
    <3>1. Taken(U, q, b, n, p)
      BY <1>3, <2>3, PushInside
    <3>2. Pushed(U, q, b, n, b, p)
      BY <3>1, TakenIsPushed
    <3> QED
      BY <1>3, <2>1, <2>3, <3>2
  <2> QED
    BY <2>2, <2>3
<1>4. CASE n - b > Modulus \div 2
  <2>1. p = Refused(q, n)
    BY <1>4, PushFar
  <2>2. ~wanted
    BY <1>1, <1>4
  <2> QED
    BY <2>1, <2>2
<1>5. CASE n >= e /\ n - b <= Modulus \div 2 /\ ~seam
  <2>1. wanted
    BY <1>1, <1>5 DEF HeldIn
  <2>2. CASE n - b < Modulus \div 2 \/ q.count > 0
    <3>1. p = Appended(q, Wire(n), n, TRUE)
      BY <1>5, <2>2, PushAhead
    <3>2. CASE n < b + QueueSize
      <4>1. Taken(U, q, b, n, Appended(q, Wire(n), n, TRUE))
        BY <1>5, <3>2, AppendedFits
      <4>2. c = b
        BY <1>1, <3>2 DEF FloorOf
      <4> QED
        BY <2>1, <3>1, <4>1, <4>2, TakenIsPushed
    <3>3. CASE n >= b + QueueSize
      <4>1. n - b < Modulus \div 2 \/ QueueSize > 1
        BY <1>1, <2>2
      <4>2. Pushed(U, q, b, n, c, Appended(q, Wire(n), n, TRUE))
        BY <1>5, <3>3, <4>1, AppendedOut
      <4> QED
        BY <2>1, <3>1, <4>2
    <3>4. n < b + QueueSize \/ n >= b + QueueSize
      BY <1>1
    <3> QED
      BY <3>2, <3>3, <3>4
  <2>3. CASE n - b = Modulus \div 2 /\ q.count = 0
    <3>1. n = b + (Modulus \div 2) /\ q.count = 0
      BY <1>1, <2>3
    <3>2. Pushed(U, q, b, n, n, p)
      BY <1>1, <3>1, PushHalfway
    <3>3. c = n
      BY <1>1, <2>3 DEF FloorOf
    <3> QED
      BY <2>1, <3>2, <3>3
  <2>4. (n - b < Modulus \div 2 \/ q.count > 0) \/ (n - b = Modulus \div 2 /\ q.count = 0)
    BY <1>1, <1>5
  <2> QED
    BY <2>2, <2>3, <2>4
<1>6. CASE n >= b /\ n - b <= Modulus \div 2 /\ seam
  BY <1>6, PushSeam
<1>7. n < b \/ (n >= b /\ n < e /\ n - b <= Modulus \div 2) \/ n - b > Modulus \div 2
      \/ (n >= b /\ n >= e /\ n - b <= Modulus \div 2)
  BY <1>1
<1> QED
  BY <1>2, <1>3, <1>4, <1>5, <1>6, <1>7

\* The flush takes the k chunks up to the first that is missing, and leaves the
\* rest where they are.
Pulled(U, q, b, f, k) ==
    /\ f.users = [j \in 1..k |-> b + (j - 1)]
    /\ QueueOk(U, f.queue, b + k) /\ f.queue.count = q.count - k
    /\ b..(b + k - 1) \subseteq HeldIn(q, b) /\ b + k \notin HeldIn(q, b)
    /\ HeldIn(f.queue, b + k) = HeldIn(q, b) \ b..(b + k - 1)

LEMMA PullIs ==
    ASSUME NEW U, NEW q, NEW b, QueueOk(U, q, b), NEW f, f = PullAll(q)
    PROVE \E k \in 0..q.count : Pulled(U, q, b, f, k)
<1> DEFINE K == {k \in 0..q.count : ~IsSet(q, k)}
<1>1. q.count \in Nat /\ b \in Nat
  BY Sizes DEF QueueOk
<1>2. \A i \in 0..(q.count - 1) : IsSet(q, i) <=> b + i \in HeldIn(q, b)
  <2>1. \A i \in 0..(q.count - 1) : Entry(q, i).set <=> b + i \in HeldIn(q, b)
    BY FilledIs
  <2>2. \A i \in 0..(q.count - 1) : i < q.count
    BY <1>1
  <2> QED
    BY <2>1, <2>2 DEF IsSet
<1>3. q.count \in K
  BY <1>1 DEF IsSet
<1>4. PICK k \in K : \A y \in K : k <= y
  <2>1. K \subseteq Nat /\ K # {}
    BY <1>1, <1>3
  <2> HIDE DEF K
  <2> QED
    BY <2>1, Least
<1>5. RunLength(q) = k /\ k \in 0..q.count
  <2>1. K \subseteq Int /\ k \in 0..q.count
    BY <1>1
  <2>2. RunLength(q) = Min(K)
    BY DEF RunLength
  <2> HIDE DEF K
  <2> QED
    BY <1>4, <2>1, <2>2, MinIs
<1>6. \A i \in 0..(k - 1) : IsSet(q, i) /\ b + i \in HeldIn(q, b)
  <2> SUFFICES ASSUME NEW i \in 0..(k - 1) PROVE IsSet(q, i) /\ b + i \in HeldIn(q, b)
    OBVIOUS
  <2>1. i \in 0..(q.count - 1) /\ i \in 0..q.count /\ ~(k <= i)
    BY <1>1, <1>5
  <2>2. IsSet(q, i)
    BY <1>4, <2>1
  <2> QED
    BY <1>2, <2>1, <2>2
<1>7. b + k \notin HeldIn(q, b)
  <2>1. CASE k = q.count
    BY <1>1, <2>1 DEF HeldIn
  <2>2. CASE k < q.count
    <3>1. k \in 0..(q.count - 1) /\ ~IsSet(q, k)
      BY <1>1, <1>5, <2>2
    <3> QED
      BY <1>2, <3>1
  <2> QED
    BY <1>1, <1>5, <2>1, <2>2
<1>8. b..(b + k - 1) \subseteq HeldIn(q, b)
  <2> SUFFICES ASSUME NEW x \in b..(b + k - 1) PROVE x \in HeldIn(q, b)
    OBVIOUS
  <2>1. x - b \in 0..(k - 1) /\ b + (x - b) = x
    BY <1>1, <1>5
  <2> QED
    BY <1>6, <2>1
<1>9. f.users = [j \in 1..k |-> b + (j - 1)]
  <2>1. f.users = [j \in 1..k |-> Entry(q, j - 1).user]
    BY <1>5 DEF PullAll
  <2>2. \A j \in 1..k : Entry(q, j - 1).user = b + (j - 1)
    <3> SUFFICES ASSUME NEW j \in 1..k PROVE Entry(q, j - 1).user = b + (j - 1)
      OBVIOUS
    <3>1. j - 1 \in 0..(k - 1) /\ j - 1 \in 0..(q.count - 1)
      BY <1>1, <1>5
    <3>2. j - 1 \in Filled(q)
      BY <1>6, <3>1 DEF Filled, IsSet
    <3> QED
      BY <3>2, FilledIs
  <2> QED
    BY <2>1, <2>2
<1>10. f.queue = From(q, Stepped(q.begin, k), k)
  BY <1>5 DEF PullAll
<1>11. QueueOk(U, f.queue, b + k) /\ f.queue.count = q.count - k
       /\ HeldIn(f.queue, b + k) = {x \in HeldIn(q, b) : x >= b + k}
  BY <1>5, <1>10, StepIs
<1>12. {x \in HeldIn(q, b) : x >= b + k} = HeldIn(q, b) \ b..(b + k - 1)
  BY <1>1, <1>5 DEF HeldIn
<1> QED
  BY <1>5, <1>7, <1>8, <1>9, <1>11, <1>12 DEF Pulled

-----------------------------------------------------------------------------
(* Counting.                                                               *)

\* SetToSeq lists every member of a finite set, once.
LEMMA SeqIs ==
    ASSUME NEW D, IsFiniteSet(D)
    PROVE /\ SetToSeq(D) \in Seq(D) /\ Len(SetToSeq(D)) = Cardinality(D)
          /\ IsInjective(SetToSeq(D)) /\ \A x \in D : \E i \in DOMAIN SetToSeq(D) : SetToSeq(D)[i] = x
<1> DEFINE c == Cardinality(D)
           f == SetToSeq(D)
<1>1. c \in Nat /\ ExistsBijection(1..c, D)
  BY FS_CardinalityType
<1> HIDE DEF c
<1>2. \E g \in [1..c -> D] : IsInjective(g)
  BY <1>1 DEF ExistsBijection, Bijection, Injection
<1>3. f = CHOOSE g \in [1..c -> D] : IsInjective(g)
  BY DEF SetToSeq, c
<1> HIDE DEF f
<1>4. f \in [1..c -> D] /\ IsInjective(f)
  BY <1>2, <1>3
<1>5. f \in Injection(1..c, D)
  BY <1>4 DEF Injection
<1>6. Cardinality(1..c) = c
  BY <1>1, FS_Interval
<1>7. f \in Surjection(1..c, D)
  BY <1>5, <1>6, FS_Injection DEF c
<1>8. \A x \in D : \E i \in 1..c : f[i] = x
  BY <1>7 DEF Surjection
<1>9. f \in Seq(D) /\ Len(f) = c /\ DOMAIN f = 1..c
  BY <1>1, <1>4
<1> QED
  BY <1>4, <1>8, <1>9 DEF c, f

\* A sequence without repetition has each of its members once.
LEMMA CountIs ==
    ASSUME NEW s, IsInjective(s), NEW x
    PROVE Count(s, x) = IF \E i \in DOMAIN s : s[i] = x THEN 1 ELSE 0
<1> DEFINE I == {i \in DOMAIN s : s[i] = x}
<1>1. CASE \E i \in DOMAIN s : s[i] = x
  <2>1. PICK i \in DOMAIN s : s[i] = x
    BY <1>1
  <2>2. I = {i}
    BY <2>1 DEF IsInjective
  <2> QED
    BY <1>1, <2>2, FS_Singleton DEF Count
<1>2. CASE ~\E i \in DOMAIN s : s[i] = x
  <2>1. I = {}
    BY <1>2
  <2> QED
    BY <1>2, <2>1, FS_EmptySet DEF Count
<1> QED
  BY <1>1, <1>2

LEMMA SeqCount ==
    ASSUME NEW D, IsFiniteSet(D), NEW x
    PROVE Count(SetToSeq(D), x) = IF x \in D THEN 1 ELSE 0
<1> DEFINE f == SetToSeq(D)
<1>1. f \in Seq(D) /\ IsInjective(f) /\ \A y \in D : \E i \in DOMAIN f : f[i] = y
  BY SeqIs
<1> HIDE DEF f
<1>2. \A i \in DOMAIN f : f[i] \in D
  BY <1>1
<1>3. (\E i \in DOMAIN f : f[i] = x) <=> x \in D
  BY <1>1, <1>2
<1>4. Count(f, x) = IF x \in D THEN 1 ELSE 0
  BY <1>1, <1>3, CountIs
<1> QED
  BY <1>4 DEF f

\* The chunks of a run of numbers.
LEMMA RunCount ==
    ASSUME NEW b \in Nat, NEW k \in Nat, NEW s, s = [j \in 1..k |-> b + (j - 1)], NEW x
    PROVE Count(s, x) = IF x \in b..(b + k - 1) THEN 1 ELSE 0
<1>1. IsInjective(s)
  BY DEF IsInjective
<1>2. ASSUME x \in b..(b + k - 1) PROVE \E i \in DOMAIN s : s[i] = x
  <2>1. x - b + 1 \in 1..k /\ b + ((x - b + 1) - 1) = x
    BY <1>2
  <2> QED
    BY <2>1
<1>3. ASSUME NEW i \in DOMAIN s PROVE s[i] \in b..(b + k - 1)
  OBVIOUS
<1>4. (\E i \in DOMAIN s : s[i] = x) <=> x \in b..(b + k - 1)
  BY <1>2, <1>3
<1> HIDE DEF Count
<1> QED
  BY <1>1, <1>4, CountIs

\* How often x is in one sequence after another.
LEMMA CountJoined ==
    ASSUME NEW D, NEW s \in Seq(D), NEW t \in Seq(D), NEW x
    PROVE /\ Count(s \o t, x) = Count(s, x) + Count(t, x)
          /\ Count(s, x) \in Nat /\ Count(t, x) \in Nat
<1> DEFINE m == Len(s)
           A == {i \in DOMAIN s : s[i] = x}
           B == {i \in DOMAIN t : t[i] = x}
           C == {j \in (m + 1)..(m + Len(t)) : (s \o t)[j] = x}
           f == [i \in B |-> m + i]
<1>1. /\ m \in Nat /\ Len(t) \in Nat /\ DOMAIN s = 1..m /\ DOMAIN t = 1..Len(t)
      /\ s \o t \in Seq(D) /\ Len(s \o t) = m + Len(t) /\ DOMAIN (s \o t) = 1..(m + Len(t))
  <2>1. s \o t \in Seq(D) /\ Len(s \o t) = m + Len(t)
    OBVIOUS
  <2> QED
    BY <2>1
<1>2. /\ \A i \in 1..m : (s \o t)[i] = s[i]
      /\ \A i \in 1..Len(t) : (s \o t)[m + i] = t[i]
  OBVIOUS
<1> HIDE DEF m
<1>3. IsFiniteSet(A) /\ Cardinality(A) \in Nat
  <2>1. IsFiniteSet(1..m) /\ A \in SUBSET (1..m)
    BY <1>1, FS_Interval
  <2> HIDE DEF A
  <2> QED
    BY <2>1, FS_Subset, FS_CardinalityType
<1>4. IsFiniteSet(B) /\ Cardinality(B) \in Nat
  <2>1. IsFiniteSet(1..Len(t)) /\ B \in SUBSET (1..Len(t))
    BY <1>1, FS_Interval
  <2> HIDE DEF B
  <2> QED
    BY <2>1, FS_Subset, FS_CardinalityType
<1>5. \A i \in B : i \in 1..Len(t) /\ t[i] = x
  BY <1>1
<1>6. f \in Bijection(B, C)
  <2>1. \A i \in B : f[i] = m + i /\ m + i \in C
    <3> SUFFICES ASSUME NEW i \in B PROVE f[i] = m + i /\ m + i \in C
      OBVIOUS
    <3>1. i \in 1..Len(t) /\ t[i] = x
      BY <1>5
    <3>2. m + i \in (m + 1)..(m + Len(t)) /\ (s \o t)[m + i] = x
      BY <1>1, <1>2, <3>1
    <3> HIDE DEF B
    <3> QED
      BY <3>2
  <2>2. \A j \in C : j - m \in B /\ m + (j - m) = j
    <3> SUFFICES ASSUME NEW j \in C PROVE j - m \in B /\ m + (j - m) = j
      OBVIOUS
    <3>1. j \in (m + 1)..(m + Len(t)) /\ (s \o t)[j] = x
      OBVIOUS
    <3>2. j - m \in 1..Len(t) /\ m + (j - m) = j
      BY <1>1, <3>1
    <3>3. t[j - m] = x
      BY <1>2, <3>1, <3>2
    <3> QED
      BY <1>1, <3>2, <3>3
  <2> HIDE DEF C
  <2>3. f \in [B -> C]
    BY <2>1
  <2>4. \A a, b \in B : f[a] = f[b] => a = b
    BY <1>1, <1>5, <2>1
  <2>5. \A j \in C : \E i \in B : f[i] = j
    BY <2>1, <2>2
  <2> HIDE DEF B, f
  <2>6. f \in Injection(B, C)
    BY <2>3, <2>4 DEF Injection, IsInjective
  <2>7. f \in Surjection(B, C)
    BY <2>3, <2>5 DEF Surjection
  <2> QED
    BY <2>6, <2>7 DEF Bijection
<1>7. IsFiniteSet(C) /\ Cardinality(C) = Cardinality(B)
  <2>1. ExistsBijection(B, C)
    BY <1>6 DEF ExistsBijection
  <2> HIDE DEF B, C
  <2> QED
    BY <1>4, <2>1, FS_Bijection
<1>8. A \cap C = {}
  BY <1>1
<1>9. {i \in DOMAIN (s \o t) : (s \o t)[i] = x} = A \cup C
  <2>1. ASSUME NEW i PROVE i \in 1..(m + Len(t)) <=> i \in 1..m \/ i \in (m + 1)..(m + Len(t))
    BY <1>1
  <2>2. ASSUME NEW i PROVE i \in A <=> i \in 1..m /\ (s \o t)[i] = x
    BY <1>1, <1>2
  <2> QED
    BY <1>1, <2>1, <2>2
<1>10. Cardinality(A \cup C) = Cardinality(A) + Cardinality(C) - Cardinality({})
  <2> HIDE DEF A, C
  <2> QED
    BY <1>3, <1>7, <1>8, FS_Union
<1>11. Cardinality({}) = 0
  BY FS_EmptySet
<1>12. Count(s, x) = Cardinality(A) /\ Count(t, x) = Cardinality(B)
  BY DEF Count
<1>13. Count(s \o t, x) = Cardinality(A \cup C)
  BY <1>9 DEF Count
<1> HIDE DEF A, B, C, f
<1> QED
  BY <1>3, <1>4, <1>7, <1>10, <1>11, <1>12, <1>13

LEMMA CountOne ==
    ASSUME NEW n, NEW x
    PROVE Count(<<n>>, x) = (IF x = n THEN 1 ELSE 0) /\ Count(<<>>, x) = 0
<1>1. IsInjective(<<n>>) /\ IsInjective(<<>>)
  BY DEF IsInjective
<1>2. (\E i \in DOMAIN <<n>> : <<n>>[i] = x) <=> x = n
  OBVIOUS
<1>3. ~\E i \in DOMAIN <<>> : <<>>[i] = x
  OBVIOUS
<1> QED
  BY <1>1, <1>2, <1>3, CountIs

\* A queue holds one buffer of each chunk in its window, and none of any other.
LEMMA FilledCount ==
    ASSUME NEW U, NEW q, NEW b, QueueOk(U, q, b), NEW x
    PROVE Cardinality({i \in Filled(q) : Entry(q, i).user = x}) = IF x \in HeldIn(q, b) THEN 1 ELSE 0
<1> DEFINE I == {i \in Filled(q) : Entry(q, i).user = x}
<1>1. b \in Nat /\ q.count \in Nat
  BY Sizes DEF QueueOk
<1>2. /\ \A i \in Filled(q) : Entry(q, i).user = b + i
      /\ HeldIn(q, b) = {b + i : i \in Filled(q)}
  BY FilledIs
<1>3. \A i \in Filled(q) : i \in Nat
  BY <1>1 DEF Filled
<1>4. CASE x \in HeldIn(q, b)
  <2>1. PICK i \in Filled(q) : x = b + i
    BY <1>2, <1>4
  <2>2. \A j \in Filled(q) : b + j = x <=> j = i
    BY <1>1, <1>3, <2>1
  <2>3. I = {i}
    BY <1>2, <2>1, <2>2
  <2> QED
    BY <1>4, <2>3, FS_Singleton
<1>5. CASE x \notin HeldIn(q, b)
  <2>1. I = {}
    BY <1>2, <1>5
  <2> QED
    BY <1>5, <2>1, FS_EmptySet
<1> QED
  BY <1>4, <1>5

\* A queue whose begin is missing, in the words of the invariants.
LEMMA QueueBack ==
    ASSUME NEW U, NEW q, NEW b, QueueOk(U, q, b), b \notin HeldIn(q, b)
    PROVE /\ q \in [begin : Begins, count : 0..QueueSize,
                    slot : [0..(QueueSize - 1) -> [set : BOOLEAN, user : U \cup {NoUser}]]]
          /\ q.begin % Modulus = Wire(b)
          /\ ~IsSet(q, 0) /\ \A i \in Filled(q) : Entry(q, i).user = b + i
<1>1. b \in Nat /\ q.count \in Nat
  BY Sizes DEF QueueOk
<1>2. ~IsSet(q, 0)
  <2> SUFFICES ASSUME IsSet(q, 0) PROVE FALSE
    OBVIOUS
  <2>1. 0 \in 0..(q.count - 1) /\ Entry(q, 0).set /\ b + 0 = b
    BY <1>1 DEF IsSet
  <2>2. b + 0 \in HeldIn(q, b)
    BY <2>1, FilledIs
  <2> QED
    BY <2>1, <2>2
<1>3. q \in [begin : Begins, count : 0..QueueSize,
             slot : [0..(QueueSize - 1) -> [set : BOOLEAN, user : U \cup {NoUser}]]]
  BY DEF QueueOk, Rings
<1>4. q.begin % Modulus = Wire(b)
  BY DEF QueueOk, Num
<1> QED
  BY <1>2, <1>3, <1>4, FilledIs

\* A queue whose elements are the users of their own numbers, as the invariants say it.
LEMMA QueueFrom ==
    ASSUME NEW U, NEW q, NEW b \in Nat, q.count \in 0..QueueSize, q.slot \in Rings(U),
           q = [begin |-> q.begin, count |-> q.count, slot |-> q.slot],
           q.begin \in Begins, q.begin % Modulus = Wire(b),
           \A i \in Filled(q) : Entry(q, i).user = b + i
    PROVE QueueOk(U, q, b)
<1>1. q.count \in Nat /\ Num(q.begin, b)
  BY Sizes DEF Num, Begins
<1>2. ASSUME NEW x \in b..(b + q.count - 1), q.slot[Place(x)].set
      PROVE q.slot[Place(x)].user = x
  <2>1. x - b \in 0..(q.count - 1) /\ x - b \in Nat /\ b + (x - b) = x /\ x \in Int
    BY <1>1
  <2>2. Entry(q, x - b) = q.slot[Place(x)]
    <3>1. Num(Add(q.begin, x - b), x)
      BY <1>1, <2>1, Adds
    <3> QED
      BY <2>1, <3>1, PlaceNum DEF Entry
  <2>3. x - b \in Filled(q)
    BY <1>2, <2>1, <2>2 DEF Filled
  <2> QED
    BY <2>1, <2>2, <2>3
<1> QED
  BY <1>1, <1>2 DEF QueueOk

LEMMA BeginMissing ==
    ASSUME NEW U, NEW q, NEW b, QueueOk(U, q, b), ~IsSet(q, 0)
    PROVE b \notin HeldIn(q, b)
<1>1. b \in Nat /\ q.count \in Nat
  BY EndIs
<1>2. CASE q.count = 0
  BY <1>1, <1>2 DEF HeldIn
<1>3. CASE q.count > 0
  <2>1. 0 \in 0..(q.count - 1) /\ b + 0 = b /\ 0 < q.count
    BY <1>1, <1>3
  <2>2. Entry(q, 0).set <=> b + 0 \in HeldIn(q, b)
    BY <2>1, FilledIs
  <2>3. ~Entry(q, 0).set
    BY <2>1 DEF IsSet
  <2> QED
    BY <2>1, <2>2, <2>3
<1> QED
  BY <1>1, <1>2, <1>3

\* The ring is empty at first and at the end.
LEMMA EmptyIs ==
    ASSUME NEW U, NEW b \in Nat, NEW begin \in Begins, Num(begin, b)
    PROVE /\ QueueOk(U, EmptyQueue(begin), b) /\ HeldIn(EmptyQueue(begin), b) = {}
          /\ EmptyQueue(begin).count = 0
<1> DEFINE q == EmptyQueue(begin)
<1>1. q = [begin |-> begin, count |-> 0,
           slot |-> [i \in 0..(QueueSize - 1) |-> [set |-> FALSE, user |-> NoUser]]]
  BY DEF EmptyQueue
<1> HIDE DEF q
<1>2. q.count = 0 /\ q.slot \in Rings(U) /\ q.begin = begin
  BY <1>1 DEF Rings
<1>6. q.begin \in Begins /\ Num(q.begin, b)
  BY <1>2
<1>3. \A x : x \notin b..(b + q.count - 1)
  BY <1>2
<1>4. QueueOk(U, q, b)
  BY <1>1, <1>2, <1>3, <1>6, Sizes DEF QueueOk
<1>5. HeldIn(q, b) = {}
  BY <1>3 DEF HeldIn
<1> QED
  BY <1>2, <1>4, <1>5 DEF q

-----------------------------------------------------------------------------
(* What a step does to the queue.                                          *)

Queued == QueueOk(Chunks, queue, base)

LEMMA Limits == N \in Nat /\ N <= Modulus \div 2 /\ N <= Modulus
BY DataAssumption, Sizes

LEMMA QueueIs ==
    ASSUME TypeOK, InFlight
    PROVE /\ Queued /\ Held = HeldIn(queue, base) /\ base \notin Held
          /\ base + queue.count <= sent /\ base <= sent /\ sent <= N /\ sent \in Nat
<1>1. /\ base \in Nat /\ queue.count \in 0..QueueSize /\ queue.slot \in Rings(Chunks) /\ queue.count \in Nat
      /\ queue = [begin |-> queue.begin, count |-> queue.count, slot |-> queue.slot]
      /\ queue.begin \in Begins /\ queue.begin % Modulus = Wire(base)
      /\ sent \in Nat /\ sent <= N /\ base + queue.count <= sent
  BY Sizes DEF TypeOK, InFlight, Rings
<1>3. Queued
  <2>1. \A i \in Filled(queue) : Entry(queue, i).user = base + i
    BY DEF InFlight
  <2> QED
    BY <1>1, <2>1, QueueFrom DEF Queued
<1>4. Held = HeldIn(queue, base)
  BY <1>3, FilledIs DEF Queued, Held
<1>5. base \notin Held
  <2>1. ~IsSet(queue, 0)
    BY DEF InFlight
  <2> QED
    BY <1>3, <1>4, <2>1, BeginMissing DEF Queued
<1> QED
  BY <1>1, <1>3, <1>4, <1>5

\* The chunk in the inbox is one the queue takes.
Takes == /\ inbox >= base /\ inbox < base + QueueSize /\ inbox \notin Held
         /\ ~AtSeam(queue, Wire(inbox))

\* The step hands k chunks over, in order: run is what the queue takes and
\* hands over, and back is the buffer of a chunk it refused.
Handles(k) ==
    LET with == Held \cup (IF Takes THEN {inbox} ELSE {})
        run == base..(base + k - 1)
        users == [j \in 1..k |-> base + (j - 1)]
        back == IF Takes THEN {} ELSE {inbox}
    IN  /\ inbox \in Chunks /\ inbox' = NoUser
        /\ base' = base + k /\ QueueOk(Chunks, queue', base') /\ base' + queue'.count <= sent
        /\ HeldIn(queue', base') = with \ run /\ run \subseteq with /\ base' \notin with
        /\ Callbacks(users) /\ Ack(users) /\ Release(SetToSeq(back) \o users)
        /\ UNCHANGED <<running, crashed, consoleVars>>

LEMMA HandleIs ==
    ASSUME TypeOK, InFlight, Handle
    PROVE \E k \in Nat : Handles(k)
<1> DEFINE n == inbox
           p == Push(queue, Wire(n), n, FALSE)
           f == PullAll(p.queue)
           with == Held \cup (IF Takes THEN {n} ELSE {})
           back == IF Takes THEN {} ELSE {n}
<1>1. /\ Queued /\ Held = HeldIn(queue, base) /\ base \notin Held
      /\ base + queue.count <= sent /\ base <= sent /\ sent <= N /\ sent \in Nat
  BY QueueIs
<1>2. n \in Chunks /\ n < sent /\ n \in Nat /\ base \in Nat /\ queue.count \in Nat /\ QueueSize \in Nat /\ N \in Nat
  BY <1>1, Sizes, Limits DEF Handle, TypeOK, InFlight, Chunks, Queued, QueueOk
<1>3. /\ n' = NoUser /\ queue' = f.queue
      /\ base' = base + ((f.queue.begin - queue.begin) % Modulus)
      /\ Callbacks(f.users) /\ Ack(f.users)
      /\ Release(SetToSeq(p.dropped) \o f.users)
      /\ UNCHANGED <<running, crashed, consoleVars>>
  BY DEF Handle
<1> HIDE DEF p
<1>4. /\ p.dropped = back /\ QueueOk(Chunks, p.queue, base) /\ HeldIn(p.queue, base) = with
      /\ base + p.queue.count <= sent
  <2>1. Takes <=> n \in base..(base + QueueSize - 1) /\ n \notin HeldIn(queue, base)
                  /\ ~AtSeam(queue, Wire(n))
    BY <1>1, <1>2 DEF Takes
  <2>2. (Takes => Taken(Chunks, queue, base, n, p)) /\ (~Takes => p = Refused(queue, n))
    <3>1. QueueOk(Chunks, queue, base) /\ n - base < Modulus \div 2 /\ base + queue.count - n <= Modulus \div 2
      BY <1>1, <1>2, Limits, Sizes DEF Queued, Chunks
    <3> QED
      BY <1>2, <2>1, <3>1, PushIs DEF p
  <2>3. CASE Takes
    <3>1. /\ p.dropped = {} /\ QueueOk(Chunks, p.queue, base)
          /\ HeldIn(p.queue, base) = HeldIn(queue, base) \cup {n}
          /\ base + p.queue.count = IF n < base + queue.count THEN base + queue.count ELSE n + 1
      BY <2>2, <2>3 DEF Taken
    <3> QED
      BY <1>1, <1>2, <2>3, <3>1
  <2>4. CASE ~Takes
    <3>1. p.dropped = {n} /\ p.queue = queue
      BY <2>2, <2>4 DEF Refused
    <3> QED
      BY <1>1, <2>4, <3>1 DEF Queued
  <2> QED
    BY <2>3, <2>4
<1>5. PICK k \in 0..p.queue.count :
             /\ f.users = [j \in 1..k |-> base + (j - 1)]
             /\ QueueOk(Chunks, f.queue, base + k) /\ f.queue.count = p.queue.count - k
             /\ base..(base + k - 1) \subseteq with /\ base + k \notin with
             /\ HeldIn(f.queue, base + k) = with \ base..(base + k - 1)
  <2> DEFINE q == p.queue
  <2>1. f = PullAll(q) /\ QueueOk(Chunks, q, base) /\ HeldIn(q, base) = with
    BY <1>4
  <2> HIDE DEF f, with, q
  <2>2. \E k \in 0..q.count : Pulled(Chunks, q, base, f, k)
    BY <2>1, PullIs
  <2> QED
    BY <2>1, <2>2 DEF q, Pulled
<1> HIDE DEF f, with, back
<1>6. p.queue.count \in Nat /\ p.queue.count <= QueueSize /\ k \in Nat /\ k <= QueueSize
  BY <1>2, <1>4, <1>5 DEF QueueOk
<1>7. base' = base + k
  <2>1. Num(f.queue.begin, base + k) /\ Num(queue.begin, base)
    BY <1>1, <1>5 DEF Queued, QueueOk
  <2>2. (f.queue.begin - queue.begin) % Modulus = ((base + k) - base) % Modulus
    BY <1>2, <1>6, <2>1, AheadNum
  <2>3. (base + k) - base = k /\ k \in 0..(Modulus - 1)
    BY <1>2, <1>6, Sizes
  <2>4. k % Modulus = k
    BY <2>3, Sizes, ModSmall
  <2> QED
    BY <1>3, <2>1, <2>2, <2>3, <2>4
<1>8. base' + queue'.count <= sent
  <2>1. queue'.count = p.queue.count - k
    BY <1>3, <1>5
  <2> QED
    BY <1>1, <1>2, <1>4, <1>6, <1>7, <2>1
<1>9. Handles(k)
  BY <1>2, <1>3, <1>4, <1>5, <1>7, <1>8 DEF Handles, with, back
<1> QED
  BY <1>6, <1>9

\* What it hands over is a sequence of chunks that the console has sent.
LEMMA RunIs ==
    ASSUME TypeOK, InFlight, NEW k \in Nat, Handles(k)
    PROVE /\ base \in Nat /\ base' = base + k /\ base' <= sent /\ base' \in 0..N
          /\ [j \in 1..k |-> base + (j - 1)] \in Seq(Chunks)
          /\ Len([j \in 1..k |-> base + (j - 1)]) = k
<1>1. base' = base + k /\ QueueOk(Chunks, queue', base') /\ base' + queue'.count <= sent
  BY DEF Handles
<1>2. base \in Nat /\ sent \in Nat /\ N \in Nat /\ sent <= N /\ queue'.count \in Nat
  BY <1>1, Sizes, Limits DEF TypeOK, QueueOk
<1>3. base' \in 0..N /\ base' <= sent
  BY <1>1, <1>2
<1>4. \A j \in 1..k : base + (j - 1) \in Chunks
  BY <1>1, <1>2, <1>3 DEF Chunks
<1> QED
  BY <1>1, <1>2, <1>3, <1>4

\* A chunk that the queue refuses moves nothing.
LEMMA RefusedIs ==
    ASSUME TypeOK, InFlight, NEW k \in Nat, Handles(k), ~Takes
    PROVE k = 0
<1>1. base \notin Held /\ base \in Nat
  BY QueueIs DEF TypeOK
<1>2. base..(base + k - 1) \subseteq Held
  BY DEF Handles
<1> QED
  BY <1>1, <1>2

-----------------------------------------------------------------------------
(* The invariant.                                                          *)

\* TypeOK but for the counts of the buffers, which rest on BuffersConserved.
Typed ==
    /\ running \in BOOLEAN /\ crashed \in BOOLEAN
    /\ crypt \in {"off", "missing", "set", "checked"}
    /\ inbox \in Chunks \cup {NoUser}
    /\ queue \in [begin : Begins, count : 0..QueueSize,
                  slot : [0..(QueueSize - 1) -> [set : BOOLEAN, user : Chunks \cup {NoUser}]]]
    /\ base \in 0..N /\ delivered \in Seq(Chunks)
    /\ sent \in 0..N /\ acked \in 0..sent /\ acks \subseteq 0..(Modulus - 1)

\* The queue follows from the invariants in true numbers.
LEMMA QueueKept ==
    ASSUME QueueOk(Chunks, queue, base)', (base \notin HeldIn(queue, base))'
    PROVE /\ queue' \in [begin : Begins, count : 0..QueueSize,
                         slot : [0..(QueueSize - 1) -> [set : BOOLEAN, user : Chunks \cup {NoUser}]]]
          /\ queue'.begin % Modulus = Wire(base')
          /\ ~IsSet(queue', 0) /\ \A i \in Filled(queue') : Entry(queue', i).user = base' + i
<1>1. QueueOk(Chunks, queue', base') /\ base' \notin HeldIn(queue', base')
  OBVIOUS
<1> QED
  BY <1>1, QueueBack

LEMMA HandleTyped ==
    ASSUME TypeOK, InFlight, NEW k \in Nat, Handles(k)
    PROVE Typed' /\ InFlight'
<1> DEFINE users == [j \in 1..k |-> base + (j - 1)]
<1>1. /\ base' = base + k /\ QueueOk(Chunks, queue', base') /\ base' + queue'.count <= sent
      /\ base' \notin HeldIn(queue', base') /\ inbox' = NoUser
      /\ Callbacks(users) /\ Ack(users)
      /\ UNCHANGED <<running, crashed, consoleVars>>
  BY DEF Handles
<1>3. base' \in 0..N
  BY RunIs
<1>4. users \in Seq(Chunks) /\ Len(users) = k
  BY RunIs
<1> HIDE DEF users
<1>5. delivered' \in Seq(Chunks)
  BY <1>1, <1>4 DEF Callbacks, TypeOK
<1>6. crypt' \in {"off", "missing", "set", "checked"}
  BY <1>1 DEF Callbacks, TypeOK
<1>7. acks' \subseteq 0..(Modulus - 1)
  <2>1. CASE users = <<>>
    BY <1>1, <2>1 DEF Ack, TypeOK
  <2>2. CASE users # <<>>
    <3>0. Len(users) # 0
      BY <1>4, <2>2
    <3>1. Last(users) \in Int
      <4>1. Last(users) \in Chunks
        BY <1>4, <3>0 DEF Last
      <4> QED
        BY <4>1, Sizes DEF Chunks
    <3>2. Wire(Last(users)) \in 0..(Modulus - 1)
      BY <3>1, WireIs
    <3> QED
      BY <1>1, <2>2, <3>2 DEF Ack, TypeOK
  <2> QED
    BY <2>1, <2>2
<1>8. /\ queue' \in [begin : Begins, count : 0..QueueSize,
                     slot : [0..(QueueSize - 1) -> [set : BOOLEAN, user : Chunks \cup {NoUser}]]]
      /\ queue'.begin % Modulus = Wire(base')
      /\ ~IsSet(queue', 0) /\ \A i \in Filled(queue') : Entry(queue', i).user = base' + i
  BY <1>1, QueueKept
<1>9. Typed'
  BY <1>1, <1>3, <1>5, <1>6, <1>7, <1>8 DEF Typed, TypeOK, consoleVars
<1>10. InFlight'
  BY <1>1, <1>8 DEF InFlight, consoleVars
<1> QED
  BY <1>9, <1>10

LEMMA HandleDelivers ==
    ASSUME TypeOK, InFlight, DeliveredInOrder, AckedIsDelivered, NEW k \in Nat, Handles(k)
    PROVE DeliveredInOrder' /\ AckedIsDelivered'
<1> DEFINE users == [j \in 1..k |-> base + (j - 1)]
<1>1. base' = base + k /\ delivered' = delivered \o users /\ Ack(users) /\ UNCHANGED consoleVars
  BY DEF Handles, Callbacks
<1>2. base \in Nat /\ delivered \in Seq(Chunks) /\ Len(delivered) = base
  BY DEF TypeOK, DeliveredInOrder
<1>3. Len(users) = k /\ users \in Seq(Chunks) /\ \A j \in 1..k : users[j] = base + (j - 1)
  BY RunIs
<1> HIDE DEF users
<1>4. \A j \in 1..k : users[j] \in Int
  BY <1>2, <1>3
<1>5. Len(delivered') = base' /\ delivered' \in Seq(Chunks)
  <2>1. delivered \o users \in Seq(Chunks) /\ Len(delivered \o users) = Len(delivered) + Len(users)
    BY <1>2, <1>3
  <2> QED
    BY <1>1, <1>2, <1>3, <2>1
<1>6. ASSUME NEW i \in 1..base' PROVE delivered'[i] = i - 1
  <2>1. CASE i <= base
    <3>1. i \in DOMAIN delivered /\ delivered'[i] = delivered[i]
      BY <1>1, <1>2, <1>3, <2>1
    <3> QED
      BY <3>1 DEF DeliveredInOrder
  <2>2. CASE i > base
    <3>1. delivered'[i] = users[i - base] /\ i - base \in 1..k
      BY <1>1, <1>2, <1>3, <2>2
    <3> QED
      BY <1>2, <1>3, <2>2, <3>1
  <2> QED
    BY <1>2, <2>1, <2>2
<1>7. DeliveredInOrder'
  BY <1>5, <1>6 DEF DeliveredInOrder
<1>8. ToSet(delivered) = 0..(base - 1) /\ ToSet(delivered') = 0..(base' - 1)
  <2>1. ASSUME NEW s \in Seq(Chunks), NEW m \in Nat, Len(s) = m, \A i \in 1..m : s[i] = i - 1
        PROVE ToSet(s) = 0..(m - 1)
    <3>1. ASSUME NEW x \in 0..(m - 1) PROVE \E i \in DOMAIN s : s[i] = x
      <4>1. x + 1 \in 1..m /\ x + 1 \in DOMAIN s /\ (x + 1) - 1 = x
        BY <2>1
      <4> QED
        BY <2>1, <4>1
    <3>2. \A i \in DOMAIN s : s[i] \in 0..(m - 1)
      BY <2>1
    <3> QED
      BY <3>1, <3>2 DEF ToSet
  <2>2. \A i \in 1..base : delivered[i] = i - 1
    BY <1>2 DEF DeliveredInOrder
  <2>3. base' \in Nat
    BY <1>1, <1>2
  <2> QED
    BY <1>2, <1>5, <1>6, <2>1, <2>2, <2>3
<1>9. acks' \subseteq {Wire(n) : n \in ToSet(delivered')}
  <2>1. ToSet(delivered) \subseteq ToSet(delivered')
    BY <1>1, <1>2, <1>8
  <2>2. CASE users = <<>>
    BY <1>1, <2>1, <2>2 DEF Ack, AckedIsDelivered
  <2>3. CASE users # <<>>
    <3>1. k > 0
      BY <1>3, <2>3
    <3>2. Last(users) = base + (k - 1)
      BY <1>3, <3>1 DEF Last
    <3>3. Last(users) \in ToSet(delivered')
      BY <1>1, <1>2, <1>8, <3>1, <3>2
    <3> QED
      BY <1>1, <2>1, <2>3, <3>3 DEF Ack, AckedIsDelivered
  <2> QED
    BY <2>2, <2>3
<1>10. acked' <= Len(delivered')
  BY <1>1, <1>2, <1>5 DEF AckedIsDelivered, TypeOK, consoleVars
<1> QED
  BY <1>7, <1>9, <1>10 DEF AckedIsDelivered

\* How often a chunk is in a set of chunks: 0 or 1.
In(x, S) == IF x \in S THEN 1 ELSE 0

\* BuffersConserved in true numbers.
LEMMA BuffersAre ==
    ASSUME Queued
    PROVE BuffersConserved <=> \A n \in Chunks : loaned[n] = In(n, HeldIn(queue, base)) + (IF inbox = n THEN 1 ELSE 0)
<1>1. \A n \in Chunks : Cardinality({i \in Filled(queue) : Entry(queue, i).user = n}) = In(n, HeldIn(queue, base))
  BY FilledCount DEF Queued, In
<1> QED
  BY <1>1 DEF BuffersConserved

LEMMA BuffersNext ==
    ASSUME QueueOk(Chunks, queue', base'),
           \A n \in Chunks : loaned'[n] = In(n, HeldIn(queue', base')) + (IF inbox' = n THEN 1 ELSE 0)
    PROVE BuffersConserved'
<1>1. \A n \in Chunks : Cardinality({i \in Filled(queue') : Entry(queue', i).user = n}) = In(n, HeldIn(queue', base'))
  BY FilledCount DEF In
<1> QED
  BY <1>1 DEF BuffersConserved

LEMMA HandleReleases ==
    ASSUME TypeOK, InFlight, BuffersConserved, NEW k \in Nat, Handles(k)
    PROVE BuffersConserved' /\ loaned' \in [Chunks -> Nat]
<1> DEFINE users == [j \in 1..k |-> base + (j - 1)]
           back == IF Takes THEN {} ELSE {inbox}
           with == Held \cup (IF Takes THEN {inbox} ELSE {})
           run == base..(base + k - 1)
           bufs == SetToSeq(back) \o users
<1>1. /\ inbox \in Chunks /\ inbox' = NoUser /\ QueueOk(Chunks, queue', base') /\ Release(bufs)
      /\ HeldIn(queue', base') = with \ run /\ run \subseteq with
  BY DEF Handles
<1>2. Queued /\ Held = HeldIn(queue, base) /\ base \in Nat /\ base \notin Held
  BY QueueIs DEF TypeOK
<1>3. users \in Seq(Chunks) /\ Len(users) = k
  BY RunIs
<1>4. ASSUME NEW x \in Chunks PROVE Count(bufs, x) = In(x, back) + In(x, run)
  <2>1. CASE Takes
    <3>1. back = {} /\ IsFiniteSet({}) /\ Cardinality({}) = 0
      BY <2>1, FS_EmptySet
    <3>2. SetToSeq({}) \in Seq({}) /\ Len(SetToSeq({})) = 0
      BY <3>1, SeqIs
    <3>3. SetToSeq({}) = <<>>
      BY <3>2
    <3> HIDE DEF users
    <3>4. bufs = users
      BY <1>3, <3>1, <3>3
    <3>5. Count(users, x) = In(x, run)
      BY <1>2, RunCount DEF In, users
    <3> HIDE DEF bufs, back, run
    <3>6. In(x, back) = 0 /\ In(x, run) \in Nat
      BY <3>1 DEF In
    <3> QED
      BY <3>4, <3>5, <3>6
  <2>2. CASE ~Takes
    <3>1. back = {inbox} /\ IsFiniteSet(back)
      BY <2>2, FS_Singleton
    <3>2. k = 0
      BY <2>2, RefusedIs
    <3>3. users = <<>> /\ run = {}
      BY <1>2, <1>3, <3>2
    <3>4. SetToSeq(back) \in Seq(back)
      BY <3>1, SeqIs
    <3> HIDE DEF users, back, run
    <3>5. bufs = SetToSeq(back)
      BY <3>3, <3>4
    <3>6. Count(bufs, x) = In(x, back)
      BY <3>1, <3>5, SeqCount DEF In
    <3> QED
      BY <3>3, <3>6 DEF In
  <2> QED
    BY <2>1, <2>2
<1> HIDE DEF bufs, users
<1>5. loaned' = [n \in Chunks |-> loaned[n] - Count(bufs, n)]
  BY <1>1 DEF Release
<1>6. ASSUME NEW x \in Chunks
      PROVE loaned'[x] = In(x, HeldIn(queue', base')) + (IF inbox' = x THEN 1 ELSE 0)
  <2>1. inbox' # x
    BY <1>1, DataAssumption
  <2>2. loaned'[x] = (In(x, Held) + (IF inbox = x THEN 1 ELSE 0)) - (In(x, back) + In(x, run))
    <3>1. loaned[x] = In(x, Held) + (IF inbox = x THEN 1 ELSE 0)
      BY <1>2, BuffersAre
    <3> QED
      BY <1>4, <1>5, <3>1
  <2>3. In(x, Held) + (IF inbox = x THEN 1 ELSE 0) = In(x, with) + In(x, back)
    <3>1. CASE Takes
      <4>1. inbox \notin Held
        BY <3>1 DEF Takes
      <4> QED
        BY <3>1, <4>1 DEF In
    <3>2. CASE ~Takes
      BY <3>2 DEF In
    <3> QED
      BY <3>1, <3>2
  <2>4. In(x, with) - In(x, run) = In(x, with \ run)
    BY <1>1 DEF In
  <2>5. In(x, with) \in Int /\ In(x, back) \in Int /\ In(x, run) \in Int
    BY DEF In
  <2> HIDE DEF with, back, run
  <2> QED
    BY <1>1, <2>1, <2>2, <2>3, <2>4, <2>5
<1>7. BuffersConserved'
  BY <1>1, <1>6, BuffersNext
<1>8. loaned' \in [Chunks -> Nat]
  <2>1. \A x \in Chunks : loaned'[x] \in Nat
    BY <1>6 DEF In
  <2> QED
    BY <1>5, <2>1
<1> QED
  BY <1>7, <1>8

\* The end of the loop gives back what the queue holds.
LEMMA LoopEndsKeeps ==
    ASSUME TypeOK, InFlight, BuffersConserved, LoopEnds
    PROVE Typed' /\ InFlight' /\ BuffersConserved' /\ loaned' \in [Chunks -> Nat] /\ Held' = {}
<1>1. /\ queue' = EmptyQueue(queue.begin) /\ inbox = NoUser /\ running' = FALSE
      /\ Release(SetToSeq(UsersAt(queue, Filled(queue))))
      /\ UNCHANGED <<crypt, crashed, inbox, base, delivered, consoleVars, acks>>
  BY DEF LoopEnds
<1>2. /\ Queued /\ Held = HeldIn(queue, base) /\ base \in Nat /\ base <= sent /\ Num(queue.begin, base)
      /\ queue.begin \in Begins
      /\ sent \in Nat
  BY QueueIs DEF TypeOK, Queued, QueueOk
<1>3. /\ QueueOk(Chunks, queue', base') /\ HeldIn(queue', base') = {} /\ queue'.count = 0
  BY <1>1, <1>2, EmptyIs
<1>4. /\ queue' \in [begin : Begins, count : 0..QueueSize,
                     slot : [0..(QueueSize - 1) -> [set : BOOLEAN, user : Chunks \cup {NoUser}]]]
      /\ queue'.begin % Modulus = Wire(base')
      /\ ~IsSet(queue', 0) /\ \A i \in Filled(queue') : Entry(queue', i).user = base' + i
  BY <1>3, QueueKept
<1>5. Typed'
  BY <1>1, <1>4 DEF Typed, TypeOK, consoleVars
<1>6. InFlight'
  BY <1>1, <1>2, <1>3, <1>4 DEF InFlight, consoleVars
<1>7. UsersAt(queue, Filled(queue)) = Held
  BY <1>2, FilledIs DEF UsersAt, Held, Queued
<1>8. IsFiniteSet(Held)
  <2>1. queue.count \in Nat
    BY <1>2, Sizes DEF Queued, QueueOk
  <2>2. IsFiniteSet(base..(base + queue.count - 1))
    BY <1>2, <2>1, FS_Interval
  <2>3. Held \subseteq base..(base + queue.count - 1)
    BY <1>2 DEF HeldIn
  <2> QED
    BY <2>2, <2>3, FS_Subset
<1>9. loaned' = [n \in Chunks |-> loaned[n] - Count(SetToSeq(Held), n)]
  BY <1>1, <1>7 DEF Release
<1>10. ASSUME NEW x \in Chunks
       PROVE loaned'[x] = In(x, HeldIn(queue', base')) + (IF inbox' = x THEN 1 ELSE 0)
  <2>1. Count(SetToSeq(Held), x) = In(x, Held)
    BY <1>8, SeqCount DEF In
  <2>2. loaned[x] = In(x, Held) + (IF inbox = x THEN 1 ELSE 0)
    BY <1>2, BuffersAre
  <2>3. inbox # x /\ inbox' # x
    BY <1>1, DataAssumption
  <2>4. loaned'[x] = loaned[x] - In(x, Held)
    BY <1>9, <2>1
  <2>5. In(x, Held) \in Nat /\ In(x, HeldIn(queue', base')) = 0
    BY <1>3 DEF In
  <2> QED
    BY <2>2, <2>3, <2>4, <2>5
<1>11. BuffersConserved'
  BY <1>3, <1>10, BuffersNext
<1>12. loaned' \in [Chunks -> Nat]
  <2>1. \A x \in Chunks : loaned'[x] \in Nat
    BY <1>10 DEF In
  <2> QED
    BY <1>9, <2>1
<1>13. Held' = {}
  BY <1>3 DEF Held, Filled
<1> QED
  BY <1>5, <1>6, <1>11, <1>12, <1>13

LEMMA ArrivesKeeps ==
    ASSUME TypeOK, InFlight, BuffersConserved, NEW m \in Chunks, Arrives(m)
    PROVE TypeOK' /\ InFlight' /\ BuffersConserved'
<1>1. /\ inbox = NoUser /\ m < sent /\ inbox' = m /\ loaned' = [loaned EXCEPT ![m] = @ + 1]
      /\ UNCHANGED <<running, crypt, crashed, queue, base, delivered, consoleVars, acks>>
  BY DEF Arrives
<1>2. loaned' \in [Chunks -> Nat]
  BY <1>1 DEF TypeOK
<1>3. TypeOK'
  BY <1>1, <1>2 DEF TypeOK, consoleVars
<1>4. InFlight'
  BY <1>1 DEF InFlight, consoleVars
<1>5. BuffersConserved'
  <2>1. Queued
    BY QueueIs
  <2>2. ASSUME NEW x \in Chunks
        PROVE loaned'[x] = In(x, HeldIn(queue', base')) + (IF inbox' = x THEN 1 ELSE 0)
    <3>1. loaned[x] = In(x, HeldIn(queue, base)) + (IF inbox = x THEN 1 ELSE 0)
      BY <2>1, BuffersAre
    <3>2. inbox # x /\ In(x, HeldIn(queue, base)) \in Nat /\ HeldIn(queue', base') = HeldIn(queue, base)
      BY <1>1, DataAssumption DEF In
    <3>3. loaned'[x] = loaned[x] + (IF m = x THEN 1 ELSE 0)
      BY <1>1, <3>1, <3>2 DEF TypeOK
    <3> QED
      BY <1>1, <3>1, <3>2, <3>3
  <2>3. QueueOk(Chunks, queue', base')
    BY <1>1, <2>1 DEF Queued
  <2> QED
    BY <2>2, <2>3, BuffersNext
<1> QED
  BY <1>3, <1>4, <1>5

\* An ack on the network names a chunk the callback has seen, so the console
\* does not believe more than that.
LEMMA AckArrivesKeeps ==
    ASSUME TypeOK, InFlight, DeliveredInOrder, AckedIsDelivered, AckArrives
    PROVE TypeOK' /\ AckedIsDelivered'
<1>1. PICK n \in 0..(sent - 1) :
        /\ Wire(n) \in acks /\ acked' = n + 1
        /\ UNCHANGED <<running, crypt, crashed, inbox, queue, base, delivered, loaned, sent, acks>>
  BY DEF AckArrives
<1>2. sent \in Nat /\ sent <= N /\ N \in Nat /\ N <= Modulus /\ delivered \in Seq(Chunks)
  BY Limits DEF TypeOK
<1>3. PICK m \in ToSet(delivered) : Wire(n) = Wire(m)
  BY <1>1 DEF AckedIsDelivered
<1>4. PICK i \in DOMAIN delivered : m = i - 1
  BY DEF ToSet, DeliveredInOrder
<1>5. m \in 0..(N - 1) /\ i \in 1..Len(delivered) /\ Len(delivered) \in Nat
  <2>1. m \in Chunks
    BY <1>2 DEF ToSet
  <2> QED
    BY <1>2, <2>1 DEF Chunks
<1>6. n = m
  <2>1. n \in Int /\ m \in Int /\ n - m < Modulus /\ m - n < Modulus
    BY <1>1, <1>2, <1>5, Sizes
  <2> QED
    BY <1>3, <2>1, WireOnce
<1>7. n + 1 <= Len(delivered) /\ n + 1 \in 0..sent
  BY <1>2, <1>4, <1>5, <1>6
<1> QED
  BY <1>1, <1>7 DEF TypeOK, AckedIsDelivered

IInv == DataChannelInv /\ AckedIsDelivered

LEMMA InitHolds == Init => IInv
<1> SUFFICES ASSUME Init PROVE IInv
  OBVIOUS
<1>1. /\ running = TRUE /\ crypt \in {"off", "missing"} /\ crashed = FALSE
      /\ inbox = NoUser /\ queue = EmptyQueue(Wire(0)) /\ base = 0
      /\ delivered = <<>> /\ loaned = [n \in Chunks |-> 0]
      /\ sent = 0 /\ acked = 0 /\ acks = {} /\ N \in Nat
  BY Limits DEF Init
<1>2. QueueOk(Chunks, queue, base) /\ HeldIn(queue, base) = {} /\ queue.count = 0
  <2>1. Num(Wire(0), 0) /\ Wire(0) \in Begins
    BY WireNum
  <2> QED
    BY <1>1, <2>1, EmptyIs
<1>3. /\ queue \in [begin : Begins, count : 0..QueueSize,
                    slot : [0..(QueueSize - 1) -> [set : BOOLEAN, user : Chunks \cup {NoUser}]]]
      /\ queue.begin % Modulus = Wire(base)
      /\ ~IsSet(queue, 0) /\ \A i \in Filled(queue) : Entry(queue, i).user = base + i
  BY <1>2, QueueBack
<1>4. TypeOK
  <2>1. /\ running \in BOOLEAN /\ crashed \in BOOLEAN /\ inbox \in Chunks \cup {NoUser}
        /\ crypt \in {"off", "missing", "set", "checked"}
        /\ base \in 0..N /\ delivered \in Seq(Chunks) /\ loaned \in [Chunks -> Nat]
        /\ sent \in 0..N /\ acked \in 0..sent /\ acks \subseteq 0..(Modulus - 1)
    <3>1. /\ running = TRUE /\ crypt \in {"off", "missing"} /\ crashed = FALSE /\ inbox = NoUser /\ base = 0
          /\ delivered = <<>> /\ loaned = [n \in Chunks |-> 0]
          /\ sent = 0 /\ acked = 0 /\ acks = {} /\ N \in Nat
      BY <1>1
    <3>2. delivered \in Seq(Chunks) /\ loaned \in [Chunks -> Nat]
      BY <3>1
    <3>3. base \in 0..N /\ sent \in 0..N /\ acked \in 0..sent
      BY <3>1
    <3>4. crypt \in {"off", "missing", "set", "checked"} /\ inbox \in Chunks \cup {NoUser}
      BY <3>1
    <3> QED
      BY <3>1, <3>2, <3>3, <3>4
  <2> QED
    BY <1>3, <2>1 DEF TypeOK
<1>5. InFlight
  BY <1>1, <1>2, <1>3 DEF InFlight
<1>6. DeliveredInOrder /\ AckedIsDelivered
  BY <1>1 DEF DeliveredInOrder, AckedIsDelivered
<1>7. BuffersConserved
  <2>1. \A n \in Chunks : loaned[n] = In(n, HeldIn(queue, base)) + (IF inbox = n THEN 1 ELSE 0)
    BY <1>1, <1>2, DataAssumption DEF In
  <2> QED
    BY <1>2, <2>1, BuffersAre DEF Queued
<1> QED
  BY <1>4, <1>5, <1>6, <1>7 DEF IInv, DataChannelInv

LEMMA Inductive == IInv /\ [Next]_vars => IInv'
<1> SUFFICES ASSUME IInv, [Next]_vars PROVE IInv'
  OBVIOUS
<1>1. TypeOK /\ InFlight /\ DeliveredInOrder /\ BuffersConserved /\ AckedIsDelivered
  BY DEF IInv, DataChannelInv
<1>2. CASE ConsoleSends
  <2>1. /\ sent < N /\ sent' = sent + 1
        /\ UNCHANGED <<running, crypt, crashed, inbox, queue, base, delivered, loaned, acked, acks>>
    BY <1>2 DEF ConsoleSends
  <2>2. sent \in Nat /\ N \in Nat
    BY <1>1, Limits DEF TypeOK
  <2>3. TypeOK'
    BY <1>1, <2>1, <2>2 DEF TypeOK
  <2>4. InFlight'
    <3>1. base + queue.count \in Int
      BY <1>1, Sizes DEF TypeOK
    <3>2. (base + queue.count)' <= sent'
      BY <1>1, <2>1, <2>2, <3>1 DEF InFlight
    <3>3. inbox' # NoUser => inbox' < sent'
      BY <1>1, <2>1, <2>2 DEF InFlight, TypeOK, Chunks
    <3> QED
      BY <1>1, <2>1, <3>2, <3>3 DEF InFlight
  <2>5. DeliveredInOrder' /\ BuffersConserved' /\ AckedIsDelivered'
    BY <1>1, <2>1 DEF DeliveredInOrder, BuffersConserved, AckedIsDelivered
  <2> QED
    BY <2>3, <2>4, <2>5 DEF IInv, DataChannelInv
<1>3. CASE AckArrives
  <2>1. UNCHANGED <<inbox, queue, base, delivered, loaned, sent>>
    BY <1>3 DEF AckArrives
  <2>2. TypeOK' /\ AckedIsDelivered'
    BY <1>1, <1>3, AckArrivesKeeps
  <2>3. InFlight' /\ DeliveredInOrder' /\ BuffersConserved'
    BY <1>1, <2>1 DEF InFlight, DeliveredInOrder, BuffersConserved
  <2> QED
    BY <2>2, <2>3 DEF IInv, DataChannelInv
<1>4. CASE Handle
  <2>1. PICK k \in Nat : Handles(k)
    BY <1>1, <1>4, HandleIs
  <2>2. Typed' /\ InFlight'
    BY <1>1, <2>1, HandleTyped
  <2>3. DeliveredInOrder' /\ AckedIsDelivered'
    BY <1>1, <2>1, HandleDelivers
  <2>4. BuffersConserved' /\ loaned' \in [Chunks -> Nat]
    BY <1>1, <2>1, HandleReleases
  <2>5. TypeOK'
    BY <2>2, <2>4 DEF Typed, TypeOK
  <2> QED
    BY <2>2, <2>3, <2>4, <2>5 DEF IInv, DataChannelInv
<1>5. CASE Recheck
  <2>1. /\ crypt' \in {"checked", crypt} /\ crashed' \in BOOLEAN
        /\ UNCHANGED <<running, inbox, queue, base, delivered, loaned, consoleVars, acks>>
    BY <1>1, <1>5 DEF Recheck, TypeOK
  <2>2. TypeOK'
    BY <1>1, <2>1 DEF TypeOK, consoleVars
  <2>3. InFlight' /\ DeliveredInOrder' /\ BuffersConserved' /\ AckedIsDelivered'
    BY <1>1, <2>1 DEF InFlight, DeliveredInOrder, BuffersConserved, AckedIsDelivered, consoleVars
  <2> QED
    BY <2>2, <2>3 DEF IInv, DataChannelInv
<1>6. CASE LoopEnds
  <2>1. Typed' /\ InFlight' /\ BuffersConserved' /\ loaned' \in [Chunks -> Nat]
    BY <1>1, <1>6, LoopEndsKeeps
  <2>2. TypeOK'
    BY <2>1 DEF Typed, TypeOK
  <2>3. DeliveredInOrder' /\ AckedIsDelivered'
    BY <1>1, <1>6 DEF LoopEnds, DeliveredInOrder, AckedIsDelivered, consoleVars
  <2> QED
    BY <2>1, <2>2, <2>3 DEF IInv, DataChannelInv
<1>7. ASSUME NEW n \in Chunks, Arrives(n) PROVE IInv'
  <2>1. TypeOK' /\ InFlight' /\ BuffersConserved'
    BY <1>1, <1>7, ArrivesKeeps
  <2>2. DeliveredInOrder' /\ AckedIsDelivered'
    BY <1>1, <1>7 DEF Arrives, DeliveredInOrder, AckedIsDelivered, consoleVars
  <2> QED
    BY <2>1, <2>2 DEF IInv, DataChannelInv
<1>8. CASE UNCHANGED vars
  <2>1. UNCHANGED <<running, crypt, crashed, inbox, queue, base, delivered, loaned, sent, acked, acks>>
    BY <1>8 DEF vars, consoleVars
  <2>2. TypeOK' /\ InFlight'
    BY <1>1, <2>1 DEF TypeOK, InFlight
  <2>3. DeliveredInOrder' /\ BuffersConserved' /\ AckedIsDelivered'
    BY <1>1, <2>1 DEF DeliveredInOrder, BuffersConserved, AckedIsDelivered
  <2> QED
    BY <2>2, <2>3 DEF IInv, DataChannelInv
<1> QED
  BY <1>2, <1>3, <1>4, <1>5, <1>6, <1>7, <1>8 DEF Next

LEMMA Invariance == Spec => []IInv
<1>1. Init /\ [][Next]_vars => []IInv
  BY InitHolds, Inductive, PTL
<1> QED
  BY <1>1, PTL DEF Spec

\* The control channel is reliable, whatever the network loses, repeats and
\* reorders and wherever the numbers wrap: the callback sees every chunk once and
\* in order, the window never outgrows the ring (the assert of
\* chiaki_reorder_queue_push), and every receive buffer is released exactly once.
THEOREM ChannelSafe == Spec => []DataChannelInv
<1>1. IInv => DataChannelInv
  BY DEF IInv
<1> QED
  BY <1>1, Invariance, PTL

\* takion_flush_data_queue never acks a chunk that the callback has not seen, so
\* the console never forgets one that is still missing.
THEOREM AckSafe == Spec => []AckedIsDelivered
<1>1. IInv => AckedIsDelivered
  BY DEF IInv
<1> QED
  BY <1>1, Invariance, PTL

-----------------------------------------------------------------------------
(* The channel implements Reassembly.                                      *)

nextBar == IF running THEN base ELSE -1
heldBar == IF running THEN Held ELSE {}

\* The first missing number is found just behind the run that is complete.
LEMMA MissingIs ==
    ASSUME NEW b \in Nat, NEW k \in Nat, NEW top \in Nat, NEW H, H \subseteq b..top,
           b..(b + k - 1) \subseteq H, b + k \notin H
    PROVE Unwrapped!NextMissing(b, H) = b + k
<1> DEFINE T == H \cup {b}
           R == {t - b : t \in T}
           D == {m \in b..(Max(T) + 1) : m \notin H}
<1>1. \A t \in T : t \in Nat /\ b <= t /\ (t <= top \/ t = b)
  OBVIOUS
<1>2. PICK g \in T : \A t \in T : t <= g
  <2> DEFINE big == top + b
             back == {big - t : t \in T}
  <2>1. back \subseteq Nat /\ back # {} /\ big \in Nat
    BY <1>1
  <2>2. PICK m \in back : \A y \in back : m <= y
    BY <2>1, Least
  <2>3. PICK g \in T : m = big - g
    BY <2>2
  <2>4. \A t \in T : big - g <= big - t
    BY <2>2, <2>3
  <2>5. \A t \in T : t <= g
    BY <1>1, <2>1, <2>4
  <2> QED
    BY <2>5
<1>3. Max(T) = g
  <2>1. T \subseteq Int
    BY <1>1
  <2> HIDE DEF T
  <2> QED
    BY <1>2, <2>1, MaxIs
<1>4. b + k <= g + 1
  <2>1. CASE k = 0
    BY <1>1, <1>2, <2>1
  <2>2. CASE k # 0
    <3>1. b + k - 1 \in T /\ g \in Nat
      BY <1>1, <1>2, <2>2
    <3>2. b + k - 1 <= g
      BY <1>2, <3>1
    <3> QED
      BY <3>1, <3>2
  <2> QED
    BY <2>1, <2>2
<1>5. b + k \in D
  BY <1>1, <1>2, <1>3, <1>4
<1>6. \A m \in D : b + k <= m /\ m \in Int
  <2> SUFFICES ASSUME NEW m \in D PROVE b + k <= m /\ m \in Int
    OBVIOUS
  <2>1. m \in Int /\ b <= m /\ m \notin H
    BY <1>1, <1>2, <1>3
  <2>2. m \notin b..(b + k - 1)
    BY <2>1
  <2> QED
    BY <2>1, <2>2
<1>7. Min(D) = b + k
  <2> HIDE DEF D
  <2>1. D \subseteq Int
    BY <1>6
  <2> QED
    BY <1>5, <1>6, <2>1, MinIs
<1> QED
  BY <1>7 DEF Unwrapped!NextMissing, Unwrapped!Min, Unwrapped!Max, Min, Max

LEMMA HandleReceives ==
    ASSUME TypeOK, InFlight, NEW k \in Nat, Handles(k), running
    PROVE \/ Unwrapped!Receive(inbox) /\ inbox \in Chunks
          \/ UNCHANGED <<nextBar, heldBar>>
<1> DEFINE with == Held \cup (IF Takes THEN {inbox} ELSE {})
           run == base..(base + k - 1)
<1>1. /\ inbox \in Chunks /\ base' = base + k /\ QueueOk(Chunks, queue', base')
      /\ HeldIn(queue', base') = with \ run /\ run \subseteq with /\ base' \notin with /\ running' = running
  BY DEF Handles
<1>2. Held = HeldIn(queue, base) /\ Held' = HeldIn(queue', base')
  <2>1. Held = HeldIn(queue, base)
    BY QueueIs
  <2>2. HeldIn(queue', base') = {base' + i : i \in Filled(queue')}
    BY <1>1, FilledIs
  <2> QED
    BY <2>1, <2>2 DEF Held
<1>3. base \in Nat /\ N \in Nat /\ QueueSize \in Nat /\ inbox \in Nat /\ inbox < N
  BY <1>1, Sizes, Limits DEF TypeOK, Chunks
<1>4. Held \subseteq base..N
  <2>1. queue.count \in Nat /\ base + queue.count <= N
    <3>1. base + queue.count <= sent /\ sent <= N /\ sent \in Nat /\ queue.count \in Nat
      BY QueueIs, Sizes DEF Queued, QueueOk
    <3> QED
      BY <1>3, <3>1
  <2> QED
    BY <1>2, <1>3, <2>1 DEF HeldIn
<1>5. CASE ~Takes
  <2>1. k = 0
    BY <1>5, RefusedIs
  <2>2. run = {} /\ base' = base
    BY <1>1, <1>3, <2>1
  <2>3. Held' = Held
    BY <1>1, <1>2, <1>5, <2>2
  <2> QED
    BY <1>1, <2>2, <2>3 DEF nextBar, heldBar
<1>6. CASE Takes
  <2>1. inbox >= base /\ inbox < base + QueueSize /\ inbox \notin Held /\ with = Held \cup {inbox}
    BY <1>6 DEF Takes
  <2>2. heldBar = Held /\ nextBar = base /\ heldBar' = Held' /\ nextBar' = base'
    BY <1>1 DEF nextBar, heldBar
  <2>3. Unwrapped!NextMissing(base, with) = base + k
    <3>1. with \subseteq base..N
      BY <1>3, <1>4, <2>1
    <3>2. base..(base + k - 1) \subseteq with /\ base + k \notin with
      BY <1>1
    <3> HIDE DEF with
    <3> QED
      BY <1>3, <3>1, <3>2, MissingIs
  <2>4. Held' = {h \in with : h > base + k}
    <3>1. \A h \in with : h \in Nat /\ h >= base /\ h # base + k
      BY <1>1, <1>3, <1>4, <2>1
    <3>2. \A h \in with : h \notin run <=> h > base + k
      BY <1>3, <3>1
    <3> HIDE DEF with, run
    <3> QED
      BY <1>1, <1>2, <3>2
  <2>5. Unwrapped!Floor(inbox) = base
    <3>1. inbox + 1 - QueueSize <= base
      BY <1>3, <2>1
    <3> QED
      BY <2>2, <3>1 DEF Unwrapped!Floor, nextBar
  <2>6. Unwrapped!Kept(inbox) = with
    <3>1. \A h \in Held : h >= base
      BY <1>3, <1>4
    <3> QED
      BY <2>1, <2>2, <2>5, <3>1 DEF Unwrapped!Kept, heldBar
  <2>7. Unwrapped!Wanted(inbox)
    BY <2>1, <2>2 DEF Unwrapped!Wanted, nextBar, heldBar
  <2>8. Unwrapped!Settle(base, with)
    BY <1>1, <2>2, <2>3, <2>4 DEF Unwrapped!Settle, nextBar, heldBar
  <2>9. nextBar # -1
    BY <1>3, <2>2
  <2> HIDE DEF with
  <2>10. Unwrapped!Receive(inbox)
    BY <2>5, <2>6, <2>7, <2>8, <2>9 DEF Unwrapped!Receive, Unwrapped!Unset, nextBar
  <2> QED
    BY <1>1, <2>10
<1> QED
  BY <1>5, <1>6

LEMMA InitReassembles == Init => Unwrapped!Init
<1> SUFFICES ASSUME Init PROVE Unwrapped!Init
  OBVIOUS
<1>1. running = TRUE /\ base = 0 /\ queue = EmptyQueue(Wire(0))
  BY DEF Init
<1>2. Held = {}
  <2>1. queue.count = 0
    BY <1>1, WireNum, EmptyIs
  <2> QED
    BY <2>1 DEF Held, Filled
<1>3. 0 \in Chunks
  BY DataAssumption DEF Chunks
<1> QED
  BY <1>1, <1>2, <1>3 DEF Unwrapped!Init

LEMMA StepReassembles == IInv /\ [Next]_vars => [Unwrapped!Next]_(Unwrapped!reassemblyVars)
<1> SUFFICES ASSUME IInv, [Next]_vars PROVE Unwrapped!Next \/ UNCHANGED <<nextBar, heldBar>>
  BY DEF Unwrapped!reassemblyVars, nextBar, heldBar
<1>1. TypeOK /\ InFlight
  BY DEF IInv, DataChannelInv
<1>2. ASSUME UNCHANGED <<running, base, queue>> PROVE UNCHANGED <<nextBar, heldBar>>
  BY <1>2 DEF nextBar, heldBar, Held
<1>3. CASE ConsoleSends \/ AckArrives \/ Recheck \/ (\E n \in Chunks : Arrives(n)) \/ UNCHANGED vars
  <2>1. UNCHANGED <<running, base, queue>>
    BY <1>3 DEF ConsoleSends, AckArrives, Recheck, Arrives, vars
  <2> QED
    BY <1>2, <2>1
<1>4. CASE Handle
  <2>1. running
    BY <1>4 DEF Handle, Alive
  <2>2. PICK k \in Nat : Handles(k)
    BY <1>1, <1>4, HandleIs
  <2>3. \/ Unwrapped!Receive(inbox) /\ inbox \in Chunks
        \/ UNCHANGED <<nextBar, heldBar>>
    BY <1>1, <2>1, <2>2, HandleReceives
  <2> QED
    BY <2>3 DEF Unwrapped!Next
<1>5. CASE LoopEnds
  <2>1. running' = FALSE
    BY <1>5 DEF LoopEnds
  <2>2. Unwrapped!Stop
    BY <2>1 DEF Unwrapped!Stop, Unwrapped!Unset
  <2> QED
    BY <2>2 DEF Unwrapped!Next
<1> QED
  BY <1>3, <1>4, <1>5 DEF Next

\* The ring buffer with its wrapped numbers and its stale slots does what a reader
\* expects that keeps packets in a set under their true numbers.
THEOREM Implements == Spec => IsReassembly
<1>1. Spec => Unwrapped!Init
  BY InitReassembles, PTL DEF Spec
<1>2. Spec => [][Unwrapped!Next]_(Unwrapped!reassemblyVars)
  <2>1. Spec => [][Next]_vars
    BY PTL DEF Spec
  <2> QED
    BY <2>1, Invariance, StepReassembles, PTL
<1> QED
  BY <1>1, <1>2 DEF IsReassembly, Unwrapped!Spec

-----------------------------------------------------------------------------
(* The flush of the video queue.                                           *)

IsAv(v) == \E q, i, w, s, b, o, f :
    v = [queue |-> q, initialized |-> i, wait |-> w, waitSeq |-> s, base |-> b, out |-> o, freed |-> f]

HeldOf(v) == HeldIn(v.queue, v.base)
RunFrom(s, k) == [j \in 1..k |-> s + (j - 1)]

\* Everything but the queue and the number of its begin is as it was.
SameBut(v, w) ==
    /\ w.initialized = v.initialized /\ w.wait = v.wait /\ w.waitSeq = v.waitSeq
    /\ w.out = v.out /\ w.freed = v.freed

\* The true number follows the begin, which moves by less than the number space.
LEMMA MovedIs ==
    ASSUME NEW v, IsAv(v), v.base \in Nat, Num(v.queue.begin, v.base),
           NEW k \in 0..(Modulus - 1), NEW q, Num(q.begin, v.base + k)
    PROVE /\ IsAv(Moved(v, q)) /\ Moved(v, q).queue = q /\ Moved(v, q).base = v.base + k
          /\ SameBut(v, Moved(v, q))
<1> DEFINE c == v.base + k
           m == Moved(v, q)
<1>1. (q.begin - v.queue.begin) % Modulus = k
  <2>1. c \in Int /\ c - v.base = k /\ v.base \in Int
    BY Sizes
  <2>2. k % Modulus = k
    BY Sizes, ModSmall
  <2> HIDE DEF c
  <2>3. Num(q.begin, c)
    BY DEF c
  <2>4. (q.begin - v.queue.begin) % Modulus = (c - v.base) % Modulus
    BY <2>1, <2>3, AheadNum
  <2> QED
    BY <2>1, <2>2, <2>4
<1>2. PICK q0, i, w, s, b, o, f :
        v = [queue |-> q0, initialized |-> i, wait |-> w, waitSeq |-> s, base |-> b, out |-> o, freed |-> f]
  BY DEF IsAv
<1>3. m = [v EXCEPT !.queue = q, !.base = v.base + k]
  BY <1>1 DEF Moved
<1> HIDE DEF m
<1>4. m = [queue |-> q, initialized |-> i, wait |-> w, waitSeq |-> s, base |-> v.base + k, out |-> o, freed |-> f]
  BY <1>2, <1>3
<1>5. IsAv(m)
  BY <1>4 DEF IsAv
<1>6. m.queue = q /\ m.base = v.base + k
  BY <1>4
<1>7. SameBut(v, m)
  BY <1>2, <1>4 DEF SameBut
<1> QED
  BY <1>5, <1>6, <1>7 DEF m

\* The k packets from the begin are dispatched and released.
Pulls(U, v, w, k) ==
    /\ IsAv(w) /\ w.base = v.base + k /\ QueueOk(U, w.queue, w.base)
    /\ w.queue.count = v.queue.count - k
    /\ v.base..(v.base + k - 1) \subseteq HeldOf(v) /\ w.base \notin HeldOf(v)
    /\ HeldOf(w) = HeldOf(v) \ v.base..(v.base + k - 1)
    /\ w.out = v.out \o RunFrom(v.base, k) /\ w.freed = v.freed \o RunFrom(v.base, k)
    /\ w.wait = IF k > 0 THEN "off" ELSE v.wait
    /\ w.waitSeq = v.waitSeq /\ w.initialized = v.initialized

LEMMA PullInOrderIs ==
    ASSUME NEW U, NEW v, IsAv(v), QueueOk(U, v.queue, v.base)
    PROVE \E k \in 0..v.queue.count : Pulls(U, v, PullInOrder(v), k)
<1> DEFINE p == PullAll(v.queue)
           m == Moved(v, p.queue)
           w == PullInOrder(v)
<1>1. Num(v.queue.begin, v.base) /\ v.base \in Nat /\ v.queue.count \in Nat /\ v.queue.count <= QueueSize
  BY EndIs
<1>2. PICK k \in 0..v.queue.count : Pulled(U, v.queue, v.base, p, k)
  BY PullIs
<1>3. w = [m EXCEPT !.out = m.out \o p.users, !.freed = m.freed \o p.users,
                    !.wait = IF p.users # <<>> THEN "off" ELSE m.wait]
  BY DEF PullInOrder
<1> HIDE DEF p, w
<1>4. Num(p.queue.begin, v.base + k) /\ k \in 0..(Modulus - 1) /\ k \in Nat
  <2>1. Num(p.queue.begin, v.base + k)
    BY <1>2 DEF Pulled, QueueOk
  <2> QED
    BY <1>1, <2>1, Sizes
<1>5. IsAv(m) /\ m.queue = p.queue /\ m.base = v.base + k /\ SameBut(v, m)
  BY <1>1, <1>4, MovedIs
<1> HIDE DEF m
<1>6. PICK q0, i, wt, s, b, o, f :
        m = [queue |-> q0, initialized |-> i, wait |-> wt, waitSeq |-> s, base |-> b, out |-> o, freed |-> f]
  BY <1>5 DEF IsAv
<1> DEFINE run == p.users
           wait == IF run # <<>> THEN "off" ELSE m.wait
           out == m.out \o run
           freed == m.freed \o run
<1> HIDE DEF run, wait, out, freed
<1>7. w = [m EXCEPT !.out = out, !.freed = freed, !.wait = wait]
  BY <1>3 DEF run, wait, out, freed
<1>8. w = [queue |-> q0, initialized |-> i, wait |-> wait, waitSeq |-> s, base |-> b, out |-> out, freed |-> freed]
  BY <1>6, <1>7
<1>9. /\ w.queue = m.queue /\ w.initialized = m.initialized /\ w.waitSeq = m.waitSeq /\ w.base = m.base
      /\ w.out = out /\ w.freed = freed /\ w.wait = wait
  BY <1>6, <1>8
<1>10. IsAv(w)
  BY <1>8 DEF IsAv
<1>11. run = RunFrom(v.base, k)
  BY <1>2 DEF Pulled, RunFrom, run
<1>12. run # <<>> <=> k > 0
  <2>1. Len(RunFrom(v.base, k)) = k /\ RunFrom(v.base, k) \in Seq(Int)
    BY <1>1, <1>4 DEF RunFrom
  <2> QED
    BY <1>4, <1>11, <2>1
<1>13. /\ QueueOk(U, w.queue, w.base) /\ w.queue.count = v.queue.count - k /\ HeldOf(w) = HeldIn(p.queue, v.base + k)
  BY <1>2, <1>5, <1>9 DEF Pulled, HeldOf
<1>14. /\ v.base..(v.base + k - 1) \subseteq HeldOf(v) /\ w.base \notin HeldOf(v)
       /\ HeldOf(w) = HeldOf(v) \ v.base..(v.base + k - 1)
  BY <1>2, <1>5, <1>9, <1>13 DEF Pulled, HeldOf
<1>15. /\ w.out = v.out \o RunFrom(v.base, k) /\ w.freed = v.freed \o RunFrom(v.base, k)
       /\ w.wait = IF k > 0 THEN "off" ELSE v.wait
       /\ w.waitSeq = v.waitSeq /\ w.initialized = v.initialized
  BY <1>5, <1>9, <1>11, <1>12 DEF SameBut, out, freed, wait
<1>16. Pulls(U, v, w, k)
  BY <1>5, <1>9, <1>10, <1>13, <1>14, <1>15 DEF Pulls
<1> QED
  BY <1>16 DEF w

\* What a flush does: it dispatches and releases the k packets from s on, s being the
\* begin or, when that is missing and has been waited for, the first packet held; and it
\* leaves the queue with a missing begin and, unless it is empty, a wait for just that.
Flushed(U, v, w, s, k) ==
    /\ IsAv(w) /\ QueueOk(U, w.queue, w.base) /\ w.base = s + k /\ v.base <= s
    /\ w.base + w.queue.count = v.base + v.queue.count
    /\ s..(s + k - 1) \subseteq HeldOf(v) /\ w.base \notin HeldOf(v)
    /\ HeldOf(w) = HeldOf(v) \ s..(s + k - 1)
    /\ s = v.base \/ (v.base \notin HeldOf(v) /\ s \in HeldOf(v) /\ \A x \in HeldOf(v) : s <= x)
    /\ w.out = v.out \o RunFrom(s, k) /\ w.freed = v.freed \o RunFrom(s, k)
    /\ w.queue.count > 0 => w.wait # "off" /\ w.waitSeq = w.queue.begin
    /\ w.wait \in {"off", "running", "expired"} /\ w.waitSeq \in Begins
    /\ w.initialized = v.initialized

LEMMA StartWaitIs ==
    ASSUME NEW v, IsAv(v)
    PROVE /\ IsAv(StartWait(v)) /\ StartWait(v).queue = v.queue /\ StartWait(v).base = v.base
          /\ StartWait(v).initialized = v.initialized /\ StartWait(v).out = v.out
          /\ StartWait(v).freed = v.freed /\ StartWait(v).wait = "running"
          /\ StartWait(v).waitSeq = v.queue.begin
<1> DEFINE w == StartWait(v)
<1>1. PICK q, i, wt, s, b, o, f :
        v = [queue |-> q, initialized |-> i, wait |-> wt, waitSeq |-> s, base |-> b, out |-> o, freed |-> f]
  BY DEF IsAv
<1>2. w = [v EXCEPT !.wait = "running", !.waitSeq = v.queue.begin]
  BY DEF StartWait
<1> HIDE DEF w
<1>3. w = [queue |-> q, initialized |-> i, wait |-> "running", waitSeq |-> v.queue.begin, base |-> b, out |-> o, freed |-> f]
  BY <1>1, <1>2
<1>4. IsAv(w)
  BY <1>3 DEF IsAv
<1>5. /\ w.queue = v.queue /\ w.base = v.base /\ w.initialized = v.initialized /\ w.out = v.out
      /\ w.freed = v.freed /\ w.wait = "running" /\ w.waitSeq = v.queue.begin
  BY <1>1, <1>3
<1> QED
  BY <1>4, <1>5 DEF w

\* The first place with an element.
LEMMA FirstSetIs ==
    ASSUME NEW U, NEW q, NEW b, QueueOk(U, q, b), HeldIn(q, b) # {}
    PROVE /\ FirstSet(q) \in 0..(q.count - 1) /\ b + FirstSet(q) \in HeldIn(q, b)
          /\ \A x \in HeldIn(q, b) : b + FirstSet(q) <= x
<1> DEFINE F == {k \in 0..q.count : k = q.count \/ IsSet(q, k)}
           f == FirstSet(q)
<1>1. b \in Nat /\ q.count \in Nat
  BY EndIs
<1>2. \A i \in 0..(q.count - 1) : IsSet(q, i) <=> b + i \in HeldIn(q, b)
  <2>1. \A i \in 0..(q.count - 1) : Entry(q, i).set <=> b + i \in HeldIn(q, b)
    BY FilledIs
  <2>2. \A i \in 0..(q.count - 1) : i < q.count
    BY <1>1
  <2> QED
    BY <2>1, <2>2 DEF IsSet
<1>3. \A x \in HeldIn(q, b) : x - b \in 0..(q.count - 1) /\ b + (x - b) = x
  BY <1>1 DEF HeldIn
<1>4. \A x \in HeldIn(q, b) : x - b \in F
  <2>1. 0..(q.count - 1) \subseteq 0..q.count
    BY <1>1
  <2> QED
    BY <1>2, <1>3, <2>1
<1>5. PICK m \in F : \A k \in F : m <= k
  <2>1. F \subseteq Nat /\ F # {}
    BY <1>4
  <2> HIDE DEF F
  <2> QED
    BY <2>1, Least
<1>6. f = m
  <2>1. F \subseteq Int /\ f = Min(F)
    BY DEF FirstSet
  <2> HIDE DEF F, f
  <2> QED
    BY <1>5, <2>1, MinIs
<1>7. m \in Nat /\ \A x \in HeldIn(q, b) : x \in Nat /\ x - b \in Nat /\ m <= x - b
  BY <1>1, <1>3, <1>4, <1>5 DEF HeldIn
<1>8. \A x \in HeldIn(q, b) : b + m <= x
  BY <1>1, <1>7
<1>9. m \in 0..(q.count - 1)
  <2>1. PICK x \in HeldIn(q, b) : TRUE
    OBVIOUS
  <2>2. m <= x - b /\ x - b \in 0..(q.count - 1)
    BY <1>3, <1>7
  <2> QED
    BY <1>1, <1>7, <2>2
<1>10. IsSet(q, m)
  <2>1. m # q.count
    BY <1>1, <1>9
  <2> QED
    BY <2>1
<1> HIDE DEF f
<1>11. b + m \in HeldIn(q, b)
  BY <1>2, <1>9, <1>10
<1> QED
  BY <1>6, <1>8, <1>9, <1>11 DEF f

\* What the wait is for is forgotten: the first packet there is, and those that follow it,
\* are dispatched.
LEMMA SkipLostIs ==
    ASSUME NEW U, NEW v, IsAv(v), QueueOk(U, v.queue, v.base), HeldOf(v) # {}, v.base \notin HeldOf(v),
           v.waitSeq \in Begins
    PROVE \E s \in Nat, k \in Nat : Flushed(U, v, SkipLost(v), s, k)
<1> DEFINE f == FirstSet(v.queue)
           q == Skip(v.queue, f)
           m == Moved(v, q)
           u == [m EXCEPT !.wait = "off"]
           w == PullInOrder(u)
           s == v.base + f
           z == SkipLost(v)
<1>1. Num(v.queue.begin, v.base) /\ v.base \in Nat /\ v.queue.count \in Nat /\ v.queue.count <= QueueSize
  BY EndIs
<1>2. f \in 0..(v.queue.count - 1) /\ s \in HeldOf(v) /\ \A x \in HeldOf(v) : s <= x
  BY FirstSetIs DEF HeldOf
<1>3. z = IF w.queue.count = 0 THEN w ELSE StartWait(w)
  <2>1. f # v.queue.count
    BY <1>1, <1>2
  <2> QED
    BY <2>1 DEF SkipLost
<1> HIDE DEF f, z
<1>4. f \in 0..v.queue.count /\ f \in 0..(Modulus - 1) /\ f \in Nat /\ s \in Nat
  BY <1>1, <1>2, Sizes
<1>5. QueueOk(U, q, s) /\ q.count = v.queue.count - f /\ HeldIn(q, s) = {x \in HeldIn(v.queue, v.base) : x >= s}
  BY <1>4, SkipIs
<1> HIDE DEF q
<1>6. IsAv(m) /\ m.queue = q /\ m.base = s /\ SameBut(v, m)
  <2>1. Num(q.begin, v.base + f)
    BY <1>5, EndIs
  <2> QED
    BY <1>1, <1>4, <2>1, MovedIs
<1> HIDE DEF m, s
<1>7. IsAv(u) /\ u.queue = q /\ u.base = s /\ u.wait = "off" /\ u.initialized = v.initialized
      /\ u.waitSeq = v.waitSeq /\ u.out = v.out /\ u.freed = v.freed
  <2>1. PICK q0, i, wt, s0, b, o, fr :
          m = [queue |-> q0, initialized |-> i, wait |-> wt, waitSeq |-> s0, base |-> b, out |-> o, freed |-> fr]
    BY <1>6 DEF IsAv
  <2>2. u = [m EXCEPT !.wait = "off"]
    OBVIOUS
  <2> HIDE DEF u
  <2>3. u = [queue |-> q0, initialized |-> i, wait |-> "off", waitSeq |-> s0, base |-> b, out |-> o, freed |-> fr]
    BY <2>1, <2>2
  <2>4. IsAv(u)
    BY <2>3 DEF IsAv
  <2>5. /\ u.queue = m.queue /\ u.base = m.base /\ u.wait = "off" /\ u.initialized = m.initialized
        /\ u.waitSeq = m.waitSeq /\ u.out = m.out /\ u.freed = m.freed
    BY <2>1, <2>3
  <2> QED
    BY <1>6, <2>4, <2>5 DEF SameBut
<1> HIDE DEF u
<1>8. HeldOf(u) = HeldOf(v)
  <2>1. \A x \in HeldOf(v) : x >= s
    <3>1. \A x \in HeldOf(v) : x \in Nat
      BY <1>1 DEF HeldOf, HeldIn
    <3> QED
      BY <1>2, <1>4, <3>1
  <2> QED
    BY <1>5, <1>7, <2>1 DEF HeldOf
<1>9. PICK k \in 0..u.queue.count : Pulls(U, u, w, k)
  BY <1>5, <1>7, PullInOrderIs
<1> HIDE DEF w
<1>10. /\ IsAv(w) /\ w.base = s + k /\ QueueOk(U, w.queue, w.base)
       /\ w.queue.count = u.queue.count - k
       /\ s..(s + k - 1) \subseteq HeldOf(v) /\ w.base \notin HeldOf(v)
       /\ HeldOf(w) = HeldOf(v) \ s..(s + k - 1)
       /\ w.out = v.out \o RunFrom(s, k) /\ w.freed = v.freed \o RunFrom(s, k)
       /\ w.wait = "off" /\ w.waitSeq = v.waitSeq /\ w.initialized = v.initialized
  BY <1>7, <1>8, <1>9 DEF Pulls
<1>11. k \in Nat /\ v.base <= s /\ w.base + w.queue.count = v.base + v.queue.count
  <2>1. q.count \in Nat /\ u.queue.count = q.count /\ s = v.base + f
    BY <1>5, <1>7, EndIs DEF s
  <2>2. k \in Nat /\ k <= q.count
    BY <1>9, <2>1
  <2>3. w.base = s + k /\ w.queue.count = q.count - k
    BY <1>10, <2>1
  <2>4. /\ q.count = v.queue.count - f /\ v.base \in Nat /\ v.queue.count \in Nat /\ f \in Nat
    BY <1>1, <1>4, <1>5
  <2>5. v.base <= s /\ s \in Nat
    BY <2>1, <2>4
  <2> DEFINE b == v.base
             c == v.queue.count
  <2>6. w.base + w.queue.count = b + c
    <3>1. w.base = (b + f) + k /\ w.queue.count = (c - f) - k
      BY <2>1, <2>3, <2>4
    <3>2. b \in Nat /\ c \in Nat
      BY <2>4
    <3> HIDE DEF b, c
    <3> QED
      BY <2>2, <2>4, <3>1, <3>2
  <2> QED
    BY <2>2, <2>5, <2>6
<1>12. CASE w.queue.count = 0
  <2>1. z = w
    BY <1>3, <1>12
  <2>2. Flushed(U, v, w, s, k)
    <3>1. ~(w.queue.count > 0)
      BY <1>12
    <3> QED
      BY <1>2, <1>10, <1>11, <3>1 DEF Flushed
  <2> QED
    BY <1>4, <1>11, <2>1, <2>2 DEF z
<1>13. CASE w.queue.count # 0
  <2>1. z = StartWait(w)
    BY <1>3, <1>13
  <2>2. /\ IsAv(z) /\ z.queue = w.queue /\ z.base = w.base /\ z.initialized = w.initialized /\ z.out = w.out
        /\ z.freed = w.freed /\ z.wait = "running" /\ z.waitSeq = w.queue.begin
    BY <1>10, <2>1, StartWaitIs
  <2>3. HeldOf(z) = HeldOf(w)
    BY <2>2 DEF HeldOf
  <2>4. w.queue.begin \in Begins
    BY <1>10, EndIs
  <2>5. Flushed(U, v, z, s, k)
    BY <1>2, <1>10, <1>11, <2>2, <2>3, <2>4 DEF Flushed
  <2> QED
    BY <1>4, <1>11, <2>5 DEF z
<1> QED
  BY <1>12, <1>13

LEMMA FlushIs ==
    ASSUME NEW U, NEW v, IsAv(v), QueueOk(U, v.queue, v.base), v.wait \in {"off", "running", "expired"},
           v.waitSeq \in Begins,
           v.queue.count > 0 => v.base + v.queue.count - 1 \in HeldOf(v),
           NEW D, v.out \in Seq(D), v.freed \in Seq(D)
    PROVE \E s \in Nat, k \in Nat : Flushed(U, v, Flush(v), s, k)
<1> DEFINE w == PullInOrder(v)
           ahead == w.queue.begin = w.waitSeq \/ Gt(w.queue.begin, w.waitSeq)
           t == [w EXCEPT !.waitSeq = w.queue.begin]
           z == Flush(v)
<1>1. v.base \in Nat /\ v.queue.count \in Nat
  BY EndIs
<1>2. PICK k \in 0..v.queue.count : Pulls(U, v, w, k)
  BY PullInOrderIs
<1>3. z = CASE w.queue.count = 0   -> w
            [] w.queue.count > 0 /\ (w.wait = "off" \/ ~ahead) -> StartWait(w)
            [] w.queue.count > 0 /\ w.wait = "running" /\ ahead -> t
            [] w.queue.count > 0 /\ w.wait = "expired" /\ ahead -> SkipLost(t)
  BY DEF Flush
<1> HIDE DEF w, z, ahead
<1>4. /\ IsAv(w) /\ w.base = v.base + k /\ QueueOk(U, w.queue, w.base) /\ w.queue.count = v.queue.count - k
      /\ v.base..(v.base + k - 1) \subseteq HeldOf(v) /\ w.base \notin HeldOf(v)
      /\ HeldOf(w) = HeldOf(v) \ v.base..(v.base + k - 1)
      /\ w.out = v.out \o RunFrom(v.base, k) /\ w.freed = v.freed \o RunFrom(v.base, k)
      /\ w.waitSeq = v.waitSeq /\ w.initialized = v.initialized
      /\ w.wait = IF k > 0 THEN "off" ELSE v.wait
  BY <1>2 DEF Pulls
<1>5. k \in Nat /\ w.queue.count \in Nat /\ w.base + w.queue.count = v.base + v.queue.count
      /\ w.wait \in {"off", "running", "expired"}
  <2>1. k \in Nat /\ k <= v.queue.count
    BY <1>1
  <2>2. w.queue.count \in Nat /\ w.base + w.queue.count = v.base + v.queue.count
    BY <1>1, <1>4, <2>1
  <2>3. w.wait \in {"off", "running", "expired"}
    <3>1. w.wait = "off" \/ w.wait = v.wait
      BY <1>4
    <3> QED
      BY <3>1
  <2> QED
    BY <2>1, <2>2, <2>3
<1>6. /\ IsAv(t) /\ t.queue = w.queue /\ t.base = w.base /\ t.initialized = w.initialized /\ t.out = w.out
      /\ t.freed = w.freed /\ t.wait = w.wait /\ t.waitSeq = w.queue.begin
  <2>1. PICK q0, i, wt, s0, b, o, fr :
          w = [queue |-> q0, initialized |-> i, wait |-> wt, waitSeq |-> s0, base |-> b, out |-> o, freed |-> fr]
    BY <1>4 DEF IsAv
  <2>2. t = [w EXCEPT !.waitSeq = w.queue.begin]
    OBVIOUS
  <2> HIDE DEF t
  <2>3. t = [queue |-> q0, initialized |-> i, wait |-> wt, waitSeq |-> w.queue.begin, base |-> b, out |-> o, freed |-> fr]
    BY <2>1, <2>2
  <2>4. IsAv(t)
    BY <2>3 DEF IsAv
  <2>5. /\ t.queue = w.queue /\ t.base = w.base /\ t.wait = w.wait /\ t.initialized = w.initialized
        /\ t.waitSeq = w.queue.begin /\ t.out = w.out /\ t.freed = w.freed
    BY <2>1, <2>3
  <2> QED
    BY <2>4, <2>5
<1> HIDE DEF t
<1>7. ASSUME NEW r, IsAv(r), r.queue = w.queue, r.base = w.base, r.initialized = w.initialized, r.out = w.out,
             r.freed = w.freed, r.wait \in {"off", "running", "expired"}, r.waitSeq \in Begins,
             w.queue.count > 0 => r.wait # "off" /\ r.waitSeq = w.queue.begin
      PROVE Flushed(U, v, r, v.base, k)
  <2>1. HeldOf(r) = HeldOf(w)
    BY <1>7 DEF HeldOf
  <2>2. r.base = v.base + k /\ r.base + r.queue.count = v.base + v.queue.count /\ v.base <= v.base
    BY <1>1, <1>4, <1>5, <1>7
  <2> QED
    BY <1>4, <1>7, <2>1, <2>2 DEF Flushed
<1>12. w.queue.begin \in Begins
  BY <1>4, EndIs
<1>8. CASE w.queue.count = 0
  <2>1. z = w
    BY <1>3, <1>8
  <2>2. Flushed(U, v, w, v.base, k)
    <3>1. ~(w.queue.count > 0) /\ w.waitSeq \in Begins
      BY <1>4, <1>8
    <3> QED
      BY <1>4, <1>5, <1>7, <3>1
  <2> QED
    BY <1>1, <1>5, <2>1, <2>2 DEF z
<1>9. CASE w.queue.count > 0 /\ (w.wait = "off" \/ ~ahead)
  <2>1. z = StartWait(w)
    BY <1>3, <1>5, <1>9
  <2> DEFINE r == StartWait(w)
  <2>2. /\ IsAv(r) /\ r.queue = w.queue /\ r.base = w.base /\ r.initialized = w.initialized /\ r.out = w.out
        /\ r.freed = w.freed /\ r.wait = "running" /\ r.waitSeq = w.queue.begin
    BY <1>4, StartWaitIs
  <2> HIDE DEF r
  <2>3. Flushed(U, v, r, v.base, k)
    BY <1>7, <1>12, <2>2
  <2> QED
    BY <1>1, <1>5, <2>1, <2>3 DEF z, r
<1>10. CASE w.queue.count > 0 /\ w.wait = "running" /\ ahead
  <2>1. z = t
    BY <1>3, <1>5, <1>10
  <2>2. Flushed(U, v, t, v.base, k)
    BY <1>6, <1>7, <1>10, <1>12
  <2> QED
    BY <1>1, <1>5, <2>1, <2>2 DEF z
<1>11. CASE w.queue.count > 0 /\ w.wait = "expired" /\ ahead
  <2>1. z = SkipLost(t)
    BY <1>3, <1>5, <1>11
  <2>2. k = 0
    BY <1>4, <1>5, <1>11
  <2>3. t.base = v.base /\ t.queue = w.queue /\ w.queue.count = v.queue.count /\ HeldOf(w) = HeldOf(v)
    BY <1>1, <1>4, <1>6, <2>2
  <2>4. HeldOf(t) = HeldOf(v) /\ HeldOf(t) # {} /\ t.base \notin HeldOf(t)
    <3>1. HeldOf(t) = HeldOf(v)
      BY <1>6, <2>3 DEF HeldOf
    <3> QED
      BY <1>4, <1>6, <1>11, <2>3, <3>1
  <2>5. QueueOk(U, t.queue, t.base)
    BY <1>4, <1>6
  <2>6. PICK s \in Nat, j \in Nat : Flushed(U, t, SkipLost(t), s, j)
    BY <1>6, <1>12, <2>4, <2>5, SkipLostIs
  <2>7. t.out = v.out /\ t.freed = v.freed /\ t.initialized = v.initialized
    <3>1. RunFrom(v.base, k) = <<>>
      BY <2>2 DEF RunFrom
    <3>2. v.out \o <<>> = v.out /\ v.freed \o <<>> = v.freed
      OBVIOUS
    <3> QED
      BY <1>4, <1>6, <3>1, <3>2
  <2> DEFINE y == SkipLost(t)
  <2> HIDE DEF y
  <2>8. Flushed(U, t, y, s, j)
    BY <2>6 DEF y
  <2>10. Flushed(U, v, y, s, j)
    BY <2>3, <2>4, <2>7, <2>8 DEF Flushed
  <2> QED
    BY <2>1, <2>10 DEF z, y
<1>13. w.queue.count = 0 \/ w.queue.count > 0
  BY <1>5
<1>14. w.wait = "off" \/ w.wait = "running" \/ w.wait = "expired"
  BY <1>5
<1> QED
  BY <1>8, <1>9, <1>10, <1>11, <1>13, <1>14

-----------------------------------------------------------------------------
(* A video packet is handled.                                              *)

LEMMA VideoSizes ==
    /\ NPackets \in Nat \ {0} /\ FrameLen \in Nat \ {0} /\ FrameLen <= QueueSize
    /\ Delay \in Nat /\ Delay + 2 < Modulus \div 2 /\ PostponeMax \in Nat /\ Outage \in Nat /\ Outage < Modulus
BY VideoAssumption

LEMMA FirstBeginIs ==
    ASSUME NEW n \in Nat
    PROVE FirstBegin(n) \in 0..n /\ n - FirstBegin(n) < QueueSize
<1>1. n % FrameLen \in 0..(FrameLen - 1)
  <2>1. n \in Int /\ FrameLen \in Nat \ {0}
    BY VideoSizes
  <2> QED
    BY <2>1, DivMod
<1>2. n % FrameLen <= n
  <2>1. CASE n < FrameLen
    <3>1. n \in 0..(FrameLen - 1)
      BY <2>1, VideoSizes
    <3>2. n % FrameLen = n
      BY <3>1, VideoSizes, ModSmall
    <3> QED
      BY <3>2
  <2>2. CASE n >= FrameLen
    BY <1>1, <2>2, VideoSizes
  <2> QED
    BY <2>1, <2>2, VideoSizes
<1> QED
  BY <1>1, <1>2, VideoSizes, Sizes DEF FirstBegin

\* The queue before the packet: as it was, or empty and beginning with n's frame.
Fresh(v, w, b) ==
    /\ IsAv(w) /\ w.initialized = TRUE /\ w.wait = "off" /\ w.waitSeq \in Begins
    /\ w.out = v.out /\ w.freed = v.freed /\ w.base = b
    /\ QueueOk(Packets, w.queue, w.base) /\ HeldOf(w) = {} /\ w.queue.count = 0

LEMMA InitQueueIs ==
    ASSUME NEW v, IsAv(v), NEW n \in Packets
    PROVE /\ v.initialized => InitQueue(v, n) = v
          /\ ~v.initialized => Fresh(v, InitQueue(v, n), FirstBegin(n))
<1> DEFINE b == FirstBegin(n)
           q == EmptyQueue(Wire(b))
           w == InitQueue(v, n)
<1>1. CASE v.initialized
  BY <1>1 DEF InitQueue
<1>2. CASE ~v.initialized
  <2>1. n \in Nat
    BY VideoSizes DEF Packets
  <2>2. b \in Nat
    BY <2>1, FirstBeginIs
  <2>3. w = [v EXCEPT !.initialized = TRUE, !.queue = q, !.waitSeq = Wire(b), !.wait = "off", !.base = b]
    BY <1>2 DEF InitQueue
  <2>4. PICK q0, i, wt, s0, b0, o, fr :
          v = [queue |-> q0, initialized |-> i, wait |-> wt, waitSeq |-> s0, base |-> b0, out |-> o, freed |-> fr]
    BY DEF IsAv
  <2> HIDE DEF w, b, q
  <2>5. w = [queue |-> q, initialized |-> TRUE, wait |-> "off", waitSeq |-> Wire(b), base |-> b, out |-> o, freed |-> fr]
    BY <2>3, <2>4
  <2>6. IsAv(w)
    BY <2>5 DEF IsAv
  <2>7. /\ w.initialized = TRUE /\ w.wait = "off" /\ w.waitSeq = Wire(b) /\ w.out = v.out /\ w.freed = v.freed
        /\ w.base = b /\ w.queue = q
    BY <2>4, <2>5
  <2>9. Num(Wire(b), b) /\ Wire(b) \in Begins
    BY <2>2, WireNum
  <2>8. QueueOk(Packets, q, b) /\ HeldIn(q, b) = {} /\ q.count = 0
    BY <2>2, <2>9, EmptyIs DEF q
  <2>10. HeldOf(w) = {}
    BY <2>7, <2>8 DEF HeldOf
  <2> QED
    BY <1>2, <2>6, <2>7, <2>8, <2>9, <2>10 DEF w, b, Fresh
<1> QED
  BY <1>1, <1>2

\* The packets that the push of n releases, and what it leaves in the queue.
PushWants(v, n) ==
    n >= v.base /\ n \notin HeldOf(v) /\ n - v.base <= Modulus \div 2 /\ ~AtSeam(v.queue, Wire(n))
PushFloor(v, n) == FloorOf(v.base, v.base + v.queue.count, n)
PushFrees(v, n) == IF PushWants(v, n) THEN {h \in HeldOf(v) : h < PushFloor(v, n)} ELSE {n}
PushHolds(v, n) ==
    IF PushWants(v, n) THEN {h \in HeldOf(v) : h >= PushFloor(v, n)} \cup {n} ELSE HeldOf(v)
PushBegin(v, n) == IF PushWants(v, n) THEN PushFloor(v, n) ELSE v.base
PushEnd(v, n) ==
    IF PushWants(v, n) /\ n >= v.base + v.queue.count THEN n + 1 ELSE v.base + v.queue.count

\* x is v with the packet n pushed.
PushedTo(v, n, x) ==
    /\ IsAv(x) /\ x.initialized = v.initialized /\ x.wait = v.wait /\ x.waitSeq = v.waitSeq
    /\ x.out = <<>> /\ x.freed = SetToSeq(PushFrees(v, n)) /\ IsFiniteSet(PushFrees(v, n))
    /\ PushFrees(v, n) \subseteq Packets
    /\ QueueOk(Packets, x.queue, x.base) /\ x.base = PushBegin(v, n)
    /\ HeldOf(x) = PushHolds(v, n) /\ x.base + x.queue.count = PushEnd(v, n)

\* The last place of a window is never empty.
LastHeld(v) == v.queue.count > 0 => v.base + v.queue.count - 1 \in HeldOf(v)

LEMMA HeldBounds ==
    ASSUME NEW v, QueueOk(Packets, v.queue, v.base), v.base + v.queue.count <= NPackets
    PROVE /\ \A h \in HeldOf(v) : h \in Packets /\ h \in Nat /\ h >= v.base /\ h < v.base + v.queue.count
          /\ IsFiniteSet(HeldOf(v))
<1>1. v.base \in Nat /\ v.queue.count \in Nat
  BY EndIs
<1>2. HeldOf(v) \in SUBSET (v.base..(v.base + v.queue.count - 1))
  BY DEF HeldOf, HeldIn
<1>3. \A h \in HeldOf(v) : h \in Packets /\ h \in Nat /\ h >= v.base /\ h < v.base + v.queue.count
  <2> DEFINE b == v.base
             e == v.base + v.queue.count
  <2>1. b \in Nat /\ e \in Nat /\ e <= NPackets /\ NPackets \in Nat
    BY <1>1, VideoSizes
  <2>2. \A h \in HeldOf(v) : h \in b..(e - 1)
    <3>1. v.base + v.queue.count - 1 = e - 1
      BY <1>1
    <3> QED
      BY <1>2, <3>1
  <2> HIDE DEF b, e
  <2>3. \A h \in HeldOf(v) : h \in Packets /\ h \in Nat /\ h >= b /\ h < e
    BY <2>1, <2>2 DEF Packets
  <2> QED
    BY <2>3 DEF b, e
<1>4. IsFiniteSet(v.base..(v.base + v.queue.count - 1))
  <2>1. v.base \in Int /\ v.base + v.queue.count - 1 \in Int
    BY <1>1
  <2> QED
    BY <2>1, FS_Interval
<1> QED
  BY <1>2, <1>3, <1>4, FS_Subset

LEMMA PushedToIs ==
    ASSUME NEW v, IsAv(v), QueueOk(Packets, v.queue, v.base), v.base + v.queue.count <= NPackets,
           v.out = <<>>, v.freed = <<>>, v.queue.count = 0 \/ QueueSize > 1,
           NEW n \in Packets, v.base - n < Modulus \div 2, n - v.base < Modulus
    PROVE LET p == Push(v.queue, Wire(n), n, TRUE) IN
          PushedTo(v, n, [Moved(v, p.queue) EXCEPT !.freed = @ \o SetToSeq(p.dropped)])
<1> DEFINE p == Push(v.queue, Wire(n), n, TRUE)
           m == Moved(v, p.queue)
           x == [m EXCEPT !.freed = m.freed \o SetToSeq(p.dropped)]
           c == PushBegin(v, n)
           D == PushFrees(v, n)
           H == HeldOf(v)
<1>1. v.base \in Nat /\ v.queue.count \in Nat /\ n \in Nat /\ n < NPackets /\ Num(v.queue.begin, v.base)
  BY EndIs, VideoSizes DEF Packets
<1>2. n - v.base < Modulus
  OBVIOUS
<1>3. /\ PushWants(v, n) => Pushed(Packets, v.queue, v.base, n, PushFloor(v, n), p)
      /\ ~PushWants(v, n) => p = Refused(v.queue, n)
  BY <1>1, <1>2, PushDrops DEF PushWants, PushFloor, HeldOf
<1> HIDE DEF p
<1>4. /\ p.dropped = D /\ QueueOk(Packets, p.queue, c) /\ HeldIn(p.queue, c) = PushHolds(v, n)
      /\ c + p.queue.count = PushEnd(v, n)
  <2>1. CASE PushWants(v, n)
    <3>1. Pushed(Packets, v.queue, v.base, n, PushFloor(v, n), p)
      BY <1>3, <2>1
    <3>2. (IF n < v.base + v.queue.count THEN v.base + v.queue.count ELSE n + 1) = PushEnd(v, n)
      BY <1>1, <2>1 DEF PushEnd
    <3> QED
      BY <2>1, <3>1, <3>2 DEF Pushed, PushFrees, PushHolds, PushBegin, HeldOf
  <2>2. CASE ~PushWants(v, n)
    <3>1. p.queue = v.queue /\ p.dropped = {n}
      BY <1>3, <2>2 DEF Refused
    <3> QED
      BY <2>2, <3>1 DEF PushFrees, PushHolds, PushBegin, PushEnd, HeldOf
  <2> QED
    BY <2>1, <2>2
<1>5. c >= v.base /\ c - v.base \in 0..(Modulus - 1) /\ c \in Nat
  <2>1. CASE PushWants(v, n)
    <3>1. c = v.base \/ (c > v.base /\ c <= n /\ c \in Nat)
      BY <1>1, <2>1, Sizes DEF PushWants, PushBegin, PushFloor, FloorOf
    <3>2. Modulus \in Nat /\ Modulus > 0 /\ n \in Nat /\ v.base \in Nat
      BY <1>1, Sizes
    <3> HIDE DEF c
    <3> DEFINE b == v.base
    <3>3. c \in Nat /\ b \in Nat /\ c >= b /\ (c = b \/ c <= n) /\ n - b < Modulus
      BY <1>2, <3>1, <3>2
    <3> HIDE DEF b
    <3>4. c >= b /\ c - b \in 0..(Modulus - 1) /\ c \in Nat
      BY <3>2, <3>3
    <3> QED
      BY <3>4 DEF b
  <2>2. CASE ~PushWants(v, n)
    <3>1. c = v.base
      BY <2>2 DEF PushBegin
    <3> QED
      BY <1>1, <3>1, Sizes
  <2> QED
    BY <2>1, <2>2
<1>6. D \subseteq Packets /\ IsFiniteSet(D)
  <2>1. IsFiniteSet(H) /\ H \subseteq Packets
    BY HeldBounds
  <2>2. D \in SUBSET H \/ D = {n}
    BY DEF PushFrees
  <2> HIDE DEF D, H
  <2> QED
    BY <2>1, <2>2, FS_Subset, FS_Singleton
<1> HIDE DEF c, D
<1>7. IsAv(m) /\ m.queue = p.queue /\ m.base = c /\ SameBut(v, m)
  <2>1. \A k \in 0..(Modulus - 1) : Num(p.queue.begin, v.base + k) =>
            IsAv(m) /\ m.queue = p.queue /\ m.base = v.base + k /\ SameBut(v, m)
    BY <1>1, MovedIs
  <2>2. Num(p.queue.begin, c) /\ v.base + (c - v.base) = c
    <3>1. Num(p.queue.begin, c)
      BY <1>4, EndIs
    <3> QED
      BY <1>1, <1>5, <3>1
  <2> HIDE DEF m
  <2> QED
    BY <1>5, <2>1, <2>2
<1> HIDE DEF m
<1>8. m.freed \o SetToSeq(p.dropped) = SetToSeq(D)
  <2>1. SetToSeq(D) \in Seq(D)
    BY <1>6, SeqIs
  <2>2. m.freed = <<>>
    BY <1>7 DEF SameBut
  <2> QED
    BY <1>4, <2>1, <2>2
<1>9. /\ IsAv(x) /\ x.queue = m.queue /\ x.base = m.base /\ x.initialized = m.initialized /\ x.out = m.out
      /\ x.freed = SetToSeq(D) /\ x.wait = m.wait /\ x.waitSeq = m.waitSeq
  <2>1. PICK q0, i, wt, s0, b0, o, fr :
          m = [queue |-> q0, initialized |-> i, wait |-> wt, waitSeq |-> s0, base |-> b0, out |-> o, freed |-> fr]
    BY <1>7 DEF IsAv
  <2>2. x = [m EXCEPT !.freed = SetToSeq(D)]
    BY <1>8
  <2> HIDE DEF x
  <2>3. x = [queue |-> q0, initialized |-> i, wait |-> wt, waitSeq |-> s0, base |-> b0, out |-> o, freed |-> SetToSeq(D)]
    BY <2>1, <2>2
  <2>4. IsAv(x)
    BY <2>3 DEF IsAv
  <2>5. /\ x.queue = m.queue /\ x.base = m.base /\ x.initialized = m.initialized /\ x.out = m.out
        /\ x.freed = SetToSeq(D) /\ x.wait = m.wait /\ x.waitSeq = m.waitSeq
    BY <2>1, <2>3
  <2> QED
    BY <2>4, <2>5
<1> HIDE DEF x
<1>10. HeldOf(x) = HeldIn(p.queue, c)
  BY <1>7, <1>9 DEF HeldOf
<1>11. PushedTo(v, n, x)
  BY <1>4, <1>6, <1>7, <1>9, <1>10 DEF PushedTo, SameBut, c, D
<1> QED
  BY <1>11 DEF x, m, p

\* The window still ends with an element, and not beyond the newest packet.
LEMMA PushedEnd ==
    ASSUME NEW v, QueueOk(Packets, v.queue, v.base), v.base + v.queue.count <= NPackets, LastHeld(v),
           NEW n \in Packets, NEW x, PushedTo(v, n, x)
    PROVE LastHeld(x) /\ x.base >= v.base
<1> DEFINE e == v.base + v.queue.count
           c == PushFloor(v, n)
<1>1. /\ v.base \in Nat /\ v.queue.count \in Nat /\ n \in Nat /\ e \in Nat
      /\ v.queue.count > 0 <=> e > v.base
  <2>1. v.base \in Nat /\ v.queue.count \in Nat
    BY EndIs
  <2>2. n \in Nat
    BY DEF Packets
  <2> QED
    BY <2>1, <2>2
<1>2. x.base \in Nat /\ x.queue.count \in Nat /\ x.base = PushBegin(v, n) /\ HeldOf(x) = PushHolds(v, n)
      /\ x.base + x.queue.count = PushEnd(v, n)
  BY EndIs DEF PushedTo
<1>3. CASE PushWants(v, n)
  <2>1. c \in Nat /\ c >= v.base /\ c <= n
    BY <1>1, <1>3, Sizes DEF PushWants, PushFloor, FloorOf
  <2>2. x.base = c /\ HeldOf(x) = {h \in HeldOf(v) : h >= c} \cup {n}
    BY <1>2, <1>3 DEF PushBegin, PushHolds
  <2>3. CASE n >= e
    <3>1. x.base + x.queue.count = n + 1
      BY <1>2, <1>3, <2>3 DEF PushEnd
    <3>2. x.base + x.queue.count - 1 = n
      <4>1. x.base \in Nat /\ x.queue.count \in Nat
        BY <1>2
      <4>2. n \in Nat
        BY <1>1
      <4> QED
        BY <3>1, <4>1, <4>2
    <3> QED
      BY <2>1, <2>2, <3>2 DEF LastHeld
  <2>4. CASE n < e
    <3>1. x.base + x.queue.count = e
      BY <1>1, <1>2, <1>3, <2>4 DEF PushEnd
    <3>2. v.queue.count > 0 /\ e - 1 \in HeldOf(v) /\ e - 1 >= c
      BY <1>1, <1>3, <2>1, <2>4 DEF PushWants, LastHeld
    <3>3. x.base + x.queue.count - 1 \in HeldOf(x)
      <4>1. x.base + x.queue.count - 1 = e - 1
        BY <1>1, <1>2, <3>1
      <4>2. e - 1 \in HeldOf(x)
        BY <2>2, <3>2
      <4> QED
        BY <4>1, <4>2
    <3> QED
      BY <2>1, <2>2, <3>3 DEF LastHeld
  <2>5. n >= e \/ n < e
    BY <1>1
  <2> QED
    BY <2>3, <2>4, <2>5
<1>4. CASE ~PushWants(v, n)
  <2>1. x.base = v.base /\ HeldOf(x) = HeldOf(v) /\ x.base + x.queue.count = v.base + v.queue.count
    BY <1>2, <1>4 DEF PushBegin, PushHolds, PushEnd
  <2>2. x.queue.count = v.queue.count
    BY <1>1, <1>2, <2>1
  <2> QED
    BY <1>1, <2>1, <2>2 DEF LastHeld
<1> QED
  BY <1>3, <1>4

\* The whole of a packet: the queue it is pushed to, and the flush that follows.
LEMMA HandleAvIs ==
    ASSUME NEW v, IsAv(v), QueueOk(Packets, v.queue, v.base), v.base + v.queue.count <= NPackets, LastHeld(v),
           v.out = <<>>, v.freed = <<>>, v.queue.count = 0 \/ QueueSize > 1, v.initialized,
           v.wait \in {"off", "running", "expired"}, v.waitSeq \in Begins,
           NEW n \in Packets, v.base - n < Modulus \div 2, n - v.base < Modulus
    PROVE \E x : /\ PushedTo(v, n, x)
                 /\ \E s \in Nat, k \in Nat : Flushed(Packets, x, HandleAv(v, n), s, k)
<1> DEFINE p == Push(v.queue, Wire(n), n, TRUE)
           x == [Moved(v, p.queue) EXCEPT !.freed = @ \o SetToSeq(p.dropped)]
<1>1. HandleAv(v, n) = Flush(x)
  <2>1. InitQueue(v, n) = v
    BY InitQueueIs
  <2> QED
    BY <2>1 DEF HandleAv
<1>2. PushedTo(v, n, x)
  BY PushedToIs
<1> HIDE DEF x
<1>3. LastHeld(x)
  BY <1>2, PushedEnd
<1>4. /\ IsAv(x) /\ QueueOk(Packets, x.queue, x.base) /\ x.wait \in {"off", "running", "expired"}
      /\ x.waitSeq \in Begins /\ x.out = <<>> /\ x.freed = SetToSeq(PushFrees(v, n))
      /\ IsFiniteSet(PushFrees(v, n)) /\ PushFrees(v, n) \subseteq Packets
  BY <1>2 DEF PushedTo
<1>5. x.out \in Seq(PushFrees(v, n)) /\ x.freed \in Seq(PushFrees(v, n))
  <2>1. SetToSeq(PushFrees(v, n)) \in Seq(PushFrees(v, n)) /\ <<>> \in Seq(PushFrees(v, n))
    BY <1>4, SeqIs
  <2> QED
    BY <1>4, <2>1
<1>6. x.queue.count > 0 => x.base + x.queue.count - 1 \in HeldOf(x)
  BY <1>3 DEF LastHeld
<1>7. \E s \in Nat, k \in Nat : Flushed(Packets, x, Flush(x), s, k)
  BY <1>4, <1>5, <1>6, FlushIs
<1> QED
  BY <1>1, <1>2, <1>7

-----------------------------------------------------------------------------
(* The video queue between the actions.                                    *)

AvTypes(v) ==
    /\ v.initialized \in BOOLEAN /\ v.wait \in {"off", "running", "expired"}
    /\ v.waitSeq \in Begins /\ v.out = <<>> /\ v.freed = <<>>

\* What the invariants say of the queue once it is initialised.
AvReady(v) ==
    /\ QueueOk(Packets, v.queue, v.base) /\ LastHeld(v) /\ v.base \notin HeldOf(v)
    /\ v.base + v.queue.count <= NPackets

LEMMA VideoIs ==
    ASSUME VideoTypeOK, RightPacketInSlot, LateIsBehind
    PROVE /\ IsAv(av) /\ AvTypes(av)
          /\ av.initialized => AvReady(av) /\ (av.queue.count = 0 \/ QueueSize > 1)
          /\ ~av.initialized => av = Idle /\ av.base = 0 /\ HeldOf(av) = {} /\ av.queue.count = 0
          /\ HeldPackets = HeldOf(av)
          /\ \A x : Cardinality({i \in Filled(av.queue) : Entry(av.queue, i).user = x}) = In(x, HeldOf(av))
          /\ av.base \in Nat /\ av.queue.count \in Nat /\ av.base + av.queue.count <= newest + 1
          /\ newest \in Nat /\ newest < NPackets
<1> DEFINE q == av.queue
           b == av.base
<1>1. IsAv(av)
  BY DEF VideoTypeOK, IsAv
<1>2. AvTypes(av)
  BY DEF VideoTypeOK, AvTypes
<1>3. /\ b \in Nat /\ q \in [begin : Begins, count : 0..QueueSize,
                             slot : [0..(QueueSize - 1) -> [set : BOOLEAN, user : Packets \cup {NoUser}]]]
      /\ newest \in Nat /\ newest < NPackets /\ b + q.count <= newest + 1
  <2>1. b \in 0..NPackets /\ newest \in Packets
    BY DEF VideoTypeOK
  <2>2. q \in [begin : Begins, count : 0..QueueSize,
               slot : [0..(QueueSize - 1) -> [set : BOOLEAN, user : Packets \cup {NoUser}]]]
    BY DEF VideoTypeOK
  <2> QED
    BY <2>1, <2>2, VideoSizes DEF Packets, LateIsBehind
<1>4. q.count \in 0..QueueSize /\ q.count \in Nat /\ q.slot \in Rings(Packets)
      /\ q = [begin |-> q.begin, count |-> q.count, slot |-> q.slot]
  BY <1>3, Sizes DEF Rings
<1>5. CASE av.initialized
  <2>1. q.begin % Modulus = Wire(b) /\ \A i \in Filled(q) : Entry(q, i).user = b + i
    BY <1>5 DEF RightPacketInSlot
  <2>2. QueueOk(Packets, q, b)
    BY <1>3, <1>4, <2>1, QueueFrom
  <2>3. b \notin HeldIn(q, b)
    <3>1. ~IsSet(q, 0)
      <4>1. CASE q.count = 0
        BY <4>1 DEF IsSet
      <4>2. CASE q.count > 0
        BY <4>2 DEF RightPacketInSlot
      <4> QED
        BY <1>4, <4>1, <4>2
    <3> QED
      BY <2>2, <3>1, BeginMissing
  <2>4. q.count > 0 => b + q.count - 1 \in HeldIn(q, b)
    <3> SUFFICES ASSUME q.count > 0 PROVE b + q.count - 1 \in HeldIn(q, b)
      OBVIOUS
    <3>1. Entry(q, q.count - 1).set
      BY DEF RightPacketInSlot, IsSet
    <3>2. q.count - 1 \in 0..(q.count - 1) /\ b + (q.count - 1) = b + q.count - 1
      BY <1>3, <1>4
    <3>3. b + (q.count - 1) \in HeldIn(q, b)
      BY <2>2, <3>1, <3>2, FilledIs
    <3> QED
      BY <3>2, <3>3
  <2>5. q.count = 0 \/ QueueSize > 1
    <3>1. q.count # 1
      <4> SUFFICES ASSUME q.count = 1 PROVE FALSE
        OBVIOUS
      <4>1. b + q.count - 1 = b
        BY <1>3
      <4> QED
        BY <2>3, <2>4, <4>1
    <3> QED
      BY <1>4, <3>1, Sizes
  <2>6. HeldPackets = HeldIn(q, b)
    BY <2>2, FilledIs DEF HeldPackets
  <2>7. \A x : Cardinality({i \in Filled(q) : Entry(q, i).user = x}) = In(x, HeldIn(q, b))
    BY <2>2, FilledCount DEF In
  <2>8. b + q.count <= NPackets
    BY <1>3, <1>4, VideoSizes
  <2>9. AvReady(av)
    BY <2>2, <2>3, <2>4, <2>8 DEF AvReady, LastHeld, HeldOf
  <2> QED
    BY <1>1, <1>2, <1>3, <1>4, <1>5, <2>5, <2>6, <2>7, <2>9 DEF HeldOf
<1>6. CASE ~av.initialized
  <2>1. av = Idle
    BY <1>6 DEF LateIsBehind
  <2>2. b = 0 /\ q.count = 0
    BY <2>1 DEF Idle, EmptyQueue
  <2>3. Filled(q) = {} /\ HeldIn(q, b) = {}
    BY <2>2 DEF Filled, HeldIn
  <2>4. HeldPackets = {}
    BY <2>3 DEF HeldPackets
  <2>5. \A x : Cardinality({i \in Filled(q) : Entry(q, i).user = x}) = In(x, HeldIn(q, b))
    <3>1. \A x : {i \in Filled(q) : Entry(q, i).user = x} = {}
      BY <2>3
    <3> QED
      BY <2>3, <3>1, FS_EmptySet DEF In
  <2> QED
    BY <1>1, <1>2, <1>3, <1>6, <2>1, <2>2, <2>3, <2>4, <2>5 DEF HeldOf
<1> QED
  BY <1>5, <1>6

\* What an action left is what the invariants say of the queue.
LEMMA AvKept ==
    ASSUME IsAv(av'), AvTypes(av'), AvReady(av'),
           av'.queue.count > 0 => av'.wait # "off" /\ av'.waitSeq = av'.queue.begin
    PROVE /\ av' \in [queue : [begin : Begins, count : 0..QueueSize,
                               slot : [0..(QueueSize - 1) -> [set : BOOLEAN, user : Packets \cup {NoUser}]]],
                      initialized : BOOLEAN, wait : {"off", "running", "expired"}, waitSeq : Begins,
                      base : 0..NPackets, out : {<<>>}, freed : {<<>>}]
          /\ RightPacketInSlot' /\ HeadWaitArmed' /\ HeldPackets' = HeldOf(av')
          /\ \A x : Cardinality({i \in Filled(av'.queue) : Entry(av'.queue, i).user = x}) = In(x, HeldOf(av'))
<1> DEFINE q == av'.queue
           b == av'.base
<1>1. QueueOk(Packets, q, b) /\ b \notin HeldIn(q, b) /\ b + q.count <= NPackets
      /\ (q.count > 0 => b + q.count - 1 \in HeldIn(q, b))
  BY DEF AvReady, LastHeld, HeldOf
<1>2. b \in Nat /\ q.count \in Nat
  BY <1>1, EndIs
<1>5. /\ q \in [begin : Begins, count : 0..QueueSize,
                slot : [0..(QueueSize - 1) -> [set : BOOLEAN, user : Packets \cup {NoUser}]]]
      /\ q.begin % Modulus = Wire(b)
      /\ ~IsSet(q, 0) /\ \A i \in Filled(q) : Entry(q, i).user = b + i
  BY <1>1, QueueBack
<1>6. b \in 0..NPackets
  BY <1>1, <1>2, VideoSizes
<1>7. q.count > 0 => IsSet(q, q.count - 1)
  <2> SUFFICES ASSUME q.count > 0 PROVE IsSet(q, q.count - 1)
    OBVIOUS
  <2>1. q.count - 1 \in 0..(q.count - 1) /\ b + (q.count - 1) = b + q.count - 1 /\ q.count - 1 < q.count
    BY <1>2
  <2>2. Entry(q, q.count - 1).set
    BY <1>1, <2>1, FilledIs
  <2> QED
    BY <2>1, <2>2 DEF IsSet
<1> HIDE DEF q, b
<1>8. av' \in [queue : [begin : Begins, count : 0..QueueSize,
                        slot : [0..(QueueSize - 1) -> [set : BOOLEAN, user : Packets \cup {NoUser}]]],
               initialized : BOOLEAN, wait : {"off", "running", "expired"}, waitSeq : Begins,
               base : 0..NPackets, out : {<<>>}, freed : {<<>>}]
  <2> DEFINE Q == [begin : Begins, count : 0..QueueSize,
                   slot : [0..(QueueSize - 1) -> [set : BOOLEAN, user : Packets \cup {NoUser}]]]
  <2>1. av'.queue \in Q /\ av'.base \in 0..NPackets
    BY <1>5, <1>6 DEF q, b
  <2> HIDE DEF Q
  <2>2. PICK q0, i, wt, s0, b0, o, fr :
          av' = [queue |-> q0, initialized |-> i, wait |-> wt, waitSeq |-> s0, base |-> b0, out |-> o, freed |-> fr]
    BY DEF IsAv
  <2>3. i \in BOOLEAN /\ wt \in {"off", "running", "expired"} /\ s0 \in Begins /\ o = <<>> /\ fr = <<>>
        /\ q0 \in Q /\ b0 \in 0..NPackets
    BY <2>1, <2>2 DEF AvTypes
  <2>4. av' \in [queue : Q, initialized : BOOLEAN, wait : {"off", "running", "expired"},
                 waitSeq : Begins, base : 0..NPackets, out : {<<>>}, freed : {<<>>}]
    BY <2>2, <2>3
  <2> QED
    BY <2>4 DEF Q
<1>9. RightPacketInSlot'
  BY <1>2, <1>5, <1>7 DEF RightPacketInSlot, q, b
<1>10. HeadWaitArmed'
  BY DEF HeadWaitArmed
<1>11. HeldPackets' = HeldOf(av')
  <2>1. HeldIn(q, b) = {b + i : i \in Filled(q)}
    BY <1>1, FilledIs DEF q, b
  <2> QED
    BY <2>1 DEF HeldPackets, HeldOf, q, b
<1>12. \A x : Cardinality({i \in Filled(q) : Entry(q, i).user = x}) = In(x, HeldIn(q, b))
  <2>1. QueueOk(Packets, q, b)
    BY <1>1 DEF q, b
  <2> QED
    BY <2>1, FilledCount DEF In
<1> QED
  BY <1>8, <1>9, <1>10, <1>11, <1>12 DEF HeldOf, q, b

\* What is booked.
LEMMA BookIs ==
    ASSUME NEW v, IsAv(v), NEW got, Book(v, got)
    PROVE /\ IsAv(av') /\ av'.queue = v.queue /\ av'.initialized = v.initialized /\ av'.wait = v.wait
          /\ av'.waitSeq = v.waitSeq /\ av'.base = v.base /\ av'.out = <<>> /\ av'.freed = <<>>
          /\ shown' = shown \o v.out
          /\ lent' = [n \in Packets |-> lent[n] + In(n, got) - Count(v.freed, n)]
<1>1. PICK q0, i, wt, s0, b0, o, fr :
        v = [queue |-> q0, initialized |-> i, wait |-> wt, waitSeq |-> s0, base |-> b0, out |-> o, freed |-> fr]
  BY DEF IsAv
<1>2. av' = [v EXCEPT !.out = <<>>, !.freed = <<>>]
  BY DEF Book
<1>3. av' = [queue |-> q0, initialized |-> i, wait |-> wt, waitSeq |-> s0, base |-> b0, out |-> <<>>, freed |-> <<>>]
  BY <1>1, <1>2
<1>4. IsAv(av')
  BY <1>3 DEF IsAv
<1>5. /\ av'.queue = v.queue /\ av'.initialized = v.initialized /\ av'.wait = v.wait
      /\ av'.waitSeq = v.waitSeq /\ av'.base = v.base /\ av'.out = <<>> /\ av'.freed = <<>>
  BY <1>1, <1>3
<1>6. shown' = shown \o v.out /\ lent' = [n \in Packets |-> lent[n] + In(n, got) - Count(v.freed, n)]
  BY DEF Book, In
<1> QED
  BY <1>4, <1>5, <1>6

\* No buffer is lost or given back twice by a push.
LEMMA PushConserves ==
    ASSUME NEW v, QueueOk(Packets, v.queue, v.base), NEW n \in Packets, NEW m
    PROVE In(m, HeldOf(v)) + In(m, {n}) = In(m, PushHolds(v, n)) + In(m, PushFrees(v, n))
<1> DEFINE c == PushFloor(v, n)
<1>1. /\ v.base \in Nat /\ v.queue.count \in Nat /\ n \in Nat /\ \A h \in HeldOf(v) : h \in Nat
  BY EndIs, VideoSizes DEF Packets, HeldOf, HeldIn
<1>2. c \in Int
  BY <1>1, Sizes DEF PushFloor, FloorOf
<1> HIDE DEF c
<1>3. CASE PushWants(v, n)
  <2>1. n \notin HeldOf(v)
    BY <1>3 DEF PushWants
  <2>2. PushHolds(v, n) = {h \in HeldOf(v) : h >= c} \cup {n} /\ PushFrees(v, n) = {h \in HeldOf(v) : h < c}
    BY <1>3 DEF PushHolds, PushFrees, c
  <2>3. CASE m = n
    BY <2>1, <2>2, <2>3 DEF In
  <2>4. CASE m # n /\ m \in HeldOf(v)
    <3>1. (m >= c /\ ~(m < c)) \/ (m < c /\ ~(m >= c))
      BY <1>1, <1>2, <2>4
    <3> QED
      BY <2>2, <2>4, <3>1 DEF In
  <2>5. CASE m # n /\ m \notin HeldOf(v)
    BY <2>2, <2>5 DEF In
  <2> QED
    BY <2>3, <2>4, <2>5
<1>4. CASE ~PushWants(v, n)
  BY <1>4 DEF PushHolds, PushFrees
<1> QED
  BY <1>3, <1>4

\* One turn of the loop that ends in a flush: x is the queue that is flushed, new what was
\* pushed to it, D what the push released, got what was received, and the k packets from s
\* on are dispatched.
Turn(x, D, new, got, s, k) ==
    /\ IsAv(x) /\ x.initialized = TRUE /\ x.out = <<>> /\ x.freed = SetToSeq(D) /\ IsFiniteSet(D)
    /\ QueueOk(Packets, x.queue, x.base) /\ LastHeld(x) /\ x.base >= av.base
    /\ x.base + x.queue.count <= newest' + 1
    /\ \A m \in Packets : In(m, HeldOf(av)) + In(m, new) = In(m, HeldOf(x)) + In(m, D)
    /\ \A m \in Packets : Count(postponed, m) + In(m, got) = In(m, new) + Count(postponed', m)
    /\ \E z : Flushed(Packets, x, z, s, k) /\ Book(z, got)

\* How it leaves the queue, and what is booked.
Turned(x, D, got, s, k) ==
    /\ IsAv(av') /\ AvTypes(av') /\ AvReady(av') /\ av'.initialized = TRUE
    /\ av'.queue.count > 0 => av'.wait # "off" /\ av'.waitSeq = av'.queue.begin
    /\ av'.base = s + k /\ s >= av.base /\ av'.base + av'.queue.count = x.base + x.queue.count
    /\ HeldOf(av') = HeldOf(x) \ s..(s + k - 1) /\ s..(s + k - 1) \subseteq HeldOf(x)
    /\ HeldOf(x) \subseteq Packets
    /\ shown' = shown \o RunFrom(s, k)
    /\ lent' = [m \in Packets |-> lent[m] + In(m, got) - (In(m, D) + In(m, s..(s + k - 1)))]

LEMMA TurnIs ==
    ASSUME av.base \in Nat, newest' \in Packets, NEW x, NEW D, NEW new, NEW got, NEW s \in Nat, NEW k \in Nat,
           Turn(x, D, new, got, s, k)
    PROVE Turned(x, D, got, s, k)
<1>1. /\ IsAv(x) /\ x.initialized = TRUE /\ x.out = <<>> /\ x.freed = SetToSeq(D) /\ IsFiniteSet(D)
      /\ QueueOk(Packets, x.queue, x.base) /\ LastHeld(x) /\ x.base >= av.base
      /\ x.base + x.queue.count <= newest' + 1
  BY DEF Turn
<1>2. PICK z : Flushed(Packets, x, z, s, k) /\ Book(z, got)
  BY DEF Turn
<1>3. /\ IsAv(z) /\ QueueOk(Packets, z.queue, z.base) /\ z.base = s + k /\ x.base <= s
      /\ z.base + z.queue.count = x.base + x.queue.count
      /\ s..(s + k - 1) \subseteq HeldOf(x) /\ z.base \notin HeldOf(x)
      /\ HeldOf(z) = HeldOf(x) \ s..(s + k - 1)
      /\ z.out = x.out \o RunFrom(s, k) /\ z.freed = x.freed \o RunFrom(s, k)
      /\ z.queue.count > 0 => z.wait # "off" /\ z.waitSeq = z.queue.begin
      /\ z.wait \in {"off", "running", "expired"} /\ z.waitSeq \in Begins
      /\ z.initialized = x.initialized
  BY <1>2 DEF Flushed
<1>4. /\ IsAv(av') /\ av'.queue = z.queue /\ av'.initialized = z.initialized /\ av'.wait = z.wait
      /\ av'.waitSeq = z.waitSeq /\ av'.base = z.base /\ av'.out = <<>> /\ av'.freed = <<>>
      /\ shown' = shown \o z.out
      /\ lent' = [m \in Packets |-> lent[m] + In(m, got) - Count(z.freed, m)]
  BY <1>2, <1>3, BookIs
<1>5. x.base \in Nat /\ x.queue.count \in Nat /\ z.base \in Nat /\ z.queue.count \in Nat
      /\ newest' \in Nat /\ newest' < NPackets
  <2>1. x.base \in Nat /\ x.queue.count \in Nat
    BY <1>1, EndIs
  <2>2. z.base \in Nat /\ z.queue.count \in Nat
    BY <1>3, EndIs
  <2>3. newest' \in Nat /\ newest' < NPackets
    BY VideoSizes DEF Packets
  <2> QED
    BY <2>1, <2>2, <2>3
<1>6. x.base + x.queue.count <= NPackets
  <2>1. x.base + x.queue.count <= newest' + 1
    BY <1>1
  <2> QED
    BY <1>5, <2>1, VideoSizes
<1>7. HeldOf(av') = HeldOf(z) /\ HeldOf(x) \subseteq Packets
  BY <1>1, <1>4, <1>6, HeldBounds DEF HeldOf
<1>8. AvTypes(av')
  BY <1>1, <1>3, <1>4 DEF AvTypes
<1>9. AvReady(av')
  <2>1. LastHeld(av')
    <3> SUFFICES ASSUME z.queue.count > 0 PROVE z.base + z.queue.count - 1 \in HeldOf(z)
      BY <1>4, <1>7 DEF LastHeld
    <3>1. x.queue.count > 0 /\ z.base + z.queue.count - 1 = x.base + x.queue.count - 1
      <4>1. z.base = s + k /\ x.base <= s /\ z.base + z.queue.count = x.base + x.queue.count
        BY <1>3
      <4> QED
        BY <1>5, <4>1
    <3>2. z.base + z.queue.count - 1 \in HeldOf(x)
      BY <1>1, <3>1 DEF LastHeld
    <3>3. z.base + z.queue.count - 1 \notin s..(s + k - 1)
      BY <1>3, <1>5
    <3> QED
      BY <1>3, <3>2, <3>3
  <2> QED
    BY <1>3, <1>4, <1>6, <1>7, <2>1 DEF AvReady
<1>10. <<>> \o RunFrom(s, k) = RunFrom(s, k) /\ RunFrom(s, k) \in Seq(Int)
  <2>1. RunFrom(s, k) \in Seq(Int)
    BY DEF RunFrom
  <2> QED
    BY <2>1
<1>11. \A m \in Packets : Count(z.freed, m) = In(m, D) + In(m, s..(s + k - 1))
  <2> SUFFICES ASSUME NEW m \in Packets PROVE Count(z.freed, m) = In(m, D) + In(m, s..(s + k - 1))
    OBVIOUS
  <2>1. SetToSeq(D) \in Seq(D \cup Int) /\ RunFrom(s, k) \in Seq(D \cup Int)
    <3>1. SetToSeq(D) \in Seq(D)
      BY <1>1, SeqIs
    <3> QED
      BY <1>10, <3>1
  <2>2. Count(SetToSeq(D), m) = In(m, D)
    BY <1>1, SeqCount DEF In
  <2>3. Count(RunFrom(s, k), m) = In(m, s..(s + k - 1))
    BY RunCount DEF In, RunFrom
  <2>4. Count(SetToSeq(D) \o RunFrom(s, k), m) = Count(SetToSeq(D), m) + Count(RunFrom(s, k), m)
    BY <2>1, CountJoined
  <2> QED
    BY <1>1, <1>3, <2>2, <2>3, <2>4
<1>12. lent' = [m \in Packets |-> lent[m] + In(m, got) - (In(m, D) + In(m, s..(s + k - 1)))]
  BY <1>4, <1>11
<1>13. shown' = shown \o RunFrom(s, k)
  BY <1>1, <1>3, <1>4, <1>10
<1>14. s >= av.base
  BY <1>1, <1>3, <1>5
<1> QED
  BY <1>1, <1>3, <1>4, <1>7, <1>8, <1>9, <1>12, <1>13, <1>14 DEF Turned

LEMMA LenOfJoined == ASSUME NEW S, NEW s \in Seq(S), NEW t \in Seq(S) PROVE Len(s \o t) = Len(s) + Len(t)
  OBVIOUS

\* Nothing is dispatched twice, or after what follows it.
LEMMA TurnShows ==
    ASSUME shown \in Seq(Packets), av.base \in Nat, DispatchedInOrder, \A i \in DOMAIN shown : shown[i] < av.base,
           NEW x, NEW D, NEW got, NEW s \in Nat, NEW k \in Nat, Turned(x, D, got, s, k)
    PROVE /\ shown' \in Seq(Packets) /\ DispatchedInOrder' /\ \A i \in DOMAIN shown' : shown'[i] < av'.base
<1> DEFINE r == RunFrom(s, k)
           m == Len(shown)
<1>1. /\ shown' = shown \o r /\ s >= av.base /\ av'.base = s + k /\ s..(s + k - 1) \subseteq Packets
  BY DEF Turned
<1>2. /\ r \in Seq(Packets) /\ Len(r) = k /\ \A j \in 1..k : r[j] = s + (j - 1)
  <2>1. \A j \in 1..k : s + (j - 1) \in Packets
    BY <1>1
  <2> QED
    BY <2>1 DEF RunFrom
<1>3. m \in Nat /\ DOMAIN shown = 1..m /\ \A i \in 1..m : shown[i] \in Nat
  BY VideoSizes DEF Packets
<1> HIDE DEF r
<1>4. /\ shown' \in Seq(Packets) /\ DOMAIN shown' = 1..(m + k)
      /\ \A i \in 1..m : shown'[i] = shown[i]
      /\ \A i \in (m + 1)..(m + k) : shown'[i] = s + (i - m - 1)
  <2>1. shown \o r \in Seq(Packets) /\ Len(shown \o r) = m + k
    <3>1. shown \o r \in Seq(Packets)
      BY <1>2
    <3>2. Len(shown \o r) = m + k
      <4>1. Len(shown \o r) = Len(shown) + Len(r)
        BY <1>2, LenOfJoined, Zenon
      <4> QED
        BY <1>2, <4>1
    <3> QED
      BY <3>1, <3>2
  <2>2. \A i \in 1..m : (shown \o r)[i] = shown[i]
    BY <1>2
  <2>3. ASSUME NEW i \in (m + 1)..(m + k) PROVE (shown \o r)[i] = s + (i - m - 1)
    <3>1. i - m \in 1..k /\ i \in 1..(m + k) /\ i > m
      BY <1>3
    <3>2. (shown \o r)[i] = r[i - m]
      BY <1>2, <1>3, <3>1
    <3> QED
      BY <1>2, <3>1, <3>2
  <2> HIDE DEF m
  <2> QED
    BY <1>1, <1>3, <2>1, <2>2, <2>3
<1> HIDE DEF m
<1>5. \A i \in 1..(m + k) : i \in 1..m \/ i \in (m + 1)..(m + k)
  BY <1>3
<1>6. \A i \in DOMAIN shown' : shown'[i] < av'.base
  <2> SUFFICES ASSUME NEW i \in 1..(m + k) PROVE shown'[i] < s + k
    BY <1>1, <1>4
  <2>1. CASE i \in 1..m
    <3>1. shown'[i] = shown[i] /\ shown[i] < av.base /\ shown[i] \in Nat
      BY <1>3, <1>4, <2>1
    <3> QED
      BY <1>1, <3>1
  <2>2. CASE i \in (m + 1)..(m + k)
    <3>1. shown'[i] = s + (i - m - 1)
      BY <1>4, <2>2
    <3> QED
      BY <1>3, <2>2, <3>1
  <2> QED
    BY <1>5, <2>1, <2>2
<1>7. DispatchedInOrder'
  <2> SUFFICES ASSUME NEW i \in 1..(m + k), NEW j \in 1..(m + k), i < j PROVE shown'[i] < shown'[j]
    BY <1>4 DEF DispatchedInOrder
  <2>1. CASE j \in 1..m
    <3>1. i \in 1..m
      BY <1>3, <2>1
    <3> QED
      BY <1>3, <1>4, <2>1, <3>1 DEF DispatchedInOrder
  <2>2. CASE i \in 1..m /\ j \in (m + 1)..(m + k)
    <3>1. shown'[i] = shown[i] /\ shown[i] < av.base /\ shown[i] \in Nat /\ shown'[j] = s + (j - m - 1)
      BY <1>3, <1>4, <2>2
    <3>2. j - m - 1 >= 0 /\ j \in Nat
      BY <1>3, <2>2
    <3> QED
      BY <1>1, <1>3, <3>1, <3>2
  <2>3. CASE i \in (m + 1)..(m + k) /\ j \in (m + 1)..(m + k)
    <3>1. shown'[i] = s + (i - m - 1) /\ shown'[j] = s + (j - m - 1)
      BY <1>4, <2>3
    <3> QED
      BY <1>3, <3>1
  <2> QED
    BY <1>5, <2>1, <2>2, <2>3
<1> QED
  BY <1>4, <1>6, <1>7

\* One packet more at the end of a list, or one less at its front.
LEMMA CountSteps ==
    ASSUME NEW D, NEW s \in Seq(D), NEW m
    PROVE /\ Count(s, m) \in Nat
          /\ s # <<>> => Count(s, m) = In(m, {Head(s)}) + Count(Tail(s), m)
<1>1. Count(s, m) \in Nat
  BY CountJoined
<1>2. ASSUME s # <<>> PROVE Count(s, m) = In(m, {Head(s)}) + Count(Tail(s), m)
  <2> DEFINE h == Head(s)
             t == Tail(s)
  <2>1. s = <<h>> \o t /\ <<h>> \in Seq(D) /\ t \in Seq(D)
    BY <1>2
  <2> HIDE DEF h, t
  <2>2. Count(<<h>>, m) = In(m, {h})
    BY CountOne DEF In
  <2>3. Count(<<h>> \o t, m) = Count(<<h>>, m) + Count(t, m)
    BY <2>1, CountJoined
  <2> QED
    BY <2>1, <2>2, <2>3 DEF h, t
<1> QED
  BY <1>1, <1>2

\* PacketBuffersConserved in true numbers.
LEMMA PacketBuffersAre ==
    ASSUME VideoTypeOK, RightPacketInSlot, LateIsBehind, PacketBuffersConserved
    PROVE \A m \in Packets : lent[m] = In(m, HeldOf(av)) + Count(postponed, m)
BY VideoIs DEF PacketBuffersConserved

LEMMA TurnConserves ==
    ASSUME VideoTypeOK, RightPacketInSlot, LateIsBehind, PacketBuffersConserved, postponed' \in Seq(Packets),
           NEW x, NEW D, NEW new, NEW got, NEW s \in Nat, NEW k \in Nat, Turn(x, D, new, got, s, k),
           Turned(x, D, got, s, k)
    PROVE PacketBuffersConserved' /\ lent' \in [Packets -> Nat]
<1> DEFINE run == s..(s + k - 1)
<1>1. /\ IsAv(av') /\ AvTypes(av') /\ AvReady(av')
      /\ av'.queue.count > 0 => av'.wait # "off" /\ av'.waitSeq = av'.queue.begin
      /\ HeldOf(av') = HeldOf(x) \ run /\ run \subseteq HeldOf(x)
      /\ lent' = [m \in Packets |-> lent[m] + In(m, got) - (In(m, D) + In(m, run))]
  BY DEF Turned
<1>2. \A m \in Packets : Cardinality({i \in Filled(av'.queue) : Entry(av'.queue, i).user = m}) = In(m, HeldOf(av'))
  BY <1>1, AvKept
<1> HIDE DEF run
<1>3. ASSUME NEW m \in Packets
      PROVE lent'[m] = In(m, HeldOf(av')) + Count(postponed', m) /\ lent'[m] \in Nat
  <2>1. lent[m] = In(m, HeldOf(av)) + Count(postponed, m)
    BY PacketBuffersAre
  <2>2. /\ In(m, HeldOf(av)) + In(m, new) = In(m, HeldOf(x)) + In(m, D)
        /\ Count(postponed, m) + In(m, got) = In(m, new) + Count(postponed', m)
    BY DEF Turn
  <2>3. In(m, HeldOf(x)) = In(m, HeldOf(av')) + In(m, run)
    BY <1>1 DEF In
  <2>4. /\ In(m, HeldOf(av)) \in Nat /\ In(m, new) \in Nat /\ In(m, HeldOf(x)) \in Nat /\ In(m, D) \in Nat
        /\ In(m, got) \in Nat /\ In(m, run) \in Nat /\ In(m, HeldOf(av')) \in Nat
    BY DEF In
  <2>5. Count(postponed, m) \in Nat /\ Count(postponed', m) \in Nat
    BY CountSteps DEF VideoTypeOK
  <2>6. lent'[m] = lent[m] + In(m, got) - (In(m, D) + In(m, run))
    BY <1>1
  <2>7. lent'[m] = (In(m, HeldOf(av)) + Count(postponed, m)) + In(m, got) - (In(m, D) + In(m, run))
    BY <2>1, <2>6
  <2> DEFINE a == In(m, HeldOf(av))
             b == In(m, HeldOf(x))
             c == In(m, HeldOf(av'))
             d == In(m, D)
             f == In(m, new)
             g == In(m, got)
             h == In(m, run)
             p == Count(postponed, m)
             r == Count(postponed', m)
             t == lent'[m]
  <2>8. /\ t = (a + p) + g - (d + h) /\ a + f = b + d /\ p + g = f + r /\ b = c + h
        /\ a \in Nat /\ b \in Nat /\ c \in Nat /\ d \in Nat /\ f \in Nat /\ g \in Nat /\ h \in Nat
        /\ p \in Nat /\ r \in Nat
    BY <2>2, <2>3, <2>4, <2>5, <2>7
  <2> HIDE DEF a, b, c, d, f, g, h, p, r, t
  <2>9. t = c + r /\ t \in Nat
    BY <2>8
  <2> QED
    BY <2>9 DEF c, r, t
<1>4. PacketBuffersConserved'
  BY <1>2, <1>3 DEF PacketBuffersConserved
<1> QED
  BY <1>1, <1>3, <1>4

WindowInv ==
    /\ VideoTypeOK /\ RightPacketInSlot /\ HeadWaitArmed /\ PacketBuffersConserved
    /\ DispatchedInOrder /\ LateIsBehind

\* What the postponed packets may be once the window ends at e.
Behind(s, e, top) ==
    \A i \in DOMAIN s : /\ s[i] <= top /\ e <= s[i] + Delay + 1
                        /\ \A j \in DOMAIN s : i < j => s[i] <= s[j] + Delay

LEMMA TurnKeeps ==
    ASSUME VideoQueueInv, receiving, newest' \in Packets, {receiving', keyed', draining'} \subseteq BOOLEAN,
           postponed' \in Seq(Packets), Len(postponed') <= PostponeMax,
           NEW x, NEW D, NEW new, NEW got, NEW s \in Nat, NEW k \in Nat, Turn(x, D, new, got, s, k),
           Behind(postponed', x.base + x.queue.count, newest')
    PROVE WindowInv'
<1>1. VideoTypeOK /\ RightPacketInSlot /\ PacketBuffersConserved /\ DispatchedInOrder /\ LateIsBehind
  BY DEF VideoQueueInv
<1>2. av.base \in Nat /\ shown \in Seq(Packets) /\ \A i \in DOMAIN shown : shown[i] < av.base
  BY <1>1, VideoIs DEF VideoTypeOK, LateIsBehind
<1>3. Turned(x, D, got, s, k)
  BY <1>2, TurnIs
<1>4. /\ IsAv(av') /\ AvTypes(av') /\ AvReady(av') /\ av'.initialized = TRUE
      /\ av'.queue.count > 0 => av'.wait # "off" /\ av'.waitSeq = av'.queue.begin
      /\ av'.base + av'.queue.count = x.base + x.queue.count
  BY <1>3 DEF Turned
<1>5. /\ av' \in [queue : [begin : Begins, count : 0..QueueSize,
                           slot : [0..(QueueSize - 1) -> [set : BOOLEAN, user : Packets \cup {NoUser}]]],
                  initialized : BOOLEAN, wait : {"off", "running", "expired"}, waitSeq : Begins,
                  base : 0..NPackets, out : {<<>>}, freed : {<<>>}]
      /\ RightPacketInSlot' /\ HeadWaitArmed'
  BY <1>4, AvKept
<1>6. shown' \in Seq(Packets) /\ DispatchedInOrder' /\ \A i \in DOMAIN shown' : shown'[i] < av'.base
  BY <1>1, <1>2, <1>3, TurnShows
<1>7. PacketBuffersConserved' /\ lent' \in [Packets -> Nat]
  BY <1>1, <1>3, TurnConserves
<1>8. VideoTypeOK'
  BY <1>5, <1>6, <1>7 DEF VideoTypeOK
<1>9. LateIsBehind'
  <2>1. x.base + x.queue.count <= newest' + 1
    BY DEF Turn
  <2>2. av'.base + av'.queue.count <= newest' + 1
    BY <1>4, <2>1
  <2>3. \A i \in DOMAIN postponed' :
            /\ postponed'[i] <= newest' /\ av'.base + av'.queue.count <= postponed'[i] + Delay + 1
            /\ \A j \in DOMAIN postponed' : i < j => postponed'[i] <= postponed'[j] + Delay
    BY <1>4 DEF Behind
  <2> QED
    BY <1>4, <1>6, <2>2, <2>3 DEF LateIsBehind
<1> QED
  BY <1>5, <1>6, <1>7, <1>8, <1>9 DEF WindowInv

\* The queue that packet n is pushed to: the one there is, or the one it begins.
Begun(w, n) ==
    /\ HandleAv(av, n) = HandleAv(w, n) /\ IsAv(w) /\ AvTypes(w) /\ w.initialized = TRUE
    /\ QueueOk(Packets, w.queue, w.base) /\ LastHeld(w) /\ w.base >= av.base /\ HeldOf(w) = HeldOf(av)
    /\ w.base \notin HeldOf(w)
    /\ w.queue.count = 0 \/ QueueSize > 1
    /\ \/ av.initialized /\ w = av
       \/ ~av.initialized /\ w.base \in 0..n /\ n - w.base < QueueSize /\ w.queue.count = 0

LEMMA BegunIs ==
    ASSUME VideoTypeOK, RightPacketInSlot, LateIsBehind, NEW n \in Packets
    PROVE Begun(InitQueue(av, n), n)
<1> DEFINE w == InitQueue(av, n)
<1>1. /\ IsAv(av) /\ AvTypes(av) /\ av.base \in Nat
      /\ av.initialized => AvReady(av) /\ (av.queue.count = 0 \/ QueueSize > 1)
      /\ ~av.initialized => av.base = 0 /\ HeldOf(av) = {}
  BY VideoIs
<1>2. CASE av.initialized
  <2>1. w = av
    BY <1>2 DEF InitQueue
  <2>2. av.initialized = TRUE
    BY <1>1, <1>2 DEF AvTypes
  <2> HIDE DEF w
  <2>3. Begun(av, n)
    BY <1>1, <1>2, <2>2 DEF Begun, AvReady
  <2> QED
    BY <2>1, <2>3 DEF w
<1>3. CASE ~av.initialized
  <2>1. n \in Nat
    BY VideoSizes DEF Packets
  <2>2. /\ IsAv(w) /\ w.initialized = TRUE /\ w.wait = "off" /\ w.waitSeq \in Begins
        /\ w.out = av.out /\ w.freed = av.freed /\ w.base = FirstBegin(n)
        /\ QueueOk(Packets, w.queue, w.base) /\ HeldOf(w) = {} /\ w.queue.count = 0
    <3>1. Fresh(av, w, FirstBegin(n))
      BY <1>1, <1>3, InitQueueIs
    <3> HIDE DEF w
    <3> QED
      BY <3>1 DEF Fresh
  <2>3. InitQueue(w, n) = w
    <3> HIDE DEF w
    <3> QED
      BY <2>2 DEF InitQueue
  <2>4. HandleAv(av, n) = HandleAv(w, n)
    <3> HIDE DEF w
    <3>1. InitQueue(w, n) = InitQueue(av, n)
      BY <2>3 DEF w
    <3> QED
      BY <3>1 DEF HandleAv
  <2> HIDE DEF w
  <2>5. w.base \in 0..n /\ n - w.base < QueueSize /\ w.base >= av.base
    BY <1>1, <1>3, <2>1, <2>2, FirstBeginIs
  <2>6. AvTypes(w)
    BY <1>1, <2>2 DEF AvTypes
  <2>7. LastHeld(w)
    BY <2>2 DEF LastHeld
  <2>8. Begun(w, n)
    BY <1>1, <1>3, <2>2, <2>4, <2>5, <2>6, <2>7 DEF Begun
  <2> QED
    BY <2>8 DEF w
<1> QED
  BY <1>2, <1>3

\* A packet handled is a turn.
Handled(n, got, w, x, s, k) ==
    /\ Begun(w, n) /\ PushedTo(w, n, x) /\ Turn(x, PushFrees(w, n), {n}, got, s, k)
    /\ Flushed(Packets, x, HandleAv(w, n), s, k) /\ x.base >= w.base
    /\ x.base + x.queue.count <= av.base + av.queue.count \/ x.base + x.queue.count <= n + 1

LEMMA HandledIs ==
    ASSUME VideoTypeOK, RightPacketInSlot, LateIsBehind, NEW n \in Packets, NEW got, Book(HandleAv(av, n), got),
           newest' \in Packets, n <= newest', newest <= newest', av.base + av.queue.count <= n + Delay + 1,
           av.initialized => n - av.base < Modulus,
           \A m \in Packets : Count(postponed, m) + In(m, got) = In(m, {n}) + Count(postponed', m)
    PROVE \E w, x : \E s \in Nat, k \in Nat : Handled(n, got, w, x, s, k)
<1> DEFINE w == InitQueue(av, n)
<1>1. Begun(w, n)
  BY BegunIs
<1> HIDE DEF w
<1>2. /\ HandleAv(av, n) = HandleAv(w, n) /\ IsAv(w) /\ AvTypes(w) /\ w.initialized = TRUE
      /\ QueueOk(Packets, w.queue, w.base) /\ LastHeld(w) /\ w.base >= av.base /\ HeldOf(w) = HeldOf(av)
      /\ w.queue.count = 0 \/ QueueSize > 1
      /\ \/ av.initialized /\ w = av
         \/ ~av.initialized /\ w.base \in 0..n /\ n - w.base < QueueSize /\ w.queue.count = 0
  BY <1>1 DEF Begun
<1>3. /\ w.base \in Nat /\ w.queue.count \in Nat /\ n \in Nat /\ n < NPackets /\ newest' \in Nat /\ newest \in Nat
      /\ newest' < NPackets
  <2>1. w.base \in Nat /\ w.queue.count \in Nat
    BY <1>2, EndIs
  <2>2. newest \in Packets
    BY DEF VideoTypeOK
  <2>3. n \in Nat /\ n < NPackets /\ newest' \in Nat /\ newest \in Nat /\ newest' < NPackets
    BY <2>2, VideoSizes DEF Packets
  <2> QED
    BY <2>1, <2>3
<1>4. av.base \in Nat /\ av.queue.count \in Nat /\ av.base + av.queue.count <= newest + 1
  BY VideoIs
<1>5. /\ w.base - n < Modulus \div 2 /\ n - w.base < Modulus
      /\ w.base + w.queue.count <= av.base + av.queue.count \/ w.base + w.queue.count <= n + 1
  <2>1. CASE av.initialized /\ w = av
    <3>1. n - av.base < Modulus
      BY <2>1
    <3> QED
      BY <1>3, <1>4, <2>1, <3>1, VideoSizes, Sizes
  <2>2. CASE w.base \in 0..n /\ n - w.base < QueueSize /\ w.queue.count = 0
    BY <1>3, <2>2, Sizes
  <2> QED
    BY <1>2, <2>1, <2>2
<1>6. w.base + w.queue.count <= NPackets /\ w.base + w.queue.count <= newest' + 1
  <2>1. w.base + w.queue.count <= newest' + 1
    BY <1>3, <1>4, <1>5
  <2> QED
    BY <1>3, <2>1, VideoSizes
<1>7. PICK x : /\ PushedTo(w, n, x)
              /\ \E s \in Nat, k \in Nat : Flushed(Packets, x, HandleAv(w, n), s, k)
  BY <1>2, <1>5, <1>6, HandleAvIs DEF AvTypes
<1>8. PICK s \in Nat, k \in Nat : Flushed(Packets, x, HandleAv(w, n), s, k)
  BY <1>7
<1> DEFINE z == HandleAv(w, n)
<1> HIDE DEF z
<1>9. LastHeld(x) /\ x.base >= w.base
  BY <1>2, <1>6, <1>7, PushedEnd
<1>10. /\ IsAv(x) /\ x.initialized = TRUE /\ x.out = <<>> /\ x.freed = SetToSeq(PushFrees(w, n))
       /\ IsFiniteSet(PushFrees(w, n)) /\ QueueOk(Packets, x.queue, x.base)
       /\ HeldOf(x) = PushHolds(w, n) /\ x.base + x.queue.count = PushEnd(w, n)
  BY <1>2, <1>7 DEF PushedTo
<1>11. x.base + x.queue.count = n + 1 \/ x.base + x.queue.count = w.base + w.queue.count
  BY <1>10 DEF PushEnd
<1>12. /\ x.base + x.queue.count <= av.base + av.queue.count \/ x.base + x.queue.count <= n + 1
       /\ x.base + x.queue.count <= newest' + 1 /\ x.base >= av.base
  <2>1. x.base \in Nat
    BY <1>10, EndIs
  <2> QED
    BY <1>2, <1>3, <1>4, <1>5, <1>6, <1>9, <1>11, <2>1
<1>13. \A m \in Packets : In(m, HeldOf(av)) + In(m, {n}) = In(m, HeldOf(x)) + In(m, PushFrees(w, n))
  BY <1>2, <1>10, PushConserves
<1>14. Flushed(Packets, x, z, s, k) /\ Book(z, got)
  BY <1>2, <1>8 DEF z
<1>15. Turn(x, PushFrees(w, n), {n}, got, s, k)
  BY <1>9, <1>10, <1>12, <1>13, <1>14 DEF Turn
<1>16. Handled(n, got, w, x, s, k)
  BY <1>1, <1>7, <1>8, <1>9, <1>12, <1>15 DEF Handled
<1> QED
  BY <1>16

LEMMA HandlePacketTurns ==
    ASSUME VideoTypeOK, RightPacketInSlot, LateIsBehind, NEW n \in Packets, HandlePacket(n)
    PROVE \E w, x : \E s \in Nat, k \in Nat :
             Handled(n, {n}, w, x, s, k) /\ Behind(postponed', x.base + x.queue.count, newest')
<1>1. /\ n >= newest - Delay /\ \A i \in DOMAIN postponed : n <= postponed[i] + Delay
      /\ newest' = (IF n > newest THEN n ELSE newest)
      /\ Book(HandleAv(av, n), {n}) /\ postponed' = postponed
  BY DEF HandlePacket, PacketArrives
<1>2. n \in Nat /\ newest \in Nat /\ newest \in Packets
  BY VideoSizes DEF VideoTypeOK, Packets
<1>3. newest' \in Packets /\ n <= newest' /\ newest <= newest'
  <2>1. CASE n > newest
    BY <1>1, <1>2, <2>1
  <2>2. CASE ~(n > newest)
    BY <1>1, <1>2, <2>2
  <2> QED
    BY <2>1, <2>2
<1>4. av.base \in Nat /\ av.queue.count \in Nat /\ av.base + av.queue.count <= newest + 1
  BY VideoIs
<1>5. av.base + av.queue.count <= n + Delay + 1
  BY <1>1, <1>2, <1>4, VideoSizes
<1>6. \A m \in Packets : Count(postponed, m) + In(m, {n}) = In(m, {n}) + Count(postponed', m)
  <2>1. \A m \in Packets : Count(postponed, m) \in Nat /\ In(m, {n}) \in Nat
    BY CountSteps DEF VideoTypeOK, In
  <2> QED
    BY <1>1, <2>1
<1>12. av.initialized => n - av.base < Modulus
  <2>1. Outage \in Nat /\ Outage < Modulus /\ Modulus \in Nat
    BY VideoSizes, Sizes
  <2>2. av.initialized => n <= av.base + Outage
    BY DEF HandlePacket, PacketArrives
  <2> QED
    BY <1>2, <1>4, <2>1, <2>2
<1>7. PICK w, x : \E s \in Nat, k \in Nat : Handled(n, {n}, w, x, s, k)
  BY <1>1, <1>3, <1>5, <1>6, <1>12, HandledIs
<1>8. PICK s \in Nat, k \in Nat : Handled(n, {n}, w, x, s, k)
  BY <1>7
<1>9. /\ x.base + x.queue.count <= av.base + av.queue.count \/ x.base + x.queue.count <= n + 1
      /\ x.base \in Nat /\ x.queue.count \in Nat
  <2>1. QueueOk(Packets, x.queue, x.base)
    BY <1>8 DEF Handled, Turn
  <2> QED
    BY <1>8, <2>1, EndIs DEF Handled
<1>10. ASSUME NEW i \in DOMAIN postponed
       PROVE /\ postponed[i] <= newest' /\ x.base + x.queue.count <= postponed[i] + Delay + 1
             /\ \A j \in DOMAIN postponed : i < j => postponed[i] <= postponed[j] + Delay
  <2>1. postponed[i] \in Nat
    <3>1. postponed \in Seq(Packets)
      BY DEF VideoTypeOK
    <3>2. postponed[i] \in Packets
      BY <3>1
    <3> QED
      BY <3>2, VideoSizes DEF Packets
  <2>2. /\ postponed[i] <= newest /\ av.base + av.queue.count <= postponed[i] + Delay + 1
        /\ \A j \in DOMAIN postponed : i < j => postponed[i] <= postponed[j] + Delay
    BY DEF LateIsBehind
  <2>3. n <= postponed[i] + Delay
    BY <1>1
  <2>4. newest' \in Nat
    BY <1>1, <1>2
  <2>5. x.base + x.queue.count <= postponed[i] + Delay + 1
    BY <1>2, <1>4, <1>9, <2>1, <2>2, <2>3, VideoSizes
  <2>6. postponed[i] <= newest'
    BY <1>2, <1>3, <2>1, <2>2, <2>4
  <2> QED
    BY <2>2, <2>5, <2>6
<1>11. Behind(postponed', x.base + x.queue.count, newest')
  BY <1>1, <1>10 DEF Behind
<1> QED
  BY <1>8, <1>11

LEMMA DrainTurns ==
    ASSUME VideoTypeOK, RightPacketInSlot, LateIsBehind, PostponedIsNear, Drain
    PROVE \E n \in Packets : \E w, x : \E s \in Nat, k \in Nat :
             n = Head(postponed) /\ Handled(n, {}, w, x, s, k) /\ Behind(postponed', x.base + x.queue.count, newest')
<1> DEFINE n == Head(postponed)
           t == Tail(postponed)
<1>1. /\ postponed # <<>> /\ Book(HandleAv(av, n), {}) /\ postponed' = t /\ newest' = newest
  BY DEF Drain
<1>2. postponed \in Seq(Packets) /\ newest \in Packets
  BY DEF VideoTypeOK
<1>3. /\ Len(postponed) \in Nat /\ Len(postponed) > 0 /\ n = postponed[1] /\ n \in Packets /\ t \in Seq(Packets)
      /\ Len(t) = Len(postponed) - 1 /\ \A i \in 1..Len(t) : t[i] = postponed[i + 1]
  BY <1>1, <1>2
<1>4. n \in Nat /\ newest \in Nat /\ 1 \in DOMAIN postponed
  BY <1>2, <1>3, VideoSizes DEF Packets
<1>5. n <= newest /\ av.base + av.queue.count <= n + Delay + 1
  BY <1>3, <1>4 DEF LateIsBehind
<1> HIDE DEF n, t
<1>6. \A m \in Packets : Count(postponed, m) + In(m, {}) = In(m, {n}) + Count(postponed', m)
  <2> SUFFICES ASSUME NEW m \in Packets PROVE Count(postponed, m) + In(m, {}) = In(m, {n}) + Count(postponed', m)
    OBVIOUS
  <2>1. Count(postponed, m) = In(m, {n}) + Count(t, m) /\ Count(postponed, m) \in Nat
    BY <1>1, <1>2, CountSteps DEF n, t
  <2>2. In(m, {}) = 0
    BY DEF In
  <2> QED
    BY <1>1, <2>1, <2>2
<1>7. newest' \in Packets /\ n <= newest' /\ newest <= newest'
  BY <1>1, <1>2, <1>4, <1>5
<1>14. av.initialized => n - av.base < Modulus
  <2>1. av.initialized => n < av.base + Modulus
    BY <1>3, <1>4 DEF PostponedIsNear
  <2>2. av.base \in Nat /\ Modulus \in Nat
    BY VideoIs, Sizes
  <2> QED
    BY <1>4, <2>1, <2>2
<1>8. PICK w, x : \E s \in Nat, k \in Nat : Handled(n, {}, w, x, s, k)
  BY <1>1, <1>3, <1>5, <1>6, <1>7, <1>14, HandledIs
<1>9. PICK s \in Nat, k \in Nat : Handled(n, {}, w, x, s, k)
  BY <1>8
<1>10. /\ x.base + x.queue.count <= av.base + av.queue.count \/ x.base + x.queue.count <= n + 1
       /\ x.base \in Nat /\ x.queue.count \in Nat
  <2>1. QueueOk(Packets, x.queue, x.base)
    BY <1>9 DEF Handled, Turn
  <2> QED
    BY <1>9, <2>1, EndIs DEF Handled
<1>11. av.base \in Nat /\ av.queue.count \in Nat
  BY VideoIs
<1>12. ASSUME NEW i \in 1..Len(t)
       PROVE /\ t[i] <= newest /\ x.base + x.queue.count <= t[i] + Delay + 1
             /\ \A j \in 1..Len(t) : i < j => t[i] <= t[j] + Delay
  <2>1. i + 1 \in DOMAIN postponed /\ t[i] = postponed[i + 1] /\ 1 < i + 1 /\ postponed[i + 1] \in Packets
    BY <1>2, <1>3
  <2>2. /\ t[i] <= newest /\ av.base + av.queue.count <= t[i] + Delay + 1
        /\ \A j \in DOMAIN postponed : i + 1 < j => t[i] <= postponed[j] + Delay
    BY <2>1 DEF LateIsBehind
  <2>3. n <= t[i] + Delay
    BY <1>3, <1>4, <2>1 DEF LateIsBehind
  <2>4. t[i] \in Nat
    BY <2>1, VideoSizes DEF Packets
  <2>5. x.base + x.queue.count <= t[i] + Delay + 1
    <3>1. Delay \in Nat
      BY VideoSizes
    <3>2. CASE x.base + x.queue.count <= av.base + av.queue.count
      BY <1>10, <1>11, <2>2, <2>4, <3>1, <3>2
    <3>3. CASE x.base + x.queue.count <= n + 1
      <4> DEFINE e == x.base + x.queue.count
                 f == t[i]
      <4>1. e \in Nat /\ f \in Nat /\ e <= n + 1 /\ n <= f + Delay
        BY <1>10, <2>3, <2>4, <3>3
      <4> HIDE DEF e, f
      <4>2. e <= f + Delay + 1
        BY <1>4, <3>1, <4>1
      <4> QED
        BY <4>2 DEF e, f
    <3> QED
      BY <1>10, <3>2, <3>3
  <2>6. ASSUME NEW j \in 1..Len(t), i < j PROVE t[i] <= t[j] + Delay
    <3>1. j + 1 \in DOMAIN postponed /\ t[j] = postponed[j + 1] /\ i + 1 < j + 1
      BY <1>2, <1>3, <2>6
    <3> QED
      BY <2>2, <3>1
  <2> QED
    BY <2>2, <2>5, <2>6
<1>13. Behind(postponed', x.base + x.queue.count, newest')
  <2>1. DOMAIN t = 1..Len(t)
    BY <1>3
  <2> QED
    BY <1>1, <1>12, <2>1 DEF Behind
<1> QED
  BY <1>3, <1>9, <1>13 DEF n

\* A flush without a packet is a turn too.
LEMMA TimeoutTurns ==
    ASSUME VideoTypeOK, RightPacketInSlot, LateIsBehind, ReceiveTimeout
    PROVE \E s \in Nat, k \in Nat :
             /\ Turn(av, {}, {}, {}, s, k) /\ Behind(postponed', av.base + av.queue.count, newest')
             /\ \E z : Flushed(Packets, av, z, s, k) /\ Book(z, {})
<1>1. av.initialized /\ Book(Flush(av), {}) /\ postponed' = postponed /\ newest' = newest
  BY DEF ReceiveTimeout
<1>2. /\ IsAv(av) /\ AvTypes(av) /\ AvReady(av) /\ av.initialized = TRUE
      /\ av.base \in Nat /\ av.base + av.queue.count <= newest + 1
  BY <1>1, VideoIs DEF AvTypes
<1>3. /\ QueueOk(Packets, av.queue, av.base) /\ LastHeld(av) /\ av.wait \in {"off", "running", "expired"}
      /\ av.waitSeq \in Begins /\ av.out = <<>> /\ av.freed = <<>>
  BY <1>2 DEF AvReady, AvTypes
<1>4. PICK s \in Nat, k \in Nat : Flushed(Packets, av, Flush(av), s, k)
  <2>1. av.out \in Seq({}) /\ av.freed \in Seq({})
    BY <1>3
  <2>2. av.queue.count > 0 => av.base + av.queue.count - 1 \in HeldOf(av)
    BY <1>3 DEF LastHeld
  <2> QED
    BY <1>2, <1>3, <2>1, <2>2, FlushIs
<1> DEFINE z == Flush(av)
<1> HIDE DEF z
<1>5. Flushed(Packets, av, z, s, k) /\ Book(z, {})
  BY <1>1, <1>4 DEF z
<1>6. IsFiniteSet({}) /\ SetToSeq({}) = <<>>
  <2>1. IsFiniteSet({}) /\ Cardinality({}) = 0
    BY FS_EmptySet
  <2>2. SetToSeq({}) \in Seq({}) /\ Len(SetToSeq({})) = 0
    BY <2>1, SeqIs
  <2> QED
    BY <2>1, <2>2
<1>7. \A m \in Packets : Count(postponed, m) + In(m, {}) = In(m, {}) + Count(postponed', m)
  <2>1. \A m \in Packets : Count(postponed, m) \in Nat /\ In(m, {}) = 0
    BY CountSteps DEF VideoTypeOK, In
  <2> QED
    BY <1>1, <2>1
<1>8. Turn(av, {}, {}, {}, s, k)
  <2>1. av.base >= av.base
    BY <1>2
  <2>2. \A m \in Packets : In(m, HeldOf(av)) + In(m, {}) = In(m, HeldOf(av)) + In(m, {})
    OBVIOUS
  <2> QED
    BY <1>1, <1>2, <1>3, <1>5, <1>6, <1>7, <2>1, <2>2 DEF Turn
<1>9. Behind(postponed', av.base + av.queue.count, newest')
  BY <1>1 DEF Behind, LateIsBehind
<1> QED
  BY <1>5, <1>8, <1>9

-----------------------------------------------------------------------------
(* The other actions.                                                      *)

LEMMA BookedFreed ==
    ASSUME shown \in Seq(Packets), NEW v, IsAv(v), v.out = <<>>, v.freed = <<>>, NEW f, NEW got,
           Book([v EXCEPT !.freed = f], got)
    PROVE /\ av' = v /\ shown' = shown
          /\ lent' = [m \in Packets |-> lent[m] + In(m, got) - Count(f, m)]
<1> DEFINE z == [v EXCEPT !.freed = f]
<1>1. PICK q, i, w, s, b, o, f0 :
          v = [queue |-> q, initialized |-> i, wait |-> w, waitSeq |-> s, base |-> b, out |-> o, freed |-> f0]
  BY DEF IsAv
<1>3. o = <<>> /\ f0 = <<>>
  BY <1>1
<1>4. z = [queue |-> q, initialized |-> i, wait |-> w, waitSeq |-> s, base |-> b, out |-> o, freed |-> f]
  BY <1>1
<1>5. Book(z, got)
  OBVIOUS
<1> HIDE DEF z
<1>6. av' = [queue |-> q, initialized |-> i, wait |-> w, waitSeq |-> s, base |-> b, out |-> <<>>, freed |-> <<>>]
  <2>1. av' = [z EXCEPT !.out = <<>>, !.freed = <<>>]
    BY <1>5 DEF Book
  <2> QED
    BY <1>4, <2>1
<1>7. z.out = <<>> /\ z.freed = f
  BY <1>3, <1>4
<1>8. av' = v
  BY <1>1, <1>3, <1>6
<1>9. shown' = shown
  <2>1. shown' = shown \o <<>>
    BY <1>5, <1>7 DEF Book
  <2> QED
    BY <2>1
<1>10. lent' = [m \in Packets |-> lent[m] + In(m, got) - Count(f, m)]
  BY <1>5, <1>7 DEF Book, In
<1> QED
  BY <1>8, <1>9, <1>10

LEMMA Balance ==
    ASSUME NEW l, NEW c \in Nat, NEW d \in Nat, NEW e \in Nat, NEW g \in Nat, NEW h \in Nat, l = h + c, c + g = e + d
    PROVE l + g - e = h + d
  OBVIOUS

LEMMA BookedAs ==
    ASSUME VideoTypeOK, RightPacketInSlot, LateIsBehind, PacketBuffersConserved, postponed' \in Seq(Packets),
           NEW v, IsAv(v), AvTypes(v), HeldOf(v) = HeldOf(av), NEW f \in Seq(Packets), NEW got,
           Book([v EXCEPT !.freed = f], got),
           \A m \in Packets : Count(postponed, m) + In(m, got) = Count(f, m) + Count(postponed', m)
    PROVE /\ av' = v /\ shown' = shown
          /\ lent' = [m \in Packets |-> In(m, HeldOf(v)) + Count(postponed', m)]
<1>1. v.out = <<>> /\ v.freed = <<>> /\ shown \in Seq(Packets)
  BY DEF AvTypes, VideoTypeOK
<1>2. /\ av' = v /\ shown' = shown
      /\ lent' = [m \in Packets |-> lent[m] + In(m, got) - Count(f, m)]
  BY <1>1, BookedFreed
<1>10. lent' = [m \in Packets |-> In(m, HeldOf(v)) + Count(postponed', m)]
  <2>2. ASSUME NEW m \in Packets
        PROVE lent[m] + In(m, got) - Count(f, m) = In(m, HeldOf(v)) + Count(postponed', m)
    <3>1. lent[m] = In(m, HeldOf(v)) + Count(postponed, m)
      BY PacketBuffersAre
    <3>2. /\ Count(postponed, m) \in Nat /\ Count(postponed', m) \in Nat /\ Count(f, m) \in Nat
          /\ In(m, got) \in Nat /\ In(m, HeldOf(v)) \in Nat
      BY CountSteps DEF VideoTypeOK, In
    <3>3. Count(postponed, m) + In(m, got) = Count(f, m) + Count(postponed', m)
      OBVIOUS
    <3> DEFINE l == lent[m]
               c == Count(postponed, m)
               d == Count(postponed', m)
               e == Count(f, m)
               g == In(m, got)
               h == In(m, HeldOf(v))
    <3> HIDE DEF l, c, d, e, g, h
    <3>4. /\ l = h + c /\ c \in Nat /\ d \in Nat /\ e \in Nat /\ g \in Nat /\ h \in Nat
          /\ c + g = e + d
      BY <3>1, <3>2, <3>3 DEF l, c, d, e, g, h
    <3>5. l + g - e = h + d
      BY <3>4, Balance
    <3> QED
      BY <3>5 DEF l, c, d, e, g, h
  <2> QED
    BY <1>2, <2>2
<1> QED
  BY <1>2, <1>10

\* With the queue as it was, only the postponed packets need a look.
LEMMA SameQueueKeeps ==
    ASSUME VideoQueueInv, av' = av, shown' = shown, newest' \in Packets, {receiving', keyed', draining'} \subseteq BOOLEAN,
           postponed' \in Seq(Packets), Len(postponed') <= PostponeMax, receiving' => receiving,
           lent' = [m \in Packets |-> In(m, HeldOf(av)) + Count(postponed', m)],
           av.base + av.queue.count <= newest' + 1, Behind(postponed', av.base + av.queue.count, newest')
    PROVE WindowInv'
<1> USE DEF VideoQueueInv, WindowInv
<1>1. \A m \in Packets : Count(postponed', m) \in Nat /\ In(m, HeldOf(av)) \in Nat
  BY CountSteps DEF In
<1>2. lent' \in [Packets -> Nat]
  BY <1>1
<1>3. VideoTypeOK'
  BY <1>2 DEF VideoTypeOK
<1>4. RightPacketInSlot' /\ HeadWaitArmed' /\ DispatchedInOrder'
  BY DEF RightPacketInSlot, HeadWaitArmed, DispatchedInOrder
<1>5. PacketBuffersConserved'
  <2>1. \A x : Cardinality({i \in Filled(av.queue) : Entry(av.queue, i).user = x}) = In(x, HeldOf(av))
    BY VideoIs
  <2>2. \A m \in Packets : lent'[m] = In(m, HeldOf(av)) + Count(postponed', m)
    OBVIOUS
  <2> QED
    BY <2>1, <2>2 DEF PacketBuffersConserved
<1>6. LateIsBehind'
  <2>1. ~av'.initialized => av' = Idle
    BY DEF LateIsBehind
  <2>2. receiving' => \A i \in DOMAIN shown' : shown'[i] < av'.base
    BY DEF LateIsBehind
  <2>3. \A i \in DOMAIN postponed' :
            /\ postponed'[i] <= newest' /\ av'.base + av'.queue.count <= postponed'[i] + Delay + 1
            /\ \A j \in DOMAIN postponed' : i < j => postponed'[i] <= postponed'[j] + Delay
    BY DEF Behind
  <2> QED
    BY <2>1, <2>2, <2>3 DEF LateIsBehind
<1> QED
  BY <1>3, <1>4, <1>5, <1>6

\* What the arrival of a packet says of the numbers.
LEMMA PacketArrivesIs ==
    ASSUME VideoQueueInv, NEW n \in Packets, PacketArrives(n)
    PROVE /\ receiving /\ {receiving', keyed', draining'} \subseteq BOOLEAN /\ receiving' = receiving
          /\ n \in Nat /\ newest \in Nat /\ newest' \in Packets /\ newest' \in Nat /\ n <= newest' /\ newest <= newest'
          /\ newest <= n + Delay /\ av.base + av.queue.count <= newest' + 1 /\ av.base + av.queue.count <= n + Delay + 1
          /\ Behind(postponed, av.base + av.queue.count, newest')
          /\ \A i \in DOMAIN postponed : n <= postponed[i] + Delay /\ postponed[i] \in Nat /\ postponed[i] <= newest
<1>1. /\ receiving /\ n >= newest - Delay /\ \A i \in DOMAIN postponed : n <= postponed[i] + Delay
      /\ newest' = (IF n > newest THEN n ELSE newest) /\ receiving' = receiving /\ keyed' = keyed /\ draining' = draining
  BY DEF PacketArrives
<1>2. n \in Nat /\ newest \in Nat /\ newest \in Packets /\ Delay \in Nat
  BY VideoSizes DEF VideoQueueInv, VideoTypeOK, Packets
<1>3. {receiving', keyed', draining'} \subseteq BOOLEAN
  BY <1>1 DEF VideoQueueInv, VideoTypeOK
<1>4. newest' \in Packets /\ newest' \in Nat /\ n <= newest' /\ newest <= newest'
  <2>1. CASE n > newest
    BY <1>1, <1>2, <2>1
  <2>2. CASE ~(n > newest)
    BY <1>1, <1>2, <2>2
  <2> QED
    BY <2>1, <2>2
<1>5. av.base \in Nat /\ av.queue.count \in Nat /\ av.base + av.queue.count <= newest + 1
  BY VideoIs DEF VideoQueueInv
<1>6. newest <= n + Delay
  BY <1>1, <1>2
<1>7. av.base + av.queue.count <= newest' + 1 /\ av.base + av.queue.count <= n + Delay + 1
  BY <1>2, <1>4, <1>5, <1>6
<1>8. ASSUME NEW i \in DOMAIN postponed
      PROVE /\ postponed[i] \in Nat /\ postponed[i] <= newest /\ postponed[i] <= newest'
            /\ av.base + av.queue.count <= postponed[i] + Delay + 1
            /\ \A j \in DOMAIN postponed : i < j => postponed[i] <= postponed[j] + Delay
  <2>1. postponed \in Seq(Packets)
    BY DEF VideoQueueInv, VideoTypeOK
  <2>2. postponed[i] \in Packets
    BY <2>1
  <2>3. postponed[i] \in Nat
    BY <2>2, VideoSizes DEF Packets
  <2>4. /\ postponed[i] <= newest /\ av.base + av.queue.count <= postponed[i] + Delay + 1
        /\ \A j \in DOMAIN postponed : i < j => postponed[i] <= postponed[j] + Delay
    BY DEF VideoQueueInv, LateIsBehind
  <2>5. postponed[i] <= newest'
    BY <1>2, <1>4, <2>3, <2>4
  <2> QED
    BY <2>3, <2>4, <2>5
<1>9. Behind(postponed, av.base + av.queue.count, newest')
  BY <1>8 DEF Behind
<1> QED
  BY <1>1, <1>2, <1>3, <1>4, <1>6, <1>7, <1>8, <1>9

LEMMA PacketKeeps ==
    ASSUME VideoQueueInv, NEW n \in Packets, HandlePacket(n)
    PROVE WindowInv'
<1> USE DEF VideoQueueInv
<1>1. PacketArrives(n) /\ postponed' = postponed
  BY DEF HandlePacket
<1>2. receiving /\ {receiving', keyed', draining'} \subseteq BOOLEAN /\ newest' \in Packets
  BY <1>1, PacketArrivesIs
<1>3. postponed' \in Seq(Packets) /\ Len(postponed') <= PostponeMax
  BY <1>1 DEF VideoTypeOK
<1>4. PICK w, x : \E s \in Nat, k \in Nat :
             Handled(n, {n}, w, x, s, k) /\ Behind(postponed', x.base + x.queue.count, newest')
  BY HandlePacketTurns
<1>5. PICK s \in Nat, k \in Nat : Handled(n, {n}, w, x, s, k) /\ Behind(postponed', x.base + x.queue.count, newest')
  BY <1>4
<1>6. Turn(x, PushFrees(w, n), {n}, {n}, s, k)
  BY <1>5 DEF Handled
<1> QED
  BY <1>2, <1>3, <1>5, <1>6, TurnKeeps

LEMMA DrainKeeps ==
    ASSUME VideoQueueInv, Drain
    PROVE WindowInv'
<1> USE DEF VideoQueueInv
<1>1. /\ receiving /\ {receiving', keyed'} \subseteq BOOLEAN /\ newest' \in Packets
      /\ draining' \in BOOLEAN
  BY DEF Drain, VideoTypeOK
<1>2. postponed' \in Seq(Packets) /\ Len(postponed') <= PostponeMax
  <2>1. postponed \in Seq(Packets) /\ Len(postponed) <= PostponeMax /\ postponed # <<>> /\ PostponeMax \in Nat
    BY VideoSizes, VideoAssumption DEF Drain, VideoTypeOK
  <2>2. Tail(postponed) \in Seq(Packets) /\ Len(Tail(postponed)) <= PostponeMax
    BY <2>1
  <2> QED
    BY <2>2 DEF Drain
<1>3. PICK n \in Packets : \E w, x : \E s \in Nat, k \in Nat :
             n = Head(postponed) /\ Handled(n, {}, w, x, s, k) /\ Behind(postponed', x.base + x.queue.count, newest')
  BY DrainTurns
<1>4. PICK w, x : \E s \in Nat, k \in Nat :
             Handled(n, {}, w, x, s, k) /\ Behind(postponed', x.base + x.queue.count, newest')
  BY <1>3
<1>5. PICK s \in Nat, k \in Nat : Handled(n, {}, w, x, s, k) /\ Behind(postponed', x.base + x.queue.count, newest')
  BY <1>4
<1>6. Turn(x, PushFrees(w, n), {n}, {}, s, k)
  BY <1>5 DEF Handled
<1>7. {receiving', keyed', draining'} \subseteq BOOLEAN
  BY <1>1
<1> QED
  BY <1>1, <1>2, <1>5, <1>6, <1>7, TurnKeeps

LEMMA TimeoutKeeps ==
    ASSUME VideoQueueInv, ReceiveTimeout
    PROVE WindowInv'
<1> USE DEF VideoQueueInv
<1>1. /\ receiving /\ {receiving', keyed', draining'} \subseteq BOOLEAN /\ newest' \in Packets
      /\ postponed' \in Seq(Packets) /\ Len(postponed') <= PostponeMax
  BY DEF ReceiveTimeout, AtReceive, VideoTypeOK
<1>2. PICK s \in Nat, k \in Nat : Turn(av, {}, {}, {}, s, k) /\ Behind(postponed', av.base + av.queue.count, newest')
  BY TimeoutTurns
<1> QED
  BY <1>1, <1>2, TurnKeeps

LEMMA BooksOne ==
    ASSUME NEW v, IsAv(v), v.freed = <<>>, NEW got, Book(v, got)
    PROVE Book([v EXCEPT !.freed = <<>>], got)
<1>1. PICK q, i, w, s, b, o, f :
          v = [queue |-> q, initialized |-> i, wait |-> w, waitSeq |-> s, base |-> b, out |-> o, freed |-> f]
  BY DEF IsAv
<1>2. [v EXCEPT !.freed = <<>>] = v
  BY <1>1
<1> QED
  BY <1>2

LEMMA PostponedKeeps ==
    ASSUME VideoQueueInv, NEW n \in Packets, HandlePostponed(n)
    PROVE WindowInv'
<1>1. PacketArrives(n) /\ Postpone(n)
  BY DEF HandlePostponed
<1>2. /\ receiving /\ {receiving', keyed', draining'} \subseteq BOOLEAN /\ receiving' = receiving
      /\ n \in Nat /\ newest \in Nat /\ newest' \in Packets /\ newest' \in Nat /\ n <= newest' /\ newest <= newest'
      /\ newest <= n + Delay /\ av.base + av.queue.count <= newest' + 1 /\ av.base + av.queue.count <= n + Delay + 1
      /\ Behind(postponed, av.base + av.queue.count, newest')
      /\ \A i \in DOMAIN postponed : n <= postponed[i] + Delay /\ postponed[i] \in Nat /\ postponed[i] <= newest
  BY <1>1, PacketArrivesIs
<1>3. IsAv(av) /\ AvTypes(av) /\ av.out = <<>> /\ av.freed = <<>>
  BY VideoIs DEF VideoQueueInv, AvTypes
<1>4. postponed \in Seq(Packets) /\ Len(postponed) \in Nat /\ Len(postponed) <= PostponeMax /\ PostponeMax \in Nat
  BY VideoAssumption DEF VideoQueueInv, VideoTypeOK
<1>7. VideoTypeOK /\ RightPacketInSlot /\ LateIsBehind /\ PacketBuffersConserved
  BY DEF VideoQueueInv
<1>5. CASE Len(postponed) < PostponeMax
  <2>1. postponed' = Append(postponed, n) /\ Book(av, {n})
    BY <1>1, <1>5 DEF Postpone
  <2>2. Book([av EXCEPT !.freed = <<>>], {n})
    BY <1>3, <2>1, BooksOne
  <2>3. /\ postponed' \in Seq(Packets) /\ Len(postponed') = Len(postponed) + 1 /\ DOMAIN postponed' = 1..(Len(postponed) + 1)
        /\ DOMAIN postponed = 1..Len(postponed)
        /\ postponed'[Len(postponed) + 1] = n /\ \A i \in DOMAIN postponed : postponed'[i] = postponed[i]
    BY <1>4, <2>1
  <2>4. Len(postponed') <= PostponeMax
    BY <1>4, <1>5, <2>3
  <2>5. \A m \in Packets : Count(postponed, m) + In(m, {n}) = Count(<<>>, m) + Count(postponed', m)
    <3> SUFFICES ASSUME NEW m \in Packets
                 PROVE Count(postponed, m) + In(m, {n}) = Count(<<>>, m) + Count(postponed', m)
      OBVIOUS
    <3>1. Count(postponed', m) = Count(postponed, m) + In(m, {n}) /\ Count(postponed, m) \in Nat
      <4>1. Count(Append(postponed, n), m) = Count(postponed, m) + In(m, {n}) /\ Count(postponed, m) \in Nat
        <5>1. postponed \in Seq(Packets)
          BY <1>4
        <5>2. Append(postponed, n) = postponed \o <<n>> /\ <<n>> \in Seq(Packets)
          BY <5>1
        <5>3. Count(<<n>>, m) = In(m, {n})
          BY CountOne DEF In
        <5>4. /\ Count(postponed \o <<n>>, m) = Count(postponed, m) + Count(<<n>>, m)
              /\ Count(postponed, m) \in Nat
          BY <5>1, <5>2, CountJoined
        <5> QED
          BY <5>2, <5>3, <5>4
      <4> QED
        BY <2>1, <4>1
    <3>2. Count(<<>>, m) = 0 /\ In(m, {n}) \in Nat
      BY CountOne DEF In
    <3> QED
      BY <3>1, <3>2
  <2>6. <<>> \in Seq(Packets)
    OBVIOUS
  <2>7. av' = av /\ shown' = shown /\ lent' = [m \in Packets |-> In(m, HeldOf(av)) + Count(postponed', m)]
    <3>1. postponed' \in Seq(Packets)
      BY <2>3
    <3> QED
      BY <1>3, <1>7, <2>2, <2>5, <2>6, <3>1, BookedAs
  <2>8. ASSUME NEW i \in DOMAIN postponed'
        PROVE /\ postponed'[i] <= newest' /\ av.base + av.queue.count <= postponed'[i] + Delay + 1
              /\ \A j \in DOMAIN postponed' : i < j => postponed'[i] <= postponed'[j] + Delay
    <3>1. CASE i \in DOMAIN postponed
      <4>1. /\ postponed'[i] = postponed[i] /\ postponed[i] <= newest'
            /\ av.base + av.queue.count <= postponed[i] + Delay + 1
            /\ \A j \in DOMAIN postponed : i < j => postponed[i] <= postponed[j] + Delay
        BY <1>2, <2>3, <3>1 DEF Behind
      <4>2. postponed[i] <= n + Delay
        <5>1. postponed[i] \in Nat /\ postponed[i] <= newest /\ Delay \in Nat
          BY <1>2, <3>1, VideoSizes
        <5> QED
          BY <1>2, <5>1
      <4>3. ASSUME NEW j \in DOMAIN postponed', i < j PROVE postponed'[i] <= postponed'[j] + Delay
        <5>1. j \in DOMAIN postponed \/ j = Len(postponed) + 1
          BY <1>4, <2>3
        <5> QED
          BY <2>3, <4>1, <4>2, <4>3, <5>1
      <4> QED
        BY <4>1, <4>3
    <3>2. CASE i = Len(postponed) + 1
      <4>1. \A j \in DOMAIN postponed' : ~(i < j)
        BY <1>4, <2>3, <3>2
      <4> QED
        BY <1>2, <2>3, <3>2, <4>1
    <3> QED
      BY <1>4, <2>3, <3>1, <3>2
  <2>9. Behind(postponed', av.base + av.queue.count, newest')
    BY <2>8 DEF Behind
  <2> QED
    BY <1>2, <2>3, <2>4, <2>7, <2>9, SameQueueKeeps
<1>6. CASE ~(Len(postponed) < PostponeMax)
  <2>1. postponed' = postponed /\ Book([av EXCEPT !.freed = <<n>>], {n})
    BY <1>1, <1>6 DEF Postpone
  <2>2. \A m \in Packets : Count(postponed, m) + In(m, {n}) = Count(<<n>>, m) + Count(postponed', m)
    <3> SUFFICES ASSUME NEW m \in Packets
                 PROVE Count(postponed, m) + In(m, {n}) = Count(<<n>>, m) + Count(postponed', m)
      OBVIOUS
    <3>1. Count(postponed, m) \in Nat
      BY <1>4, CountSteps
    <3>2. Count(<<n>>, m) = In(m, {n}) /\ In(m, {n}) \in Nat
      BY CountOne DEF In
    <3> QED
      BY <2>1, <3>1, <3>2
  <2>3. <<n>> \in Seq(Packets)
    OBVIOUS
  <2>4. av' = av /\ shown' = shown /\ lent' = [m \in Packets |-> In(m, HeldOf(av)) + Count(postponed', m)]
    BY <1>3, <1>4, <1>7, <2>1, <2>2, <2>3, BookedAs, ZenonT(30)
  <2> QED
    BY <1>2, <1>4, <2>1, <2>4, SameQueueKeeps
<1> QED
  BY <1>5, <1>6

LEMMA NoMemoryKeeps ==
    ASSUME VideoQueueInv, NEW n \in Packets, HandleWithoutMemory(n)
    PROVE WindowInv'
<1>1. PacketArrives(n) /\ postponed' = postponed
  BY DEF HandleWithoutMemory
<1>2. /\ receiving /\ {receiving', keyed', draining'} \subseteq BOOLEAN /\ receiving' = receiving
      /\ n \in Nat /\ newest' \in Packets /\ newest' \in Nat /\ n <= newest'
      /\ av.base + av.queue.count <= newest' + 1
      /\ Behind(postponed, av.base + av.queue.count, newest')
      /\ \A i \in DOMAIN postponed : n <= postponed[i] + Delay /\ postponed[i] \in Nat /\ postponed[i] <= newest
  BY <1>1, PacketArrivesIs
<1>3. /\ IsAv(av) /\ AvTypes(av) /\ av.base \in Nat
      /\ ~av.initialized => av = Idle /\ av.base = 0 /\ HeldOf(av) = {}
  BY VideoIs DEF VideoQueueInv
<1>4. postponed \in Seq(Packets) /\ Len(postponed) <= PostponeMax
  BY DEF VideoQueueInv, VideoTypeOK
<1>5. \A m \in Packets : Count(postponed, m) + In(m, {n}) = Count(<<n>>, m) + Count(postponed', m)
  <2> SUFFICES ASSUME NEW m \in Packets
               PROVE Count(postponed, m) + In(m, {n}) = Count(<<n>>, m) + Count(postponed', m)
    OBVIOUS
  <2>1. Count(postponed, m) \in Nat
    BY <1>4, CountSteps
  <2>2. Count(<<n>>, m) = In(m, {n}) /\ In(m, {n}) \in Nat
    BY CountOne DEF In
  <2> QED
    BY <1>1, <2>1, <2>2
<1>6. <<n>> \in Seq(Packets)
  OBVIOUS
<1> DEFINE w == InitQueue(av, n)
<1>10. VideoTypeOK /\ RightPacketInSlot /\ LateIsBehind /\ PacketBuffersConserved
  BY DEF VideoQueueInv
<1>7. Book([av EXCEPT !.freed = <<n>>], {n}) \/ (~av.initialized /\ Book([w EXCEPT !.freed = <<n>>], {n}))
  <2>1. CASE av.initialized
    <3>1. w = av
      BY <2>1 DEF InitQueue
    <3> QED
      BY <2>1, <3>1 DEF HandleWithoutMemory
  <2>2. CASE ~av.initialized
    BY <2>2 DEF HandleWithoutMemory
  <2> QED
    BY <2>1, <2>2
<1>8. CASE Book([av EXCEPT !.freed = <<n>>], {n})
  <2>1. av' = av /\ shown' = shown /\ lent' = [m \in Packets |-> In(m, HeldOf(av)) + Count(postponed', m)]
    <3>1. postponed' \in Seq(Packets)
      BY <1>1, <1>4
    <3> QED
      BY <1>3, <1>5, <1>6, <1>8, <1>10, <3>1, BookedAs, ZenonT(30)
  <2> QED
    BY <1>1, <1>2, <1>4, <2>1, SameQueueKeeps
<1>9. CASE ~av.initialized /\ Book([w EXCEPT !.freed = <<n>>], {n})
  <2> DEFINE b == FirstBegin(n)
  <2>1. Fresh(av, w, b)
    BY <1>3, <1>9, InitQueueIs
  <2> HIDE DEF w
  <2>2. /\ IsAv(w) /\ w.initialized = TRUE /\ w.wait = "off" /\ w.waitSeq \in Begins
        /\ w.out = <<>> /\ w.freed = <<>> /\ w.base = b
        /\ QueueOk(Packets, w.queue, w.base) /\ HeldOf(w) = {} /\ w.queue.count = 0
    BY <1>3, <2>1 DEF Fresh, AvTypes
  <2>3. AvTypes(w)
    BY <2>2 DEF AvTypes
  <2>4. b \in Nat /\ b <= n /\ n < NPackets /\ NPackets \in Nat
    BY <1>2, FirstBeginIs, VideoSizes DEF Packets
  <2>5. av' = w /\ shown' = shown /\ lent' = [m \in Packets |-> In(m, HeldOf(w)) + Count(postponed', m)]
    <3>1. postponed' \in Seq(Packets) /\ HeldOf(w) = HeldOf(av) /\ Book([w EXCEPT !.freed = <<n>>], {n})
      BY <1>1, <1>3, <1>4, <1>9, <2>2
    <3>2. /\ VideoTypeOK /\ RightPacketInSlot /\ LateIsBehind /\ PacketBuffersConserved
          /\ IsAv(w) /\ AvTypes(w) /\ <<n>> \in Seq(Packets)
      BY <1>6, <1>10, <2>2, <2>3
    <3> QED
      BY <1>5, <3>1, <3>2, BookedAs, ZenonT(60)
  <2>6. AvReady(w)
    <3>1. w.base + w.queue.count <= NPackets
      <4> HIDE DEF b
      <4>1. w.base + w.queue.count = b + 0
        BY <2>2
      <4> QED
        BY <1>2, <2>4, <4>1
    <3> QED
      BY <2>2, <3>1 DEF AvReady, LastHeld
  <2>7. /\ av' \in [queue : [begin : Begins, count : 0..QueueSize,
                             slot : [0..(QueueSize - 1) -> [set : BOOLEAN, user : Packets \cup {NoUser}]]],
                    initialized : BOOLEAN, wait : {"off", "running", "expired"}, waitSeq : Begins,
                    base : 0..NPackets, out : {<<>>}, freed : {<<>>}]
        /\ RightPacketInSlot' /\ HeadWaitArmed'
        /\ \A x : Cardinality({i \in Filled(av'.queue) : Entry(av'.queue, i).user = x}) = In(x, HeldOf(av'))
    <3>1. /\ IsAv(av') /\ AvTypes(av') /\ AvReady(av')
          /\ av'.queue.count > 0 => av'.wait # "off" /\ av'.waitSeq = av'.queue.begin
      BY <2>2, <2>3, <2>5, <2>6
    <3> QED
      BY <3>1, AvKept
  <2>8. \A m \in Packets : Count(postponed', m) \in Nat /\ In(m, HeldOf(w)) \in Nat
    BY <1>1, <1>4, CountSteps DEF In
  <2>9. VideoTypeOK'
    <3>1. lent' \in [Packets -> Nat]
      BY <2>5, <2>8
    <3>2. shown' \in Seq(Packets)
      BY <2>5 DEF VideoQueueInv, VideoTypeOK
    <3> QED
      BY <1>1, <1>2, <1>4, <2>7, <3>1, <3>2 DEF VideoTypeOK
  <2>10. PacketBuffersConserved'
    <3>1. \A m \in Packets : lent'[m] = In(m, HeldOf(av')) + Count(postponed', m)
      BY <2>5
    <3> QED
      BY <2>7, <3>1 DEF PacketBuffersConserved
  <2>11. DispatchedInOrder'
    BY <2>5 DEF VideoQueueInv, DispatchedInOrder
  <2>12. LateIsBehind'
    <3>1. av'.initialized /\ av'.base = b /\ av'.queue.count = 0 /\ av'.base + av'.queue.count = b
      BY <2>2, <2>4, <2>5
    <3>2. b <= newest' + 1
      BY <1>2, <2>4
    <3>3. ASSUME NEW i \in DOMAIN postponed'
          PROVE /\ postponed'[i] <= newest' /\ b <= postponed'[i] + Delay + 1
                /\ \A j \in DOMAIN postponed' : i < j => postponed'[i] <= postponed'[j] + Delay
      <4>1. /\ postponed'[i] <= newest'
            /\ \A j \in DOMAIN postponed' : i < j => postponed'[i] <= postponed'[j] + Delay
        BY <1>1, <1>2 DEF Behind
      <4>2. n <= postponed'[i] + Delay /\ postponed'[i] \in Nat /\ Delay \in Nat
        BY <1>1, <1>2, VideoSizes
      <4>3. b <= postponed'[i] + Delay + 1
        BY <1>2, <2>4, <4>2
      <4> QED
        BY <4>1, <4>3
    <3>4. \A i \in DOMAIN shown' : shown'[i] < b
      <4> SUFFICES ASSUME NEW i \in DOMAIN shown PROVE shown[i] < b
        BY <2>5
      <4>1. shown[i] < 0
        BY <1>2, <1>3, <1>9 DEF VideoQueueInv, LateIsBehind
      <4>2. shown \in Seq(Packets)
        BY DEF VideoQueueInv, VideoTypeOK
      <4>3. shown[i] \in Packets
        BY <4>2
      <4>4. shown[i] \in Nat
        BY <4>3, VideoSizes DEF Packets
      <4> QED
        BY <2>4, <4>1, <4>4
    <3> QED
      BY <3>1, <3>2, <3>3, <3>4 DEF LateIsBehind
  <2> QED
    BY <2>7, <2>9, <2>10, <2>11, <2>12 DEF WindowInv
<1> QED
  BY <1>7, <1>8, <1>9

LEMMA TimeKeeps ==
    ASSUME VideoQueueInv, TimePasses
    PROVE WindowInv'
<1>1. /\ av.wait = "running" /\ av' = [av EXCEPT !.wait = "expired"] /\ receiving' = receiving /\ keyed' = keyed
      /\ postponed' = postponed /\ draining' = draining /\ newest' = newest /\ shown' = shown /\ lent' = lent
  BY DEF TimePasses
<1>2. /\ IsAv(av) /\ AvTypes(av) /\ av.initialized => AvReady(av)
  BY VideoIs DEF VideoQueueInv
<1>3. av.initialized
  <2> SUFFICES ASSUME ~av.initialized PROVE FALSE
    OBVIOUS
  <2>1. av = Idle
    BY DEF VideoQueueInv, LateIsBehind
  <2> QED
    BY <1>1, <2>1 DEF Idle
<1>4. PICK q, i, w, s, b, o, f :
          av = [queue |-> q, initialized |-> i, wait |-> w, waitSeq |-> s, base |-> b, out |-> o, freed |-> f]
  <2>1. IsAv(av)
    BY VideoIs DEF VideoQueueInv
  <2> QED
    BY <2>1 DEF IsAv
<1>5. av' = [queue |-> q, initialized |-> i, wait |-> "expired", waitSeq |-> s, base |-> b, out |-> o, freed |-> f]
  BY <1>1, <1>4
<1>6. /\ IsAv(av') /\ av'.queue = av.queue /\ av'.initialized = av.initialized /\ av'.wait = "expired"
      /\ av'.waitSeq = av.waitSeq /\ av'.base = av.base /\ av'.out = av.out /\ av'.freed = av.freed
  BY <1>4, <1>5 DEF IsAv
<1>7. AvTypes(av) /\ AvReady(av)
  BY <1>3, VideoIs DEF VideoQueueInv
<1>8. AvTypes(av') /\ AvReady(av') /\ HeldOf(av') = HeldOf(av)
  BY <1>6, <1>7 DEF AvTypes, AvReady, LastHeld, HeldOf
<1>9. av'.queue.count > 0 => av'.wait # "off" /\ av'.waitSeq = av'.queue.begin
  BY <1>6 DEF VideoQueueInv, HeadWaitArmed
<1>10. /\ av' \in [queue : [begin : Begins, count : 0..QueueSize,
                            slot : [0..(QueueSize - 1) -> [set : BOOLEAN, user : Packets \cup {NoUser}]]],
                   initialized : BOOLEAN, wait : {"off", "running", "expired"}, waitSeq : Begins,
                   base : 0..NPackets, out : {<<>>}, freed : {<<>>}]
       /\ RightPacketInSlot' /\ HeadWaitArmed'
  BY <1>6, <1>8, <1>9, AvKept
<1>11. VideoTypeOK'
  BY <1>1, <1>10 DEF VideoQueueInv, VideoTypeOK
<1>12. PacketBuffersConserved' /\ DispatchedInOrder'
  BY <1>1, <1>6 DEF VideoQueueInv, PacketBuffersConserved, DispatchedInOrder
<1>13. LateIsBehind'
  <2>1. /\ av.base + av.queue.count <= newest + 1
        /\ \A j \in DOMAIN postponed :
              /\ postponed[j] <= newest /\ av.base + av.queue.count <= postponed[j] + Delay + 1
              /\ \A l \in DOMAIN postponed : j < l => postponed[j] <= postponed[l] + Delay
        /\ receiving => \A j \in DOMAIN shown : shown[j] < av.base
    BY DEF VideoQueueInv, LateIsBehind
  <2>2. av'.initialized
    BY <1>3, <1>6
  <2> QED
    BY <1>1, <1>6, <2>1, <2>2 DEF LateIsBehind
<1> QED
  BY <1>10, <1>11, <1>12, <1>13 DEF WindowInv

LEMMA SetCryptKeeps ==
    ASSUME VideoQueueInv, SetCrypt
    PROVE WindowInv'
<1>1. /\ keyed' = TRUE /\ receiving' = receiving /\ postponed' = postponed /\ draining' = draining /\ av' = av
      /\ newest' = newest /\ shown' = shown /\ lent' = lent
  BY DEF SetCrypt
<1>2. VideoTypeOK'
  BY <1>1 DEF VideoQueueInv, VideoTypeOK
<1> QED
  BY <1>1, <1>2 DEF VideoQueueInv, WindowInv, RightPacketInSlot, HeadWaitArmed, PacketBuffersConserved, DispatchedInOrder, LateIsBehind

\* A queue that is not there.
LEMMA IdleIs ==
    /\ Idle \in [queue : [begin : Begins, count : 0..QueueSize,
                          slot : [0..(QueueSize - 1) -> [set : BOOLEAN, user : Packets \cup {NoUser}]]],
                 initialized : BOOLEAN, wait : {"off", "running", "expired"}, waitSeq : Begins,
                 base : 0..NPackets, out : {<<>>}, freed : {<<>>}]
    /\ Idle.initialized = FALSE /\ Idle.queue.count = 0 /\ Idle.base = 0 /\ Filled(Idle.queue) = {}
<1>1. 0 \in Begins /\ 0 \in 0..QueueSize /\ 0 \in 0..NPackets
  BY Sizes, VideoSizes DEF Begins
<1>2. EmptyQueue(0) \in [begin : Begins, count : 0..QueueSize,
                         slot : [0..(QueueSize - 1) -> [set : BOOLEAN, user : Packets \cup {NoUser}]]]
  BY <1>1 DEF EmptyQueue
<1>3. EmptyQueue(0).count = 0
  BY DEF EmptyQueue
<1>4. Idle.queue = EmptyQueue(0) /\ Idle.initialized = FALSE /\ Idle.base = 0
  BY DEF Idle
<1>5. Filled(Idle.queue) = {}
  BY <1>3, <1>4 DEF Filled
<1> HIDE DEF EmptyQueue
<1>6. Idle \in [queue : [begin : Begins, count : 0..QueueSize,
                          slot : [0..(QueueSize - 1) -> [set : BOOLEAN, user : Packets \cup {NoUser}]]],
                 initialized : BOOLEAN, wait : {"off", "running", "expired"}, waitSeq : Begins,
                 base : 0..NPackets, out : {<<>>}, freed : {<<>>}]
  BY <1>1, <1>2 DEF Idle
<1> QED
  BY <1>3, <1>4, <1>5, <1>6

LEMMA LoopEndKeeps ==
    ASSUME VideoQueueInv, VideoLoopEnds
    PROVE WindowInv'
<1> DEFINE S == UsersAt(av.queue, Filled(av.queue))
           f == postponed \o SetToSeq(S)
           z == [Idle EXCEPT !.freed = f]
<1>1. /\ receiving' = FALSE /\ postponed' = <<>> /\ Book(z, {}) /\ keyed' = keyed /\ draining' = draining
      /\ newest' = newest
  BY DEF VideoLoopEnds
<1>2. /\ VideoTypeOK /\ postponed \in Seq(Packets) /\ newest \in Packets /\ shown \in Seq(Packets) /\ PostponeMax \in Nat
      /\ {receiving', keyed', draining'} \subseteq BOOLEAN
  BY <1>1, VideoAssumption DEF VideoQueueInv, VideoTypeOK
<1>3. S = HeldOf(av) /\ S \subseteq Packets /\ IsFiniteSet(S)
  <2>1. CASE av.initialized
    <3>1. QueueOk(Packets, av.queue, av.base) /\ av.base + av.queue.count <= NPackets
      BY <2>1, VideoIs DEF VideoQueueInv, AvReady
    <3>2. av.queue.count \in 0..av.queue.count /\ Filled(av.queue) \cap 0..(av.queue.count - 1) = Filled(av.queue)
      <4>1. av.queue.count \in Nat
        BY VideoIs DEF VideoQueueInv
      <4> QED
        BY <4>1 DEF Filled
    <3>3. S = {x \in HeldOf(av) : x < av.base + av.queue.count}
      BY <3>1, <3>2, UsersBelow DEF HeldOf
    <3>4. /\ \A h \in HeldOf(av) : h \in Packets /\ h < av.base + av.queue.count
          /\ IsFiniteSet(HeldOf(av))
      BY <3>1, HeldBounds
    <3> QED
      BY <3>3, <3>4
  <2>2. CASE ~av.initialized
    <3>1. av = Idle /\ HeldOf(av) = {}
      BY <2>2, VideoIs DEF VideoQueueInv
    <3>2. S = {}
      BY <3>1, IdleIs DEF UsersAt
    <3> QED
      BY <3>1, <3>2, FS_EmptySet
  <2> QED
    BY <2>1, <2>2
<1> HIDE DEF S
<1>4. SetToSeq(S) \in Seq(Packets) /\ \A m : Count(SetToSeq(S), m) = In(m, S)
  <2>1. SetToSeq(S) \in Seq(S)
    BY <1>3, SeqIs
  <2>2. \A i \in DOMAIN SetToSeq(S) : SetToSeq(S)[i] \in Packets
    BY <1>3, <2>1
  <2>3. SetToSeq(S) \in Seq(Packets)
    BY <2>1, <2>2
  <2> QED
    BY <1>3, <2>3, SeqCount DEF In
<1>5. f \in Seq(Packets) /\ \A m : Count(f, m) = Count(postponed, m) + In(m, S) /\ Count(postponed, m) \in Nat
  BY <1>2, <1>4, CountJoined
<1> HIDE DEF f
<1>6. IsAv(Idle) /\ Idle.out = <<>> /\ Idle.freed = <<>>
  BY DEF Idle, IsAv
<1>7. Book([Idle EXCEPT !.freed = f], {})
  BY <1>1
<1>8. /\ av' = Idle /\ shown' = shown
      /\ lent' = [m \in Packets |-> lent[m] + In(m, {}) - Count(f, m)]
  BY <1>2, <1>6, <1>7, BookedFreed
<1>11. lent' = [m \in Packets |-> 0]
  <2>2. ASSUME NEW m \in Packets PROVE lent[m] + In(m, {}) - Count(f, m) = 0
    <3>1. lent[m] = In(m, S) + Count(postponed, m)
      BY <1>3, PacketBuffersAre DEF VideoQueueInv
    <3>2. Count(f, m) = Count(postponed, m) + In(m, S) /\ Count(postponed, m) \in Nat
      BY <1>5
    <3>3. In(m, S) \in Nat /\ In(m, {}) = 0
      BY DEF In
    <3> QED
      BY <3>1, <3>2, <3>3
  <2> QED
    BY <1>8, <2>2
<1>12. VideoTypeOK'
  <2>1. lent' \in [Packets -> Nat] /\ postponed' \in Seq(Packets) /\ Len(postponed') <= PostponeMax
    BY <1>1, <1>2, <1>11
  <2>2. av' \in [queue : [begin : Begins, count : 0..QueueSize,
                          slot : [0..(QueueSize - 1) -> [set : BOOLEAN, user : Packets \cup {NoUser}]]],
                 initialized : BOOLEAN, wait : {"off", "running", "expired"}, waitSeq : Begins,
                 base : 0..NPackets, out : {<<>>}, freed : {<<>>}]
    BY <1>8, IdleIs
  <2> QED
    BY <1>1, <1>2, <1>8, <2>1, <2>2 DEF VideoTypeOK
<1>13. RightPacketInSlot' /\ HeadWaitArmed'
  <2>1. ~av'.initialized /\ Filled(av'.queue) = {} /\ ~(av'.queue.count > 0)
    BY <1>8, IdleIs
  <2> QED
    BY <2>1 DEF RightPacketInSlot, HeadWaitArmed
<1>14. PacketBuffersConserved'
  <2> SUFFICES ASSUME NEW m \in Packets
               PROVE lent'[m] = Cardinality({i \in Filled(av'.queue) : Entry(av'.queue, i).user = m}) + Count(postponed', m)
    BY DEF PacketBuffersConserved
  <2>1. {i \in Filled(av'.queue) : Entry(av'.queue, i).user = m} = {}
    BY <1>8, IdleIs
  <2>2. Cardinality({i \in Filled(av'.queue) : Entry(av'.queue, i).user = m}) = 0
    BY <2>1, FS_EmptySet
  <2>3. Count(postponed', m) = 0
    BY <1>1, CountOne
  <2>4. lent'[m] = 0
    BY <1>11
  <2> QED
    BY <2>2, <2>3, <2>4
<1>15. DispatchedInOrder'
  BY <1>8 DEF VideoQueueInv, DispatchedInOrder
<1>16. LateIsBehind'
  <2>1. newest' \in Nat
    BY <1>1, <1>2, VideoSizes DEF Packets
  <2>2. av'.base + av'.queue.count = 0
    BY <1>8, IdleIs
  <2>3. DOMAIN postponed' = {}
    BY <1>1
  <2> QED
    BY <1>1, <1>8, <2>1, <2>2, <2>3 DEF LateIsBehind
<1> QED
  BY <1>12, <1>13, <1>14, <1>15, <1>16 DEF WindowInv

LEMMA VideoInitHolds == VideoInit => VideoQueueInv
<1> SUFFICES ASSUME VideoInit PROVE VideoQueueInv
  OBVIOUS
<1>1. /\ receiving = TRUE /\ keyed = FALSE /\ postponed = <<>> /\ draining = FALSE
      /\ av = Idle /\ newest = 0 /\ shown = <<>> /\ lent = [n \in Packets |-> 0]
  BY DEF VideoInit
<1>2. VideoTypeOK
  <2>1. 0 \in Packets /\ PostponeMax \in Nat
    BY VideoSizes, VideoAssumption DEF Packets
  <2>2. av \in [queue : [begin : Begins, count : 0..QueueSize,
                         slot : [0..(QueueSize - 1) -> [set : BOOLEAN, user : Packets \cup {NoUser}]]],
                initialized : BOOLEAN, wait : {"off", "running", "expired"}, waitSeq : Begins,
                base : 0..NPackets, out : {<<>>}, freed : {<<>>}]
    BY <1>1, IdleIs
  <2>3. /\ postponed \in Seq(Packets) /\ Len(postponed) <= PostponeMax /\ newest \in Packets /\ shown \in Seq(Packets)
        /\ lent \in [Packets -> Nat]
    BY <1>1, <2>1
  <2> QED
    BY <1>1, <2>2, <2>3 DEF VideoTypeOK
<1>3. RightPacketInSlot /\ HeadWaitArmed
  <2>1. ~av.initialized /\ Filled(av.queue) = {} /\ ~(av.queue.count > 0)
    BY <1>1, IdleIs
  <2> QED
    BY <2>1 DEF RightPacketInSlot, HeadWaitArmed
<1>4. PacketBuffersConserved
  <2> SUFFICES ASSUME NEW m \in Packets
               PROVE lent[m] = Cardinality({i \in Filled(av.queue) : Entry(av.queue, i).user = m}) + Count(postponed, m)
    BY DEF PacketBuffersConserved
  <2>1. {i \in Filled(av.queue) : Entry(av.queue, i).user = m} = {}
    BY <1>1, IdleIs
  <2>2. Cardinality({i \in Filled(av.queue) : Entry(av.queue, i).user = m}) = 0
    BY <2>1, FS_EmptySet
  <2>3. Count(postponed, m) = 0
    BY <1>1, CountOne
  <2> QED
    BY <1>1, <2>2, <2>3
<1>5. DispatchedInOrder
  BY <1>1 DEF DispatchedInOrder
<1>6. LateIsBehind
  <2>1. av.base + av.queue.count = 0
    BY <1>1, IdleIs
  <2>2. DOMAIN postponed = {} /\ DOMAIN shown = {}
    BY <1>1
  <2> QED
    BY <1>1, <2>1, <2>2 DEF LateIsBehind
<1>7. PostponedIsNear
  <2>1. DOMAIN postponed = {}
    BY <1>1
  <2> QED
    BY <2>1 DEF PostponedIsNear
<1> QED
  BY <1>2, <1>3, <1>4, <1>5, <1>6, <1>7 DEF VideoQueueInv

LEMMA WindowKept == ASSUME VideoQueueInv, [VideoNext]_videoVars PROVE WindowInv'
<1>1. CASE SetCrypt
  BY <1>1, SetCryptKeeps
<1>2. CASE Drain
  BY <1>2, DrainKeeps
<1>3. CASE TimePasses
  BY <1>3, TimeKeeps
<1>4. CASE ReceiveTimeout
  BY <1>4, TimeoutKeeps
<1>5. CASE VideoLoopEnds
  BY <1>5, LoopEndKeeps
<1>6. ASSUME NEW n \in Packets, HandlePostponed(n) \/ HandlePacket(n) \/ HandleWithoutMemory(n)
      PROVE WindowInv'
  BY <1>6, PostponedKeeps, PacketKeeps, NoMemoryKeeps
<1>7. CASE UNCHANGED videoVars
  <2>1. /\ keyed' = keyed /\ receiving' = receiving /\ postponed' = postponed /\ draining' = draining /\ av' = av
        /\ newest' = newest /\ shown' = shown /\ lent' = lent
    BY <1>7 DEF videoVars
  <2>2. VideoTypeOK'
    BY <2>1 DEF VideoQueueInv, VideoTypeOK
  <2> QED
    BY <2>1, <2>2 DEF VideoQueueInv, WindowInv, RightPacketInSlot, HeadWaitArmed, PacketBuffersConserved, DispatchedInOrder, LateIsBehind
<1> QED
  BY <1>1, <1>2, <1>3, <1>4, <1>5, <1>6, <1>7 DEF VideoNext

\* The window only moves forward, and a packet that starts it is near those that are postponed.
LEMMA NearKept == ASSUME VideoQueueInv, [VideoNext]_videoVars PROVE PostponedIsNear'
<1>1. /\ postponed \in Seq(Packets) /\ Packets \subseteq Nat /\ av.base \in Nat /\ Modulus \in Nat /\ Delay \in Nat
      /\ IsAv(av) /\ av.out = <<>> /\ av.freed = <<>> /\ shown \in Seq(Packets)
      /\ QueueSize \in Nat /\ QueueSize < Modulus \div 2 /\ Delay + 2 < Modulus \div 2
  <2>1. IsAv(av) /\ AvTypes(av) /\ av.base \in Nat
    BY VideoIs DEF VideoQueueInv
  <2>2. postponed \in Seq(Packets) /\ shown \in Seq(Packets)
    BY DEF VideoQueueInv, VideoTypeOK
  <2>3. Packets \subseteq Nat /\ Delay \in Nat /\ Modulus \in Nat /\ QueueSize \in Nat
        /\ QueueSize < Modulus \div 2 /\ Delay + 2 < Modulus \div 2
    BY VideoSizes, Sizes DEF Packets
  <2> QED
    BY <2>1, <2>2, <2>3 DEF AvTypes
<1>2. ASSUME NEW i \in DOMAIN postponed
      PROVE /\ postponed[i] \in Nat /\ postponed[i] <= newest
            /\ av.initialized => postponed[i] < av.base + Modulus
            /\ \A j \in DOMAIN postponed : i < j => postponed[j] <= postponed[i] + Delay
  <2>1. postponed[i] \in Nat
    <3>1. postponed[i] \in Packets
      BY <1>1
    <3> QED
      BY <1>1, <3>1
  <2>2. postponed[i] <= newest
    BY DEF VideoQueueInv, LateIsBehind
  <2>3. /\ av.initialized => postponed[i] < av.base + Modulus
        /\ \A j \in DOMAIN postponed : i < j => postponed[j] <= postponed[i] + Delay
    BY DEF VideoQueueInv, PostponedIsNear
  <2> QED
    BY <2>1, <2>2, <2>3
<1>3. ASSUME postponed' = postponed,
             \A i \in DOMAIN postponed : av'.initialized => postponed[i] < av'.base + Modulus
      PROVE PostponedIsNear'
  <2>1. \A i \in DOMAIN postponed : \A j \in DOMAIN postponed : i < j => postponed[j] <= postponed[i] + Delay
    BY <1>2
  <2> QED
    BY <1>3, <2>1 DEF PostponedIsNear
<1>4. ASSUME postponed' = postponed, av'.initialized = av.initialized, av'.base = av.base
      PROVE PostponedIsNear'
  <2>1. \A i \in DOMAIN postponed : av'.initialized => postponed[i] < av'.base + Modulus
    BY <1>2, <1>4
  <2> QED
    BY <1>3, <1>4, <2>1
\* The number of a window that begins with n, or goes on from av.
<1>5. ASSUME NEW n \in Nat, NEW b \in Nat, NEW w \in Nat, w <= b, (w <= n /\ n - w < QueueSize) \/ (av.initialized /\ w = av.base),
             NEW i \in DOMAIN postponed, postponed[i] <= n + Delay
      PROVE postponed[i] < b + Modulus
  <2>1. CASE w <= n /\ n - w < QueueSize
    <3>1. postponed[i] \in Nat
      BY <1>2
    <3> QED
      BY <1>1, <1>5, <2>1, <3>1
  <2>2. CASE av.initialized /\ w = av.base
    <3>1. postponed[i] \in Nat /\ postponed[i] < av.base + Modulus
      BY <1>2, <2>2
    <3> QED
      BY <1>1, <1>5, <2>2, <3>1
  <2> QED
    BY <1>5, <2>1, <2>2
<1>6. ASSUME NEW n \in Packets, NEW got, NEW w, NEW x, NEW s \in Nat, NEW k \in Nat, Handled(n, got, w, x, s, k),
             newest' \in Packets, NEW i \in DOMAIN postponed, postponed[i] <= n + Delay
      PROVE postponed[i] < av'.base + Modulus
  <2>1. Turned(x, PushFrees(w, n), got, s, k)
    BY <1>1, <1>6, TurnIs DEF Handled
  <2>2. av'.base = s + k
    BY <2>1 DEF Turned
  <2>3. x.base <= s /\ x.base >= w.base
    BY <1>6 DEF Handled, Flushed
  <2>4. w.base \in Nat /\ x.base \in Nat
    BY <1>6 DEF Handled, Begun, Turn, QueueOk
  <2>5. w.base <= s + k /\ s + k \in Nat
    BY <1>6, <2>3, <2>4
  <2>6. n \in Nat
    BY <1>1, <1>6
  <2>7. (w.base <= n /\ n - w.base < QueueSize) \/ (av.initialized /\ w.base = av.base)
    <3>1. (av.initialized /\ w = av) \/ (w.base \in 0..n /\ n - w.base < QueueSize)
      BY <1>6 DEF Handled, Begun
    <3> QED
      BY <2>6, <3>1
  <2> QED
    BY <1>5, <1>6, <2>2, <2>4, <2>5, <2>6, <2>7
<1>7. CASE SetCrypt \/ UNCHANGED videoVars
  BY <1>4, <1>7 DEF SetCrypt, videoVars
<1>8. CASE Drain
  <2>1. /\ postponed # <<>> /\ postponed' = Tail(postponed) /\ newest' \in Packets
    BY <1>8 DEF Drain, VideoQueueInv, VideoTypeOK
  <2>2. PICK n \in Packets : \E w, x : \E s \in Nat, k \in Nat :
               n = Head(postponed) /\ Handled(n, {}, w, x, s, k) /\ Behind(postponed', x.base + x.queue.count, newest')
    BY <1>8, DrainTurns DEF VideoQueueInv
  <2>3. PICK w, x : \E s \in Nat, k \in Nat : Handled(n, {}, w, x, s, k)
    BY <2>2
  <2>4. PICK s \in Nat, k \in Nat : Handled(n, {}, w, x, s, k)
    BY <2>3
  <2>5. /\ 1 \in DOMAIN postponed /\ n = postponed[1]
        /\ \A i \in DOMAIN postponed' : i \in Nat /\ i + 1 \in DOMAIN postponed /\ i >= 1 /\ postponed'[i] = postponed[i + 1]
    BY <1>1, <2>1, <2>2
  <2>6. ASSUME NEW i \in DOMAIN postponed'
        PROVE /\ postponed'[i] < av'.base + Modulus
              /\ \A j \in DOMAIN postponed' : i < j => postponed'[j] <= postponed'[i] + Delay
    <3>1. i \in Nat /\ i + 1 \in DOMAIN postponed /\ 1 < i + 1 /\ postponed'[i] = postponed[i + 1]
      BY <2>5
    <3>2. postponed[i + 1] <= n + Delay
      BY <1>2, <2>5, <3>1
    <3>3. postponed[i + 1] < av'.base + Modulus
      BY <1>6, <2>1, <2>4, <3>1, <3>2
    <3>4. ASSUME NEW j \in DOMAIN postponed', i < j PROVE postponed'[j] <= postponed'[i] + Delay
      <4>1. j \in Nat /\ j + 1 \in DOMAIN postponed /\ i + 1 < j + 1 /\ postponed'[j] = postponed[j + 1]
        BY <2>5, <3>1, <3>4
      <4> QED
        BY <1>2, <3>1, <4>1
    <3> QED
      BY <3>1, <3>3, <3>4
  <2> QED
    BY <2>6 DEF PostponedIsNear
<1>9. CASE TimePasses
  <2>1. PICK q, i, w, s, b, o, f :
          av = [queue |-> q, initialized |-> i, wait |-> w, waitSeq |-> s, base |-> b, out |-> o, freed |-> f]
    BY <1>1 DEF IsAv
  <2>2. av' = [queue |-> q, initialized |-> i, wait |-> "expired", waitSeq |-> s, base |-> b, out |-> o, freed |-> f]
    BY <1>9, <2>1 DEF TimePasses
  <2>3. postponed' = postponed /\ av'.base = av.base /\ av'.initialized = av.initialized
    BY <1>9, <2>1, <2>2 DEF TimePasses
  <2> QED
    BY <1>4, <2>3
<1>10. CASE ReceiveTimeout
  <2>1. postponed' = postponed /\ newest' \in Packets /\ av.initialized
    BY <1>10 DEF ReceiveTimeout, VideoQueueInv, VideoTypeOK
  <2>2. PICK s \in Nat, k \in Nat : Turn(av, {}, {}, {}, s, k)
    BY <1>10, TimeoutTurns DEF VideoQueueInv
  <2>3. av'.base = s + k /\ s >= av.base
    BY <1>1, <2>1, <2>2, TurnIs DEF Turned
  <2>4. ASSUME NEW i \in DOMAIN postponed PROVE postponed[i] < av'.base + Modulus
    <3>1. postponed[i] \in Nat /\ postponed[i] < av.base + Modulus
      BY <1>2, <2>1
    <3> QED
      BY <1>1, <2>2, <2>3, <3>1
  <2> QED
    BY <1>3, <2>1, <2>4
<1>11. CASE VideoLoopEnds
  <2>1. DOMAIN postponed' = {}
    BY <1>11 DEF VideoLoopEnds
  <2> QED
    BY <2>1 DEF PostponedIsNear
<1>12. ASSUME NEW n \in Packets, HandlePostponed(n)
       PROVE PostponedIsNear'
  <2>1. PacketArrives(n) /\ n \in Nat
    BY <1>1, <1>12 DEF HandlePostponed
  <2>2. Book(av, {n}) \/ Book([av EXCEPT !.freed = <<n>>], {n})
    BY <1>12 DEF HandlePostponed, Postpone
  <2>3. Book([av EXCEPT !.freed = <<>>], {n}) \/ Book([av EXCEPT !.freed = <<n>>], {n})
    BY <1>1, <2>2, BooksOne
  <2>4. av' = av
    BY <1>1, <2>3, BookedFreed
  <2>5. CASE postponed' = postponed
    BY <1>4, <2>4, <2>5
  <2>6. CASE postponed' = Append(postponed, n)
    <3> DEFINE m == Len(postponed)
    <3>1. /\ m \in Nat /\ DOMAIN postponed' = 1..(m + 1) /\ DOMAIN postponed = 1..m
          /\ postponed'[m + 1] = n /\ \A i \in 1..m : postponed'[i] = postponed[i]
      BY <1>1, <2>6
    <3> HIDE DEF m
    <3>2. av.initialized => n < av.base + Modulus
      <4>1. Outage \in Nat /\ Outage < Modulus
        BY VideoSizes
      <4>2. av.initialized => n <= av.base + Outage
        BY <2>1 DEF PacketArrives
      <4> QED
        BY <1>1, <2>1, <4>1, <4>2
    <3>3. \A i \in 1..m : n <= postponed[i] + Delay
      BY <2>1, <3>1 DEF PacketArrives
    <3>4. ASSUME NEW i \in 1..(m + 1)
          PROVE /\ av.initialized => postponed'[i] < av.base + Modulus
                /\ \A j \in 1..(m + 1) : i < j => postponed'[j] <= postponed'[i] + Delay
      <4>1. CASE i = m + 1
        <5>1. \A j \in 1..(m + 1) : ~(i < j)
          BY <3>1, <4>1
        <5> QED
          BY <3>1, <3>2, <4>1, <5>1
      <4>2. CASE i \in 1..m
        <5>1. postponed'[i] = postponed[i] /\ (av.initialized => postponed[i] < av.base + Modulus)
          BY <1>2, <3>1, <4>2
        <5>2. ASSUME NEW j \in 1..(m + 1), i < j PROVE postponed'[j] <= postponed'[i] + Delay
          <6>1. CASE j = m + 1
            BY <3>1, <3>3, <4>2, <5>1, <6>1
          <6>2. CASE j \in 1..m
            BY <1>2, <3>1, <4>2, <5>1, <5>2, <6>2
          <6> QED
            BY <3>1, <6>1, <6>2
        <5> QED
          BY <5>1, <5>2
      <4> QED
        BY <3>1, <4>1, <4>2
    <3> QED
      BY <2>4, <3>1, <3>4 DEF PostponedIsNear
  <2> QED
    BY <1>12, <2>5, <2>6 DEF HandlePostponed, Postpone
<1>13. ASSUME NEW n \in Packets, PacketArrives(n), NEW i \in DOMAIN postponed
       PROVE postponed[i] <= n + Delay
  <2>1. n \in Nat /\ newest \in Nat /\ newest <= n + Delay
    BY <1>13, PacketArrivesIs
  <2>2. postponed[i] \in Nat /\ postponed[i] <= newest
    BY <1>2
  <2> QED
    BY <1>1, <2>1, <2>2
<1>14. ASSUME NEW n \in Packets, HandlePacket(n)
       PROVE PostponedIsNear'
  <2>1. PacketArrives(n) /\ postponed' = postponed
    BY <1>14 DEF HandlePacket
  <2>2. newest' \in Packets
    BY <2>1, PacketArrivesIs
  <2>3. PICK w, x : \E s \in Nat, k \in Nat :
             Handled(n, {n}, w, x, s, k) /\ Behind(postponed', x.base + x.queue.count, newest')
    BY <1>14, HandlePacketTurns DEF VideoQueueInv
  <2>4. PICK s \in Nat, k \in Nat : Handled(n, {n}, w, x, s, k)
    BY <2>3
  <2>5. \A i \in DOMAIN postponed : postponed[i] < av'.base + Modulus
    BY <1>6, <1>13, <2>1, <2>2, <2>4
  <2> QED
    BY <1>3, <2>1, <2>5
<1>15. ASSUME NEW n \in Packets, HandleWithoutMemory(n)
       PROVE PostponedIsNear'
  <2> DEFINE w == InitQueue(av, n)
             b == FirstBegin(n)
  <2>1. PacketArrives(n) /\ postponed' = postponed /\ n \in Nat
    BY <1>1, <1>15 DEF HandleWithoutMemory
  <2>2. CASE Book([av EXCEPT !.freed = <<n>>], {n})
    <3>1. av' = av
      BY <1>1, <2>2, BookedFreed
    <3> QED
      BY <1>4, <2>1, <3>1
  <2>3. CASE ~av.initialized /\ Book([w EXCEPT !.freed = <<n>>], {n})
    <3>1. Fresh(av, w, b)
      BY <1>1, <2>3, InitQueueIs
    <3> HIDE DEF w
    <3>2. IsAv(w) /\ w.out = <<>> /\ w.freed = <<>> /\ w.base = b
      BY <1>1, <3>1 DEF Fresh
    <3>3. av' = w
      BY <1>1, <2>3, <3>2, BookedFreed
    <3>4. b \in Nat /\ b <= n /\ n - b < QueueSize
      BY <2>1, FirstBeginIs
    <3> HIDE DEF b
    <3>5. \A i \in DOMAIN postponed : postponed[i] < b + Modulus
      BY <1>5, <1>13, <2>1, <3>4
    <3> QED
      BY <1>3, <2>1, <3>2, <3>3, <3>5
  <2>4. CASE av.initialized
    <3>1. w = av
      BY <2>4 DEF InitQueue
    <3>2. Book([av EXCEPT !.freed = <<n>>], {n})
      BY <1>15, <2>4, <3>1 DEF HandleWithoutMemory
    <3> QED
      BY <2>2, <3>2
  <2>5. CASE ~av.initialized
    <3>1. Book([av EXCEPT !.freed = <<n>>], {n}) \/ Book([w EXCEPT !.freed = <<n>>], {n})
      BY <1>15, <2>5 DEF HandleWithoutMemory
    <3> QED
      BY <2>2, <2>3, <2>5, <3>1
  <2> QED
    BY <2>4, <2>5
<1> QED
  BY <1>7, <1>8, <1>9, <1>10, <1>11, <1>12, <1>14, <1>15 DEF VideoNext

LEMMA VideoInductive == VideoQueueInv /\ [VideoNext]_videoVars => VideoQueueInv'
<1> SUFFICES ASSUME VideoQueueInv, [VideoNext]_videoVars PROVE VideoQueueInv'
  OBVIOUS
<1>1. WindowInv'
  BY WindowKept
<1>2. PostponedIsNear'
  BY NearKept
<1> QED
  BY <1>1, <1>2 DEF WindowInv, VideoQueueInv

\* The video queue between the actions: every place of the window holds the packet of its own
\* number, a head wait runs whenever packets are held, every receive buffer is released exactly
\* once, and packets are dispatched in increasing order.
THEOREM VideoSafe == VideoSpec => []VideoQueueInv
<1>1. VideoInit => VideoQueueInv
  BY VideoInitHolds
<1>2. VideoQueueInv /\ [VideoNext]_videoVars => VideoQueueInv'
  BY VideoInductive
<1> QED
  BY <1>1, <1>2, PTL DEF VideoSpec

LEMMA InTimeStep ==
    ASSUME VideoQueueInv, NEW n \in Packets, HandlePacket(n), InTime(n), ~AtSeam(av.queue, Wire(n))
    PROVE Accepted(n)
<1> USE DEF VideoQueueInv
<1>1. PICK w, x : \E s \in Nat, k \in Nat :
             Handled(n, {n}, w, x, s, k) /\ Behind(postponed', x.base + x.queue.count, newest')
  BY HandlePacketTurns
<1>2. PICK s \in Nat, k \in Nat : Handled(n, {n}, w, x, s, k)
  BY <1>1
<1>3. Begun(w, n) /\ PushedTo(w, n, x) /\ Turn(x, PushFrees(w, n), {n}, {n}, s, k)
  BY <1>2 DEF Handled
<1>4. n \in Nat /\ w.base \in Nat /\ n >= w.base /\ n - w.base <= Modulus \div 2
  <2>1. n \in Nat /\ w.base \in Nat
    <3>1. w.base \in Nat
      BY <1>3 DEF Begun, QueueOk
    <3> QED
      BY <3>1, VideoSizes DEF Packets
  <2>2. CASE av.initialized /\ w = av
    <3>1. n >= av.base /\ n - av.base <= Modulus \div 2
      BY <2>2 DEF InTime
    <3> DEFINE b == av.base
    <3>2. w.base = b
      BY <2>2
    <3>3. n >= b /\ n - b <= Modulus \div 2 /\ b \in Nat /\ n \in Nat
      BY <2>1, <3>1, <3>2
    <3> HIDE DEF b
    <3> QED
      BY <3>2, <3>3
  <2>3. CASE w.base \in 0..n /\ n - w.base < QueueSize
    BY <2>1, <2>3, Sizes
  <2> QED
    BY <1>3, <2>1, <2>2, <2>3 DEF Begun
<1>11. ~AtSeam(w.queue, Wire(n))
  <2>1. w = av \/ ~(w.queue.count > 0)
    BY <1>3 DEF Begun
  <2> QED
    BY <2>1 DEF AtSeam
<1>5. n \in HeldOf(x)
  <2>1. HeldOf(x) = PushHolds(w, n)
    BY <1>3 DEF PushedTo
  <2> QED
    BY <1>4, <1>11, <2>1 DEF PushHolds, PushWants
<1>6. Turned(x, PushFrees(w, n), {n}, s, k)
  <2>1. av.base \in Nat
    BY VideoIs
  <2>2. newest' \in Packets
    <3>1. PacketArrives(n)
      BY DEF HandlePacket
    <3> QED
      BY <3>1, PacketArrivesIs
  <2> QED
    BY <1>3, <2>1, <2>2, TurnIs
<1>7. /\ IsAv(av') /\ AvTypes(av') /\ AvReady(av')
      /\ av'.queue.count > 0 => av'.wait # "off" /\ av'.waitSeq = av'.queue.begin
      /\ HeldOf(av') = HeldOf(x) \ s..(s + k - 1) /\ shown' = shown \o RunFrom(s, k)
  BY <1>6 DEF Turned
<1>8. HeldPackets' = HeldOf(av')
  BY <1>7, AvKept
<1>9. CASE n \in s..(s + k - 1)
  <2> DEFINE m == Len(shown)
             j == n - s + 1
             r == RunFrom(s, k)
  <2>1. shown \in Seq(Packets) /\ m \in Nat
    BY DEF VideoTypeOK
  <2>2. j \in 1..k /\ s + (j - 1) = n
    BY <1>4, <1>9
  <2> HIDE DEF j
  <2>3. r \in Seq(Packets) /\ Len(r) = k /\ r[j] = n
    <3>1. \A i \in 1..k : s + (i - 1) \in s..(s + k - 1)
      OBVIOUS
    <3>2. \A i \in 1..k : s + (i - 1) \in Packets
      BY <1>6, <3>1 DEF Turned
    <3>3. r = [i \in 1..k |-> s + (i - 1)]
      BY DEF RunFrom
    <3> HIDE DEF r
    <3>4. r \in Seq(Packets) /\ Len(r) = k
      BY <3>2, <3>3
    <3>5. r[j] = n
      BY <2>2, <3>3
    <3> QED
      BY <3>4, <3>5
  <2> HIDE DEF r
  <2>5. (shown \o r)[m + j] = r[j] /\ m + j \in DOMAIN (shown \o r)
    BY <2>1, <2>2, <2>3
  <2>6. n \in ToSet(shown \o r)
    BY <2>3, <2>5 DEF ToSet
  <2> QED
    BY <1>7, <2>6 DEF r, Accepted
<1>10. CASE n \notin s..(s + k - 1)
  BY <1>5, <1>7, <1>8, <1>10 DEF Accepted
<1> QED
  BY <1>9, <1>10

\* A packet that arrives before its turn has passed, by no more than half the number space, is
\* kept or dispatched, unless it is due where the window's begin or end has left the number
\* space: neither the late test nor a full ring loses it.
THEOREM InTimeSafe == VideoSpec => InTimeIsKept
<1> DEFINE Kept == \A n \in Packets :
                       HandlePacket(n) /\ InTime(n) /\ ~AtSeam(av.queue, Wire(n)) => Accepted(n)
<1>1. VideoQueueInv => Kept
  BY InTimeStep
<1>2. VideoQueueInv /\ [VideoNext]_videoVars => [Kept]_videoVars
  BY <1>1
<1>3. VideoSpec => [][VideoNext]_videoVars
  BY PTL DEF VideoSpec
<1> QED
  BY <1>2, <1>3, VideoSafe, PTL DEF InTimeIsKept

-----------------------------------------------------------------------------
(* The video queue implements Reassembly.                                  *)

videoNextBar == IF av.initialized THEN av.base ELSE -1

\* What is left once a run is dispatched.
Settled(s, H) ==
    /\ videoNextBar' = Reassembled!NextMissing(s, H)
    /\ HeldPackets' = {h \in H : h > Reassembled!NextMissing(s, H)}

LEMMA FirstMissing ==
    ASSUME NEW s \in Nat, NEW k \in Nat, NEW H, H \subseteq Packets, \A h \in H : s <= h,
           s..(s + k - 1) \subseteq H, s + k \notin H
    PROVE Reassembled!NextMissing(s, H) = s + k
<1>1. NPackets \in Nat /\ H \subseteq s..NPackets
  BY VideoSizes DEF Packets
<1>2. Unwrapped!NextMissing(s, H) = s + k
  BY <1>1, MissingIs
<1> QED
  BY <1>2 DEF Unwrapped!NextMissing, Unwrapped!Min, Unwrapped!Max,
              Reassembled!NextMissing, Reassembled!Min, Reassembled!Max

LEMMA TurnSettles ==
    ASSUME NEW x, NEW D, NEW got, NEW s \in Nat, NEW k \in Nat, Turned(x, D, got, s, k),
           NEW z, Flushed(Packets, x, z, s, k), \A h \in HeldOf(x) : x.base <= h
    PROVE /\ videoNextBar' = s + k /\ HeldPackets' = HeldOf(x) \ s..(s + k - 1)
          /\ Reassembled!NextMissing(s, HeldOf(x)) = s + k /\ Settled(s, HeldOf(x))
<1>1. /\ IsAv(av') /\ AvTypes(av') /\ AvReady(av') /\ av'.initialized = TRUE /\ av'.base = s + k
      /\ av'.queue.count > 0 => av'.wait # "off" /\ av'.waitSeq = av'.queue.begin
      /\ HeldOf(av') = HeldOf(x) \ s..(s + k - 1) /\ s..(s + k - 1) \subseteq HeldOf(x) /\ HeldOf(x) \subseteq Packets
  BY DEF Turned
<1>2. HeldPackets' = HeldOf(av')
  BY <1>1, AvKept
<1>3. videoNextBar' = s + k
  BY <1>1 DEF videoNextBar
<1>4. \A h \in HeldOf(x) : s <= h
  BY DEF Flushed
<1>5. s + k \notin HeldOf(x)
  BY DEF Flushed
<1>6. Reassembled!NextMissing(s, HeldOf(x)) = s + k
  BY <1>1, <1>4, <1>5, FirstMissing
<1>7. \A h \in HeldOf(x) : h \in Nat /\ (h \notin s..(s + k - 1) <=> h > s + k)
  <2> SUFFICES ASSUME NEW h \in HeldOf(x) PROVE h \in Nat /\ (h \notin s..(s + k - 1) <=> h > s + k)
    OBVIOUS
  <2>1. h \in Nat /\ s <= h /\ h # s + k
    BY <1>1, <1>4, <1>5, VideoSizes DEF Packets
  <2> QED
    BY <2>1
<1>8. HeldPackets' = {h \in HeldOf(x) : h > s + k}
  BY <1>1, <1>2, <1>7
<1> QED
  BY <1>1, <1>2, <1>3, <1>6, <1>8 DEF Settled

\* A packet that is not wanted, and a timeout: the reader gives up on what it waits for, or nothing
\* changes.
LEMMA GivesUp ==
    ASSUME VideoQueueInv, av.initialized, NEW x, NEW D, NEW got, NEW s \in Nat, NEW k \in Nat, Turned(x, D, got, s, k),
           NEW z, Flushed(Packets, x, z, s, k), x.base = av.base, HeldOf(x) = HeldOf(av), av.base \notin HeldOf(av)
    PROVE Reassembled!GiveUp \/ UNCHANGED <<videoNextBar, HeldPackets>>
<1>1. /\ QueueOk(Packets, av.queue, av.base) /\ av.base + av.queue.count <= NPackets
      /\ HeldPackets = HeldOf(av) /\ av.base \in Nat
  BY VideoIs DEF VideoQueueInv, AvReady
<1>2. \A h \in HeldOf(av) : h \in Nat /\ h >= av.base
  BY <1>1, HeldBounds
<1>3. /\ videoNextBar' = s + k /\ HeldPackets' = HeldOf(x) \ s..(s + k - 1) /\ Settled(s, HeldOf(av))
  <2>1. \A h \in HeldOf(x) : x.base <= h
    BY <1>1, <1>2
  <2>2. videoNextBar' = s + k
    BY DEF Turned, videoNextBar
  <2>3. HeldPackets' = HeldOf(x) \ s..(s + k - 1)
    BY <2>1, TurnSettles
  <2>4. Settled(s, HeldOf(x))
    BY <2>1, TurnSettles
  <2> QED
    BY <2>2, <2>3, <2>4
<1>4. s = x.base \/ (s \in HeldOf(x) /\ \A h \in HeldOf(x) : s <= h)
  BY DEF Flushed
<1>5. CASE s = x.base
  <2>1. k = 0
    <3> SUFFICES ASSUME k # 0 PROVE FALSE
      OBVIOUS
    <3>1. s \in s..(s + k - 1)
      OBVIOUS
    <3> QED
      BY <1>5, <3>1 DEF Flushed
  <2>2. s..(s + k - 1) = {} /\ s + k = av.base
    BY <1>5, <2>1
  <2>3. videoNextBar = av.base
    BY DEF videoNextBar
  <2>4. videoNextBar' = videoNextBar
    BY <1>3, <2>2, <2>3
  <2>5. HeldPackets' = HeldPackets
    BY <1>1, <1>3, <2>2
  <2> QED
    BY <2>4, <2>5
<1>6. CASE s \in HeldOf(x) /\ \A h \in HeldOf(x) : s <= h
  <2> DEFINE H == HeldOf(av)
  <2>1. H \subseteq Int /\ s \in H /\ \A h \in H : s <= h
    <3>1. \A h \in HeldOf(av) : h \in Int
      BY <1>2
    <3> QED
      BY <1>6, <3>1
  <2> HIDE DEF H
  <2>2. Min(H) = s
    BY <2>1, MinIs
  <2>3. Reassembled!Min(H) = s
    BY <2>2 DEF Min, Reassembled!Min
  <2>4. Settled(s, H) /\ HeldPackets = H /\ H # {}
    BY <1>1, <1>3, <2>1 DEF H
  <2> QED
    BY <2>3, <2>4 DEF Reassembled!GiveUp, Reassembled!Settle, Settled, videoNextBar
<1> QED
  BY <1>4, <1>5, <1>6

\* The first packet.
LEMMA StartsWith ==
    ASSUME VideoQueueInv, ~av.initialized, NEW n \in Packets, NEW D, NEW got, NEW w, NEW x, NEW s \in Nat, NEW k \in Nat,
           Begun(w, n), PushedTo(w, n, x), Turned(x, D, got, s, k), NEW z, Flushed(Packets, x, z, s, k)
    PROVE Reassembled!StartWith(n)
<1>1. /\ w.base \in 0..n /\ n - w.base < QueueSize /\ w.queue.count = 0 /\ HeldOf(w) = {} /\ n \in Nat
      /\ w.base \in Nat
  <2>1. HeldOf(av) = {}
    BY VideoIs DEF VideoQueueInv
  <2>2. n \in Nat
    BY VideoSizes DEF Packets
  <2> QED
    BY <2>1, <2>2 DEF Begun
<1>2. PushWants(w, n)
  <2>1. ~AtSeam(w.queue, Wire(n))
    BY <1>1 DEF AtSeam
  <2> QED
    BY <1>1, <2>1, Sizes DEF PushWants
<1>3. PushFloor(w, n) = w.base
  BY <1>1, Sizes DEF PushFloor, FloorOf
<1>4. x.base = w.base /\ HeldOf(x) = {n}
  BY <1>1, <1>2, <1>3 DEF PushedTo, PushBegin, PushHolds
<1>5. s <= n /\ n - s < QueueSize
  <2>1. s = w.base \/ s = n
    BY <1>4 DEF Flushed
  <2> QED
    BY <1>1, <2>1, Sizes
<1>6. s \in Packets
  BY <1>1, <1>5, VideoSizes DEF Packets
<1>7. Settled(s, {n})
  <2>1. \A h \in HeldOf(x) : x.base <= h
    BY <1>1, <1>4
  <2>2. Settled(s, HeldOf(x))
    BY <2>1, TurnSettles
  <2> QED
    BY <1>4, <2>2
<1>8. Reassembled!Settle(s, {n})
  BY <1>7 DEF Settled, Reassembled!Settle, videoNextBar
<1>9. videoNextBar = -1
  BY DEF videoNextBar
<1> QED
  BY <1>5, <1>6, <1>8, <1>9 DEF Reassembled!StartWith, Reassembled!Unset, videoNextBar

\* A packet that is wanted, with the queue there.
LEMMA Receives ==
    ASSUME VideoQueueInv, av.initialized, NEW n \in Packets, NEW D, NEW got, NEW x, NEW s \in Nat, NEW k \in Nat,
           PushWants(av, n), PushedTo(av, n, x), Turned(x, D, got, s, k), NEW z, Flushed(Packets, x, z, s, k)
    PROVE Reassembled!Receive(n) \/ Reassembled!ReceiveAndGiveUp(n)
<1> DEFINE H == HeldOf(av)
           b == av.base
           c == av.queue.count
           F == PushFloor(av, n)
           K == HeldOf(x)
<1>1. /\ QueueOk(Packets, av.queue, b) /\ b + c <= NPackets /\ LastHeld(av)
      /\ HeldPackets = H /\ b \in Nat /\ c \in Nat
  BY VideoIs DEF VideoQueueInv, AvReady
<1>2. \A h \in H : h \in Nat /\ h >= b /\ h < b + c
  BY <1>1, HeldBounds
<1>3. n \in Nat /\ n >= b /\ n \notin H
  BY VideoSizes DEF PushWants, Packets
<1>4. x.base = F /\ K = {h \in H : h >= F} \cup {n}
  BY DEF PushedTo, PushBegin, PushHolds
<1>5. videoNextBar = b
  BY DEF videoNextBar
<1>6. c > 0 => b + c - 1 \in H
  BY <1>1 DEF LastHeld
<1> HIDE DEF H, F, K
<1>7. Reassembled!Max(H \cup {b - 1}) = b + c - 1
  <2> DEFINE T == H \cup {b - 1}
             m == b + c - 1
  <2>1. \A t \in T : t \in Int /\ t <= m
    BY <1>1, <1>2
  <2>2. m \in T
    <3>1. CASE c = 0
      BY <1>1, <3>1
    <3>2. CASE c > 0
      BY <1>6, <3>2
    <3> QED
      BY <1>1, <3>1, <3>2
  <2>3. T \subseteq Int
    BY <2>1
  <2> HIDE DEF T, m
  <2>4. Max(T) = m
    BY <2>1, <2>2, <2>3, MaxIs
  <2>5. Reassembled!Max(T) = m
    BY <2>4 DEF Max, Reassembled!Max
  <2> QED
    BY <2>5 DEF T, m
<1>8. Reassembled!Floor(n) = F
  <2>1. Reassembled!Max(HeldPackets \cup {videoNextBar - 1}) + 1 = b + c
    BY <1>1, <1>5, <1>7
  <2> QED
    BY <1>5, <2>1 DEF Reassembled!Floor, videoNextBar, F, PushFloor, FloorOf
<1>9. F \in Nat /\ F <= n /\ b <= F
  BY <1>1, <1>3, Sizes DEF F, PushFloor, FloorOf
<1>10. Reassembled!Kept(n) = K
  BY <1>1, <1>4, <1>8 DEF Reassembled!Kept
<1>11. Reassembled!Wanted(n) /\ videoNextBar # -1
  BY <1>1, <1>3, <1>5 DEF Reassembled!Wanted, videoNextBar
<1>12. \A h \in K : h \in Nat /\ F <= h
  BY <1>2, <1>3, <1>4, <1>9
<1>13. Settled(s, K)
  <2>1. \A h \in HeldOf(x) : x.base <= h
    BY <1>4, <1>12 DEF K
  <2>2. Settled(s, HeldOf(x))
    BY <2>1, TurnSettles
  <2> QED
    BY <2>2 DEF K
<1>14. Reassembled!Settle(s, K)
  BY <1>13 DEF Settled, Reassembled!Settle, videoNextBar
<1>15. CASE s = F
  BY <1>8, <1>10, <1>11, <1>14, <1>15 DEF Reassembled!Receive, Reassembled!Unset, videoNextBar
<1>16. CASE s # F
  <2>1. F \notin K /\ s \in K /\ \A h \in K : s <= h
    BY <1>4, <1>16 DEF Flushed, K
  <2>2. Reassembled!Min(K) = s
    <3>1. K \subseteq Int
      BY <1>12
    <3>2. Min(K) = s
      BY <2>1, <3>1, MinIs
    <3> QED
      BY <3>2 DEF Min, Reassembled!Min
  <2>3. Reassembled!NextMissing(F, K) = F
    <3>1. K \subseteq Packets
      BY DEF Turned, K
    <3>2. F..(F + 0 - 1) \subseteq K /\ F + 0 \notin K /\ F + 0 = F
      BY <1>9, <2>1
    <3>3. \A h \in K : F <= h
      BY <1>12
    <3>4. Reassembled!NextMissing(F, K) = F + 0
      BY <1>9, <3>1, <3>2, <3>3, FirstMissing
    <3> QED
      BY <3>2, <3>4
  <2> QED
    BY <1>8, <1>10, <1>11, <1>14, <2>2, <2>3 DEF Reassembled!ReceiveAndGiveUp, Reassembled!Unset, videoNextBar
<1> QED
  BY <1>15, <1>16

LEMMA HandledReassembles ==
    ASSUME VideoQueueInv, NEW n \in Packets, NEW got, NEW w, NEW x, NEW s \in Nat, NEW k \in Nat,
           Handled(n, got, w, x, s, k), newest' \in Packets
    PROVE Reassembled!Next \/ UNCHANGED <<videoNextBar, HeldPackets>>
<1> DEFINE z == HandleAv(w, n)
           D == PushFrees(w, n)
<1>1. /\ Begun(w, n) /\ PushedTo(w, n, x) /\ Flushed(Packets, x, z, s, k) /\ Turn(x, D, {n}, got, s, k)
  BY DEF Handled
<1> HIDE DEF z, D
<1>2. Turned(x, D, got, s, k)
  <2>1. av.base \in Nat
    BY VideoIs DEF VideoQueueInv
  <2> QED
    BY <1>1, <2>1, TurnIs
<1>3. CASE ~av.initialized
  <2>1. Reassembled!StartWith(n)
    BY <1>1, <1>2, <1>3, StartsWith
  <2> QED
    BY <2>1 DEF Reassembled!Next
<1>4. CASE av.initialized /\ PushWants(av, n)
  <2>1. w = av
    BY <1>1, <1>4 DEF Begun
  <2>2. Reassembled!Receive(n) \/ Reassembled!ReceiveAndGiveUp(n)
    BY <1>1, <1>2, <1>4, <2>1, Receives
  <2> QED
    BY <2>2 DEF Reassembled!Next
<1>5. CASE av.initialized /\ ~PushWants(av, n)
  <2>1. w = av /\ av.base \notin HeldOf(av)
    BY <1>1, <1>5 DEF Begun
  <2>2. x.base = av.base /\ HeldOf(x) = HeldOf(av)
    BY <1>1, <1>5, <2>1 DEF PushedTo, PushBegin, PushHolds
  <2>3. Reassembled!GiveUp \/ UNCHANGED <<videoNextBar, HeldPackets>>
    BY <1>1, <1>2, <1>5, <2>1, <2>2, GivesUp
  <2> QED
    BY <2>3 DEF Reassembled!Next
<1> QED
  BY <1>3, <1>4, <1>5

LEMMA SameReassembly ==
    ASSUME av' = av
    PROVE UNCHANGED <<videoNextBar, HeldPackets>>
BY DEF videoNextBar, HeldPackets

LEMMA VideoStepReassembles ==
    ASSUME VideoQueueInv, [VideoNext]_videoVars
    PROVE Reassembled!Next \/ UNCHANGED <<videoNextBar, HeldPackets>>
<1> DEFINE Goal == Reassembled!Next \/ UNCHANGED <<videoNextBar, HeldPackets>>
<1>1. /\ IsAv(av) /\ av.out = <<>> /\ av.freed = <<>> /\ shown \in Seq(Packets)
  BY VideoIs DEF VideoQueueInv, AvTypes, VideoTypeOK
<1>2. CASE SetCrypt \/ UNCHANGED videoVars
  <2>1. av' = av
    BY <1>2 DEF SetCrypt, videoVars
  <2> QED
    BY <2>1, SameReassembly
<1>3. CASE Drain
  <2>1. newest' \in Packets
    BY <1>3 DEF Drain, VideoQueueInv, VideoTypeOK
  <2>2. PICK n \in Packets : \E w, x : \E s \in Nat, k \in Nat : Handled(n, {}, w, x, s, k)
    BY <1>3, DrainTurns DEF VideoQueueInv
  <2>3. PICK w, x : \E s \in Nat, k \in Nat : Handled(n, {}, w, x, s, k)
    BY <2>2
  <2>4. PICK s \in Nat, k \in Nat : Handled(n, {}, w, x, s, k)
    BY <2>3
  <2> QED
    BY <2>1, <2>4, HandledReassembles
<1>4. CASE TimePasses
  <2>1. PICK q, i, w, s, b, o, f :
          av = [queue |-> q, initialized |-> i, wait |-> w, waitSeq |-> s, base |-> b, out |-> o, freed |-> f]
    BY <1>1 DEF IsAv
  <2>2. av' = [queue |-> q, initialized |-> i, wait |-> "expired", waitSeq |-> s, base |-> b, out |-> o, freed |-> f]
    BY <1>4, <2>1 DEF TimePasses
  <2>3. av'.queue = av.queue /\ av'.base = av.base /\ av'.initialized = av.initialized
    BY <2>1, <2>2
  <2> QED
    BY <2>3 DEF videoNextBar, HeldPackets
<1>5. CASE ReceiveTimeout
  <2>1. PICK s \in Nat, k \in Nat :
             /\ Turn(av, {}, {}, {}, s, k)
             /\ \E z : Flushed(Packets, av, z, s, k) /\ Book(z, {})
    BY <1>5, TimeoutTurns DEF VideoQueueInv
  <2>2. PICK z : Flushed(Packets, av, z, s, k)
    BY <2>1
  <2>3. av.base \in Nat /\ newest' \in Packets /\ av.initialized
    BY <1>5, VideoIs DEF ReceiveTimeout, VideoQueueInv, VideoTypeOK
  <2>4. Turned(av, {}, {}, s, k)
    BY <2>1, <2>3, TurnIs
  <2>5. av.base \notin HeldOf(av)
    BY <2>3, VideoIs DEF VideoQueueInv, AvReady
  <2>6. Reassembled!GiveUp \/ UNCHANGED <<videoNextBar, HeldPackets>>
    BY <2>2, <2>3, <2>4, <2>5, GivesUp
  <2> QED
    BY <2>6 DEF Reassembled!Next
<1>6. CASE VideoLoopEnds
  <2>1. /\ IsAv(Idle) /\ Idle.out = <<>> /\ Idle.freed = <<>>
    BY DEF Idle, IsAv
  <2>2. PICK f : Book([Idle EXCEPT !.freed = f], {})
    BY <1>6 DEF VideoLoopEnds
  <2>3. av' = Idle
    BY <1>1, <2>1, <2>2, BookedFreed
  <2>4. videoNextBar' = -1 /\ HeldPackets' = {}
    BY <2>3, IdleIs DEF videoNextBar, HeldPackets
  <2>5. Reassembled!Stop
    BY <2>4 DEF Reassembled!Stop, Reassembled!Unset, videoNextBar
  <2> QED
    BY <2>5 DEF Reassembled!Next
<1>7. ASSUME NEW n \in Packets, HandlePostponed(n)
      PROVE Goal
  <2>1. Book(av, {n}) \/ Book([av EXCEPT !.freed = <<n>>], {n})
    BY <1>7 DEF HandlePostponed, Postpone
  <2>2. Book([av EXCEPT !.freed = <<>>], {n}) \/ Book([av EXCEPT !.freed = <<n>>], {n})
    BY <1>1, <2>1, BooksOne
  <2>3. av' = av
    BY <1>1, <2>2, BookedFreed
  <2> QED
    BY <2>3, SameReassembly
<1>8. ASSUME NEW n \in Packets, HandlePacket(n)
      PROVE Goal
  <2>1. newest' \in Packets
    <3>1. PacketArrives(n)
      BY <1>8 DEF HandlePacket
    <3> QED
      BY <3>1, PacketArrivesIs
  <2>2. PICK w, x : \E s \in Nat, k \in Nat :
             Handled(n, {n}, w, x, s, k) /\ Behind(postponed', x.base + x.queue.count, newest')
    BY <1>8, HandlePacketTurns DEF VideoQueueInv
  <2>3. PICK s \in Nat, k \in Nat : Handled(n, {n}, w, x, s, k)
    BY <2>2
  <2> QED
    BY <2>1, <2>3, HandledReassembles
<1>9. ASSUME NEW n \in Packets, HandleWithoutMemory(n)
      PROVE Goal
  <2> DEFINE w == InitQueue(av, n)
             b == FirstBegin(n)
  <2>1. CASE av' = av
    BY <2>1, SameReassembly
  <2>2. CASE ~av.initialized /\ Book([w EXCEPT !.freed = <<n>>], {n})
    <3>1. Fresh(av, w, b)
      BY <1>1, <2>2, InitQueueIs
    <3> HIDE DEF w
    <3>2. IsAv(w) /\ w.out = <<>> /\ w.freed = <<>> /\ w.initialized = TRUE /\ w.base = b /\ w.queue.count = 0
      BY <1>1, <3>1 DEF Fresh
    <3>3. av' = w
      BY <1>1, <2>2, <3>2, BookedFreed
    <3>4. b \in Packets
      <4>1. n \in Nat /\ n < NPackets /\ NPackets \in Nat
        BY VideoSizes DEF Packets
      <4>2. b \in 0..n
        BY <4>1, FirstBeginIs
      <4> QED
        BY <4>1, <4>2 DEF Packets
    <3>5. videoNextBar = -1 /\ videoNextBar' = b
      BY <2>2, <3>2, <3>3 DEF videoNextBar
    <3>6. HeldPackets' = {}
      BY <3>2, <3>3 DEF HeldPackets, Filled
    <3>7. Reassembled!Start
      BY <3>4, <3>5, <3>6 DEF Reassembled!Start, Reassembled!Unset, videoNextBar
    <3> QED
      BY <3>7 DEF Reassembled!Next
  <2>3. Book([av EXCEPT !.freed = <<n>>], {n}) \/ (~av.initialized /\ Book([w EXCEPT !.freed = <<n>>], {n}))
    <3>1. CASE av.initialized
      <4>1. w = av
        BY <3>1 DEF InitQueue
      <4> QED
        BY <1>9, <3>1, <4>1 DEF HandleWithoutMemory
    <3>2. CASE ~av.initialized
      BY <1>9, <3>2 DEF HandleWithoutMemory
    <3> QED
      BY <3>1, <3>2
  <2>4. ASSUME Book([av EXCEPT !.freed = <<n>>], {n}) PROVE av' = av
    BY <1>1, <2>4, BookedFreed
  <2> QED
    BY <2>1, <2>2, <2>3, <2>4
<1> QED
  BY <1>2, <1>3, <1>4, <1>5, <1>6, <1>7, <1>8, <1>9 DEF VideoNext

LEMMA VideoInitReassembles == VideoInit => Reassembled!Init
<1> SUFFICES ASSUME VideoInit PROVE Reassembled!Init
  OBVIOUS
<1>1. av = Idle
  BY DEF VideoInit
<1>2. videoNextBar = -1 /\ HeldPackets = {}
  BY <1>1, IdleIs DEF videoNextBar, HeldPackets
<1> QED
  BY <1>2 DEF Reassembled!Init, Reassembled!Unset, videoNextBar

\* The video queue, its flush and its timeout do what a reader expects that keeps packets in a set
\* under their true numbers and, when it waited long enough, goes on with the first it holds.
THEOREM VideoImplements == VideoSpec => VideoIsReassembly
<1>1. VideoSpec => Reassembled!Init
  BY VideoInitReassembles, PTL DEF VideoSpec
<1>2. VideoQueueInv /\ [VideoNext]_videoVars => [Reassembled!Next]_(Reassembled!reassemblyVars)
  BY VideoStepReassembles DEF Reassembled!reassemblyVars, videoNextBar
<1>3. VideoSpec => [][Reassembled!Next]_(Reassembled!reassemblyVars)
  <2>1. VideoSpec => [][VideoNext]_videoVars
    BY PTL DEF VideoSpec
  <2> QED
    BY <1>2, <2>1, VideoSafe, PTL
<1> QED
  BY <1>1, <1>3 DEF VideoIsReassembly, Reassembled!Spec
=============================================================================
