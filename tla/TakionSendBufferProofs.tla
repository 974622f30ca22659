----------------------- MODULE TakionSendBufferProofs -----------------------
(***************************************************************************)
(* The safety of TakionSendBuffer, for every size of the buffer, number of *)
(* tries and set of senders: the compaction loop of                        *)
(* chiaki_takion_send_buffer_ack, the ownership of the packets and the     *)
(* wake-ups of the resend thread.                                          *)
(***************************************************************************)
EXTENDS TakionSendBuffer, TLAPS, WellFoundedInduction

-----------------------------------------------------------------------------
(* The loop of chiaki_takion_send_buffer_ack.                              *)

\* A set of numbers that is not empty has a least one.
LEMMA Least ==
    ASSUME NEW T, T \subseteq Nat, T # {}
    PROVE \E m \in T : \A k \in T : m <= k
<1> DEFINE R == {ss \in Nat \X Nat : ss[1] < ss[2]}
<1>1. IsWellFoundedOn(R, Nat)
  BY NatLessThanWellFounded DEF OpToRel
<1>2. \A x, y \in Nat : <<x, y>> \in R <=> x < y
  OBVIOUS
<1> HIDE DEF R
<1>3. PICK m \in T : \A y \in T : ~(<<y, m>> \in R)
  BY WFMin, <1>1
<1>4. \A k \in T : k \in Nat /\ m \in Nat /\ ~(k < m)
  BY <1>2, <1>3
<1> QED
  BY <1>4

NoGapIn(mem) == [mem |-> mem, start |-> NoGap, shift |-> 0]

\* The recursive function of AckGap exists: a run of the loop over m slots goes on to m + 1.
LEMMA LoopRuns ==
    ASSUME NEW ack, NEW mem, NEW n \in Nat
    PROVE \E g : g = [i \in 0..n |-> IF i = 0 THEN NoGapIn(mem) ELSE AckLoop(ack, g[i - 1], i - 1)]
<1> DEFINE Runs(m) ==
        \E g : /\ DOMAIN g = 0..m
               /\ g = [i \in 0..m |-> IF i = 0 THEN NoGapIn(mem) ELSE AckLoop(ack, g[i - 1], i - 1)]
           T == {m \in 0..n : ~Runs(m)}
<1>1. Runs(0)
  <2> DEFINE g == [i \in 0..0 |-> NoGapIn(mem)]
  <2>1. g = [i \in 0..0 |-> IF i = 0 THEN NoGapIn(mem) ELSE AckLoop(ack, g[i - 1], i - 1)]
    OBVIOUS
  <2> QED
    BY <2>1
<1>2. ASSUME NEW m \in Nat, Runs(m) PROVE Runs(m + 1)
  <2>1. PICK g : /\ DOMAIN g = 0..m
                 /\ g = [i \in 0..m |-> IF i = 0 THEN NoGapIn(mem) ELSE AckLoop(ack, g[i - 1], i - 1)]
    BY <1>2
  <2> DEFINE h == [i \in 0..(m + 1) |-> IF i = m + 1 THEN AckLoop(ack, g[m], m) ELSE g[i]]
             k == [i \in 0..(m + 1) |-> IF i = 0 THEN NoGapIn(mem) ELSE AckLoop(ack, h[i - 1], i - 1)]
  <2>2. ASSUME NEW i \in 0..(m + 1) PROVE h[i] = k[i]
    <3>1. CASE i = 0
      BY <2>1, <3>1
    <3>2. CASE i = m + 1
      <4>1. k[i] = AckLoop(ack, h[m], m) /\ h[m] = g[m] /\ h[i] = AckLoop(ack, g[m], m)
        BY <3>2
      <4> QED
        BY <4>1
    <3>3. CASE i \in 1..m
      <4>1. g[i] = AckLoop(ack, g[i - 1], i - 1)
        BY <2>1, <3>3
      <4>2. h[i] = g[i] /\ h[i - 1] = g[i - 1] /\ k[i] = AckLoop(ack, h[i - 1], i - 1)
        BY <3>3
      <4> QED
        BY <4>1, <4>2
    <3> QED
      BY <3>1, <3>2, <3>3
  <2>3. h = k
    BY <2>2
  <2> QED
    BY <2>3
<1> HIDE DEF Runs
<1>3. T = {}
  <2> SUFFICES ASSUME T # {} PROVE FALSE
    OBVIOUS
  <2>0. T \subseteq Nat
    OBVIOUS
  <2>1. PICK m \in T : \A k \in T : m <= k
    <3> HIDE DEF T
    <3> QED
      BY <2>0, Least
  <2>2. m \in 0..n /\ ~Runs(m) /\ m # 0
    BY <1>1
  <2>3. m - 1 \in 0..n /\ ~(m <= m - 1)
    BY <2>2
  <2>4. Runs(m - 1)
    BY <2>1, <2>3
  <2>5. m - 1 \in Nat /\ (m - 1) + 1 = m
    BY <2>2
  <2>6. Runs((m - 1) + 1)
    BY <1>2, <2>4, <2>5
  <2> QED
    BY <2>2, <2>5, <2>6
<1>4. Runs(n)
  BY <1>3
<1> QED
  BY <1>4 DEF Runs

\* What AckGap computes, slot by slot.
LEMMA GapIs ==
    ASSUME NEW ack, NEW mem, NEW n \in Nat
    PROVE \E g : /\ g[0] = NoGapIn(mem)
                 /\ \A i \in 0..(n - 1) : g[i + 1] = AckLoop(ack, g[i], i)
                 /\ AckGap(ack, mem, n) = g[n]
<1> DEFINE g == CHOOSE g : g = [i \in 0..n |-> IF i = 0 THEN NoGapIn(mem)
                                               ELSE AckLoop(ack, g[i - 1], i - 1)]
<1>1. g = [i \in 0..n |-> IF i = 0 THEN NoGapIn(mem) ELSE AckLoop(ack, g[i - 1], i - 1)]
  BY LoopRuns
<1>2. AckGap(ack, mem, n) = g[n]
  BY DEF AckGap, NoGapIn
<1> HIDE DEF g
<1>3. g[0] = NoGapIn(mem)
  BY <1>1
<1>4. ASSUME NEW i \in 0..(n - 1) PROVE g[i + 1] = AckLoop(ack, g[i], i)
  <2>1. i + 1 \in 0..n /\ i + 1 # 0 /\ (i + 1) - 1 = i
    OBVIOUS
  <2> QED
    BY <1>1, <2>1
<1> QED
  BY <1>2, <1>3, <1>4

\* The first l places take the uncovered ones of the first m slots, in their order.
Takes(ack, mem, m, l, f) ==
    /\ m \in Nat /\ l \in Nat /\ l <= m /\ f \in [0..(l - 1) -> 0..(m - 1)]
    /\ \A k \in 0..(l - 1) : ~Covers(ack, mem[f[k]])
    /\ \A i \in 0..(m - 1) : ~Covers(ack, mem[i]) => \E k \in 0..(l - 1) : f[k] = i
    /\ \A k, j \in 0..(l - 1) : k < j => f[k] < f[j]

\* The slots from m on are not covered.
Spared(ack, mem, m, h) ==
    h \in Nat /\ m <= h /\ \A i \in m..(h - 1) : ~Covers(ack, mem[i])

\* Slots that are not covered are taken as they are, and one that is covered is not taken.
LEMMA TakesMore ==
    ASSUME NEW ack, NEW mem, NEW m, NEW l, NEW f, Takes(ack, mem, m, l, f),
           NEW h, Spared(ack, mem, m, h)
    PROVE \E t : /\ Takes(ack, mem, h, l + (h - m), t)
                 /\ \A k \in 0..(l - 1) : t[k] = f[k]
                 /\ \A k \in l..(l + (h - m) - 1) : t[k] = k + (m - l)
<1> DEFINE t == [k \in 0..(l + (h - m) - 1) |-> IF k < l THEN f[k] ELSE k + (m - l)]
<1> USE DEF Takes, Spared
<1>1. \A k \in 0..(l - 1) : f[k] \in 0..(m - 1)
  OBVIOUS
<1>2. \A k \in 0..(l - 1) : t[k] = f[k]
  OBVIOUS
<1>3. \A k \in l..(l + (h - m) - 1) : t[k] = k + (m - l) /\ k + (m - l) \in m..(h - 1)
  OBVIOUS
<1>4. \A k \in 0..(l + (h - m) - 1) : k \in 0..(l - 1) \/ k \in l..(l + (h - m) - 1)
  OBVIOUS
<1>5. t \in [0..(l + (h - m) - 1) -> 0..(h - 1)]
  <2>1. \A k \in 0..(l + (h - m) - 1) : t[k] \in 0..(h - 1)
    <3> SUFFICES ASSUME NEW k \in 0..(l + (h - m) - 1) PROVE t[k] \in 0..(h - 1)
      OBVIOUS
    <3>1. CASE k \in 0..(l - 1)
      <4>1. t[k] \in 0..(m - 1)
        BY <1>1, <1>2, <3>1
      <4> QED
        BY <4>1
    <3>2. CASE k \in l..(l + (h - m) - 1)
      <4>1. t[k] \in m..(h - 1)
        BY <1>3, <3>2
      <4> QED
        BY <4>1
    <3> QED
      BY <1>4, <3>1, <3>2
  <2> QED
    BY <2>1
<1> HIDE DEF t
<1>6. \A k \in 0..(l + (h - m) - 1) : ~Covers(ack, mem[t[k]])
  BY <1>2, <1>3, <1>4
<1>7. ASSUME NEW i \in 0..(h - 1), ~Covers(ack, mem[i]) PROVE \E k \in 0..(l + (h - m) - 1) : t[k] = i
  <2>1. CASE i \in 0..(m - 1)
    <3>1. PICK k \in 0..(l - 1) : f[k] = i
      BY <1>7, <2>1
    <3> QED
      BY <1>2, <3>1
  <2>2. CASE i \in m..(h - 1)
    <3>1. i - (m - l) \in l..(l + (h - m) - 1) /\ (i - (m - l)) + (m - l) = i
      BY <2>2
    <3>2. t[i - (m - l)] = (i - (m - l)) + (m - l)
      BY <1>3, <3>1
    <3>3. i - (m - l) \in 0..(l + (h - m) - 1)
      BY <3>1
    <3> QED
      BY <3>1, <3>2, <3>3
  <2> QED
    BY <2>1, <2>2
<1>8. ASSUME NEW k \in 0..(l + (h - m) - 1), NEW j \in 0..(l + (h - m) - 1), k < j PROVE t[k] < t[j]
  <2>1. CASE j \in 0..(l - 1)
    BY <1>2, <1>8, <2>1
  <2>2. CASE k \in 0..(l - 1) /\ j \in l..(l + (h - m) - 1)
    <3>1. t[k] \in 0..(m - 1) /\ t[j] \in m..(h - 1)
      BY <1>1, <1>2, <1>3, <2>2
    <3> QED
      BY <3>1
  <2>3. CASE k \in l..(l + (h - m) - 1) /\ j \in l..(l + (h - m) - 1)
    BY <1>3, <1>8, <2>3
  <2> QED
    BY <1>4, <1>8, <2>1, <2>2, <2>3
<1>9. Takes(ack, mem, h, l + (h - m), t)
  BY <1>5, <1>6, <1>7, <1>8
<1> QED
  BY <1>2, <1>3, <1>9

LEMMA TakesNot ==
    ASSUME NEW ack, NEW mem, NEW m, NEW l, NEW f, Takes(ack, mem, m, l, f), Covers(ack, mem[m])
    PROVE Takes(ack, mem, m + 1, l, f)
<1> USE DEF Takes
<1>1. \A k \in 0..(l - 1) : f[k] \in 0..m
  OBVIOUS
<1>2. ASSUME NEW i \in 0..m, ~Covers(ack, mem[i]) PROVE \E k \in 0..(l - 1) : f[k] = i
  <2>1. i \in 0..(m - 1)
    BY <1>2
  <2> QED
    BY <1>2, <2>1
<1>3. (m + 1) - 1 = m
  OBVIOUS
<1> QED
  BY <1>1, <1>2, <1>3

LEMMA TakesNone ==
    ASSUME NEW ack, NEW mem
    PROVE Takes(ack, mem, 0, 0, [k \in 0..(0 - 1) |-> k])
<1>1. \A k : k \notin 0..(0 - 1)
  OBVIOUS
<1> QED
  BY <1>1 DEF Takes

\* What the loop over the slots of mem keeps when it has seen i of them: the places before
\* the gap are taken, and what is behind it has not been touched.
Memories == [0..(Size - 1) -> Packet]
GapOk(ack, mem, i, gap) ==
    /\ gap.mem \in Memories /\ gap.shift \in Nat
    /\ gap = [mem |-> gap.mem, start |-> gap.start, shift |-> gap.shift]
    /\ \/ /\ gap.start = NoGap /\ gap.shift = 0 /\ gap.mem = mem
          /\ \A k \in 0..(i - 1) : ~Covers(ack, mem[k])
       \/ /\ gap.start \in Nat /\ gap.shift > 0 /\ gap.start + gap.shift <= i
          /\ \A k \in (gap.start + gap.shift)..(i - 1) : ~Covers(ack, mem[k])
          /\ \A k \in (gap.start + gap.shift)..(Size - 1) : gap.mem[k] = mem[k]
          /\ \E f : /\ Takes(ack, mem, gap.start + gap.shift, gap.start, f)
                    /\ \A k \in 0..(gap.start - 1) : gap.mem[k] = mem[f[k]]

\* Moving a run of slots down.
LEMMA MoveIs ==
    ASSUME NEW mem \in Memories, NEW dst \in Nat, NEW src \in Nat, NEW n \in Nat,
           dst <= src, src + n <= Size
    PROVE /\ MemMove(mem, dst, src, n) \in Memories
          /\ \A k \in dst..(dst + n - 1) : MemMove(mem, dst, src, n)[k] = mem[k + (src - dst)]
          /\ \A k \in 0..(Size - 1) : k \notin dst..(dst + n - 1) => MemMove(mem, dst, src, n)[k] = mem[k]
<1> USE SizesAssumption DEF Memories
<1>1. MemMove(mem, dst, src, n)
        = [k \in 0..(Size - 1) |-> IF k \in dst..(dst + n - 1) THEN mem[src + k - dst] ELSE mem[k]]
  BY DEF MemMove
<1>2. \A k \in dst..(dst + n - 1) : k \in 0..(Size - 1) /\ src + k - dst \in 0..(Size - 1)
                                    /\ src + k - dst = k + (src - dst)
  OBVIOUS
<1>3. \A k \in 0..(Size - 1) : (IF k \in dst..(dst + n - 1) THEN mem[src + k - dst] ELSE mem[k]) \in Packet
  BY <1>2
<1> HIDE DEF Memories
<1>4. MemMove(mem, dst, src, n) \in Memories
  BY <1>1, <1>3 DEF Memories
<1> QED
  BY <1>1, <1>2, <1>4

\* A run of the loop keeps it.
LEMMA GapStep ==
    ASSUME NEW ack, NEW mem \in Memories, NEW i \in 0..(Size - 1), NEW gap, GapOk(ack, mem, i, gap)
    PROVE GapOk(ack, mem, i + 1, AckLoop(ack, gap, i))
<1> DEFINE st == gap.start
           sh == gap.shift
           new == AckLoop(ack, gap, i)
<1> USE SizesAssumption
<1>0. gap.mem \in Memories /\ sh \in Nat /\ gap = [mem |-> gap.mem, start |-> st, shift |-> sh] /\ i \in Nat
  BY DEF GapOk
<1>1. gap.mem[i] = mem[i]
  BY DEF GapOk
<1>2. (i + 1) - 1 = i /\ \A k \in 0..i : k \in 0..(i - 1) \/ k = i
  OBVIOUS
<1>3. CASE ~Covers(ack, mem[i])
  <2>1. new = gap
    BY <1>1, <1>3 DEF AckLoop
  <2>2. CASE st = NoGap
    BY <1>0, <1>2, <1>3, <2>1, <2>2 DEF GapOk, NoGap
  <2>3. CASE st # NoGap
    <3>1. \A k \in (st + sh)..i : k \in (st + sh)..(i - 1) \/ k = i
      BY <1>0, <2>3 DEF GapOk
    <3> QED
      BY <1>0, <1>2, <1>3, <2>1, <2>3, <3>1 DEF GapOk
  <2> QED
    BY <2>2, <2>3
<1>4. CASE Covers(ack, mem[i]) /\ st = NoGap
  <2>1. new = [mem |-> mem, start |-> i, shift |-> 1] /\ \A k \in 0..(i - 1) : ~Covers(ack, mem[k])
    <3>1. gap.mem = mem /\ \A k \in 0..(i - 1) : ~Covers(ack, mem[k])
      BY <1>0, <1>4 DEF GapOk, NoGap
    <3>2. new = [gap EXCEPT !.start = i, !.shift = 1]
      BY <1>1, <1>4 DEF AckLoop
    <3> QED
      BY <1>0, <3>1, <3>2
  <2>2. PICK f : Takes(ack, mem, i, 0 + (i - 0), f) /\ \A k \in 0..(0 + (i - 0) - 1) : f[k] = k + (0 - 0)
    <3>1. PICK e : Takes(ack, mem, 0, 0, e)
      BY TakesNone
    <3>2. Spared(ack, mem, 0, i)
      BY <1>0, <2>1 DEF Spared
    <3> QED
      BY <3>1, <3>2, TakesMore
  <2>3. 0 + (i - 0) = i /\ \A k \in 0..(i - 1) : f[k] = k
    BY <1>0, <2>2
  <2>4. Takes(ack, mem, i + 1, i, f)
    BY <1>4, <2>2, <2>3, TakesNot
  <2> QED
    BY <1>0, <2>1, <2>3, <2>4 DEF GapOk
<1>5. CASE Covers(ack, mem[i]) /\ st # NoGap /\ st + sh = i
  <2>1. new = [mem |-> gap.mem, start |-> st, shift |-> sh + 1]
    BY <1>0, <1>1, <1>5 DEF AckLoop
  <2>2. st \in Nat /\ \A k \in i..(Size - 1) : gap.mem[k] = mem[k]
    BY <1>5 DEF GapOk
  <2>3. PICK f : Takes(ack, mem, i, st, f) /\ \A k \in 0..(st - 1) : gap.mem[k] = mem[f[k]]
    BY <1>5 DEF GapOk
  <2>4. Takes(ack, mem, i + 1, st, f)
    BY <1>0, <1>5, <2>2, <2>3, TakesNot
  <2>5. st + (sh + 1) = i + 1
    BY <1>0, <1>5, <2>2
  <2> QED
    BY <1>0, <2>1, <2>2, <2>3, <2>4, <2>5 DEF GapOk
<1>6. CASE Covers(ack, mem[i]) /\ st # NoGap /\ st + sh # i
  <2>1. /\ st \in Nat /\ sh > 0 /\ st + sh <= i
        /\ \A k \in (st + sh)..(i - 1) : ~Covers(ack, mem[k])
        /\ \A k \in (st + sh)..(Size - 1) : gap.mem[k] = mem[k]
    BY <1>6 DEF GapOk
  <2>2. PICK f : Takes(ack, mem, st + sh, st, f) /\ \A k \in 0..(st - 1) : gap.mem[k] = mem[f[k]]
    BY <1>6 DEF GapOk
  <2> DEFINE n == i - (st + sh)
             moved == MemMove(gap.mem, st, st + sh, n)
  <2>3. new = [mem |-> moved, start |-> i - sh, shift |-> sh + 1]
    BY <1>0, <1>1, <1>6 DEF AckLoop
  <2>4. st + sh \in Nat /\ n \in Nat /\ (st + sh) + n = i /\ st <= st + sh /\ (st + sh) + n <= Size
    BY <1>0, <2>1
  <2>5. /\ moved \in Memories
        /\ \A k \in st..(st + n - 1) : moved[k] = gap.mem[k + ((st + sh) - st)]
        /\ \A k \in 0..(Size - 1) : k \notin st..(st + n - 1) => moved[k] = gap.mem[k]
    BY <1>0, <2>1, <2>4, MoveIs
  <2>6. PICK t : /\ Takes(ack, mem, i, st + (i - (st + sh)), t)
                 /\ \A k \in 0..(st - 1) : t[k] = f[k]
                 /\ \A k \in st..(st + (i - (st + sh)) - 1) : t[k] = k + ((st + sh) - st)
    <3>1. Spared(ack, mem, st + sh, i)
      BY <1>0, <2>1 DEF Spared
    <3> QED
      BY <2>2, <3>1, TakesMore
  <2>7. st + (i - (st + sh)) = i - sh /\ i - sh = st + n /\ (i - sh) + (sh + 1) = i + 1
    BY <1>0, <2>1
  <2>8. Takes(ack, mem, i + 1, i - sh, t)
    <3>1. i - sh \in Nat
      BY <1>0, <2>1
    <3> QED
      BY <1>0, <1>6, <2>6, <2>7, <3>1, TakesNot
  <2>9. ASSUME NEW k \in 0..((i - sh) - 1) PROVE moved[k] = mem[t[k]]
    <3>1. CASE k < st
      <4>1. k \in 0..(st - 1) /\ k \in 0..(Size - 1) /\ k \notin st..(st + n - 1)
        BY <1>0, <2>1, <2>7, <3>1
      <4> QED
        BY <2>2, <2>5, <2>6, <4>1
    <3>2. CASE ~(k < st)
      <4>1. k \in st..(st + n - 1) /\ k \in st..(st + (i - (st + sh)) - 1)
        BY <1>0, <2>1, <2>7, <3>2
      <4>2. k + ((st + sh) - st) \in (st + sh)..(Size - 1)
        BY <1>0, <2>1, <3>2
      <4> QED
        BY <2>1, <2>5, <2>6, <4>1, <4>2
    <3> QED
      BY <3>1, <3>2
  <2>10. ASSUME NEW k \in (i + 1)..(Size - 1) PROVE moved[k] = mem[k]
    <3>1. k \in (st + sh)..(Size - 1) /\ k \in 0..(Size - 1) /\ k \notin st..(st + n - 1)
      BY <1>0, <2>1
    <3> QED
      BY <2>1, <2>5, <3>1
  <2>11. i - sh \in Nat /\ sh + 1 > 0 /\ sh + 1 \in Nat
    BY <1>0, <2>1
  <2> HIDE DEF moved, n
  <2>12. \A k \in (i + 1)..((i + 1) - 1) : ~Covers(ack, mem[k])
    BY <1>0
  <2> QED
    BY <2>3, <2>5, <2>7, <2>8, <2>9, <2>10, <2>11, <2>12 DEF GapOk
<1> QED
  BY <1>3, <1>4, <1>5, <1>6

\* When the loop is over, the places before the last gap and the slots behind it make up what
\* is left.
LEMMA CompactedIs ==
    ASSUME NEW ack, NEW mem \in Memories, NEW n \in 0..Size
    PROVE /\ Compacted(ack, mem, n).mem \in Memories
          /\ Compacted(ack, mem, n).count \in 0..n
          /\ \E f : /\ Takes(ack, mem, n, Compacted(ack, mem, n).count, f)
                    /\ \A k \in 0..(Compacted(ack, mem, n).count - 1) :
                           Compacted(ack, mem, n).mem[k] = mem[f[k]]
<1> USE SizesAssumption
<1>1. n \in Nat /\ n <= Size /\ Size \in Nat
  OBVIOUS
<1>2. PICK g : /\ g[0] = NoGapIn(mem)
               /\ \A i \in 0..(n - 1) : g[i + 1] = AckLoop(ack, g[i], i)
               /\ AckGap(ack, mem, n) = g[n]
  BY <1>1, GapIs
<1>3. GapOk(ack, mem, 0, g[0])
  BY <1>2 DEF GapOk, NoGapIn, NoGap
<1> DEFINE Ok(i) == GapOk(ack, mem, i, g[i])
           T == {i \in 0..n : ~Ok(i)}
<1>4. ASSUME NEW i \in 0..(n - 1), Ok(i) PROVE Ok(i + 1)
  <2>1. i \in 0..(Size - 1)
    BY <1>1
  <2> QED
    BY <1>2, <1>4, <2>1, GapStep
<1>5. GapOk(ack, mem, n, AckGap(ack, mem, n))
  <2>1. T = {}
    <3> SUFFICES ASSUME T # {} PROVE FALSE
      OBVIOUS
    <3>0. T \subseteq Nat
      OBVIOUS
    <3>1. PICK m \in T : \A k \in T : m <= k
      <4> HIDE DEF T
      <4> QED
        BY <3>0, Least
    <3>2. m \in 0..n /\ ~Ok(m) /\ m # 0
      BY <1>3
    <3> HIDE DEF Ok
    <3>3. m - 1 \in 0..(n - 1) /\ m - 1 \in 0..n /\ ~(m <= m - 1) /\ (m - 1) + 1 = m
      BY <3>2
    <3>4. Ok(m - 1)
      BY <3>1, <3>3
    <3>5. Ok((m - 1) + 1)
      BY <1>4, <3>3, <3>4
    <3> QED
      BY <3>2, <3>3, <3>5
  <2>2. Ok(n)
    BY <1>1, <2>1
  <2> QED
    BY <1>2, <2>2
<1> DEFINE gap == AckGap(ack, mem, n)
           st == gap.start
           sh == gap.shift
           src == st + sh
           moved == MemMove(gap.mem, st, src, n - src)
<1>6. /\ Compacted(ack, mem, n).mem = IF st # NoGap /\ src < n THEN moved ELSE gap.mem
      /\ Compacted(ack, mem, n).count = n - sh
  BY DEF Compacted
<1> HIDE DEF gap
<1>7. GapOk(ack, mem, n, gap)
  BY <1>5 DEF gap
<1>8. gap.mem \in Memories /\ sh \in Nat
  BY <1>7 DEF GapOk
<1>9. CASE st = NoGap
  <2>1. sh = 0 /\ gap.mem = mem /\ Spared(ack, mem, 0, n)
    BY <1>1, <1>7, <1>9 DEF GapOk, NoGap, Spared
  <2>2. PICK e : Takes(ack, mem, 0, 0, e)
    BY TakesNone
  <2>3. PICK f : Takes(ack, mem, n, 0 + (n - 0), f) /\ \A k \in 0..(0 + (n - 0) - 1) : f[k] = k + (0 - 0)
    BY <2>1, <2>2, TakesMore
  <2>4. 0 + (n - 0) = n /\ n - 0 = n /\ \A k \in 0..(n - 1) : f[k] = k
    BY <1>1, <2>3
  <2> QED
    BY <1>1, <1>6, <1>8, <1>9, <2>1, <2>3, <2>4
<1>10. CASE st # NoGap
  <2>1. /\ st \in Nat /\ sh > 0 /\ st + sh <= n /\ Spared(ack, mem, st + sh, n)
        /\ \A k \in (st + sh)..(Size - 1) : gap.mem[k] = mem[k]
    BY <1>1, <1>7, <1>10 DEF GapOk, Spared
  <2>2. PICK f : Takes(ack, mem, st + sh, st, f) /\ \A k \in 0..(st - 1) : gap.mem[k] = mem[f[k]]
    BY <1>7, <1>10 DEF GapOk
  <2>3. PICK t : /\ Takes(ack, mem, n, st + (n - (st + sh)), t)
                 /\ \A k \in 0..(st - 1) : t[k] = f[k]
                 /\ \A k \in st..(st + (n - (st + sh)) - 1) : t[k] = k + ((st + sh) - st)
    BY <2>1, <2>2, TakesMore
  <2>4. st + (n - (st + sh)) = n - sh /\ n - sh \in 0..n
    BY <1>1, <1>8, <2>1
  <2>5. CASE src < n
    <3>1. n - src \in Nat /\ st \in Nat /\ src \in Nat /\ st <= src /\ src + (n - src) <= Size
      BY <1>1, <1>8, <2>1, <2>5
    <3>2. /\ moved \in Memories
          /\ \A k \in st..(st + (n - src) - 1) : moved[k] = gap.mem[k + (src - st)]
          /\ \A k \in 0..(Size - 1) : k \notin st..(st + (n - src) - 1) => moved[k] = gap.mem[k]
      BY <1>8, <3>1, MoveIs
    <3>3. ASSUME NEW k \in 0..((n - sh) - 1) PROVE moved[k] = mem[t[k]]
      <4>1. CASE k < st
        <5>1. k \in 0..(st - 1) /\ k \in 0..(Size - 1) /\ k \notin st..(st + (n - src) - 1)
          BY <1>1, <1>8, <2>1, <4>1
        <5> QED
          BY <2>2, <2>3, <3>2, <5>1
      <4>2. CASE ~(k < st)
        <5>1. k \in st..(st + (n - src) - 1) /\ k + (src - st) \in (st + sh)..(Size - 1)
          BY <1>1, <1>8, <2>1, <4>2
        <5> QED
          BY <2>1, <2>3, <3>2, <5>1
      <4> QED
        BY <4>1, <4>2
    <3> HIDE DEF moved, src
    <3>4. Compacted(ack, mem, n).mem = moved
      BY <1>6, <1>10, <2>5
    <3> QED
      BY <1>6, <2>3, <2>4, <3>2, <3>3, <3>4
  <2>6. CASE ~(src < n)
    <3>1. n - sh = st
      BY <1>1, <1>8, <2>1, <2>6
    <3>2. Compacted(ack, mem, n).mem = gap.mem
      BY <1>6, <2>6
    <3>3. \A k \in 0..(st - 1) : gap.mem[k] = mem[t[k]]
      BY <2>2, <2>3
    <3> QED
      BY <1>6, <1>8, <2>3, <2>4, <3>1, <3>2, <3>3
  <2> QED
    BY <2>5, <2>6
<1> QED
  BY <1>9, <1>10

\* What RemoveAcked leaves in the queue.
LEMMA RemoveIs ==
    ASSUME slots \in Memories, count \in 0..Size, NEW ack, RemoveAcked(ack)
    PROVE /\ slots' \in Memories /\ count' \in 0..count
          /\ \E f : /\ Takes(ack, slots, count, count', f)
                    /\ \A k \in 0..(count' - 1) : slots'[k] = slots[f[k]]
          /\ Free({p.buf : p \in {q \in Live : Covers(ack, q)}})
<1>1. slots' = Compacted(ack, slots, count).mem /\ count' = Compacted(ack, slots, count).count
      /\ Free({p.buf : p \in {q \in Live : Covers(ack, q)}})
  BY DEF RemoveAcked
<1> QED
  BY <1>1, CompactedIs

-----------------------------------------------------------------------------
\* Whatever the order in which two senders pushed, an ack takes out exactly the packets
\* up to the acked number.
LEMMA AckStep ==
    ASSUME slots \in Memories, count \in 0..Size, NEW b \in Bufs, Ack(b)
    PROVE \E from \in [0..(count' - 1) -> 0..(count - 1)] :
              /\ {from[i] : i \in DOMAIN from}
                     = {i \in 0..(count - 1) : ~Covers(NumOf(b), slots[i])}
              /\ \A i, j \in DOMAIN from : i < j => from[i] < from[j]
              /\ \A i \in DOMAIN from : slots'[i] = slots[from[i]]
<1>1. RemoveAcked(NumOf(b))
  BY DEF Ack
<1>2. PICK f : /\ Takes(NumOf(b), slots, count, count', f)
               /\ \A k \in 0..(count' - 1) : slots'[k] = slots[f[k]]
  BY <1>1, RemoveIs
<1>3. f \in [0..(count' - 1) -> 0..(count - 1)] /\ DOMAIN f = 0..(count' - 1)
  BY <1>2 DEF Takes
<1>4. {f[i] : i \in DOMAIN f} = {i \in 0..(count - 1) : ~Covers(NumOf(b), slots[i])}
  <2>1. \A k \in DOMAIN f : f[k] \in 0..(count - 1) /\ ~Covers(NumOf(b), slots[f[k]])
    BY <1>2, <1>3 DEF Takes
  <2>2. \A i \in 0..(count - 1) : ~Covers(NumOf(b), slots[i]) => \E k \in DOMAIN f : f[k] = i
    BY <1>2, <1>3 DEF Takes
  <2> QED
    BY <2>1, <2>2
<1>5. \A i, j \in DOMAIN f : i < j => f[i] < f[j]
  BY <1>2, <1>3 DEF Takes
<1> QED
  BY <1>2, <1>3, <1>4, <1>5

-----------------------------------------------------------------------------
(* The ownership of the packets.                                           *)

IInv == SendBufferInv /\ NoLostWakeup

\* The queue, slot by slot.
LEMMA QueuedIs == Queued = {slots[i].buf : i \in 0..(count - 1)}
BY DEF Queued, Live

CoveredBufs(ack) == {p.buf : p \in {q \in Live : Covers(ack, q)}}

LEMMA CoveredIs ==
    ASSUME NEW ack
    PROVE CoveredBufs(ack) = {slots[i].buf : i \in {j \in 0..(count - 1) : Covers(ack, slots[j])}}
BY DEF CoveredBufs, Live

\* No two slots of the queue list the same packet.
LEMMA OneSlot ==
    ASSUME Listed, count \in Nat, NEW i \in 0..(count - 1), NEW j \in 0..(count - 1), slots[i].buf = slots[j].buf
    PROVE i = j
<1>1. CASE i < j
  <2>1. i \in 0..(j - 1)
    BY <1>1
  <2> QED
    BY <2>1 DEF Listed
<1>2. CASE j < i
  <2>1. j \in 0..(i - 1)
    BY <1>2
  <2> QED
    BY <2>1 DEF Listed
<1>3. CASE ~(i < j) /\ ~(j < i)
  BY <1>3
<1> QED
  BY <1>1, <1>2, <1>3

\* A removal takes the covered packets out of the queue, and only those.
LEMMA RemoveQueued ==
    ASSUME slots \in Memories, count \in 0..Size, Listed, numbered' = numbered,
           NEW ack, RemoveAcked(ack)
    PROVE /\ Queued' = Queued \ CoveredBufs(ack) /\ Listed'
          /\ CoveredBufs(ack) \subseteq Queued
<1>0. count \in Nat /\ count' \in Nat
  <2>1. count \in Nat
    BY SizesAssumption
  <2>2. count' \in 0..count
    BY RemoveIs
  <2> QED
    BY <2>1, <2>2
<1>1. PICK f : /\ Takes(ack, slots, count, count', f)
               /\ \A k \in 0..(count' - 1) : slots'[k] = slots[f[k]]
  BY RemoveIs
<1>2. \A k \in 0..(count' - 1) : f[k] \in 0..(count - 1) /\ ~Covers(ack, slots[f[k]])
  BY <1>1 DEF Takes
<1>3. \A i \in 0..(count - 1) : ~Covers(ack, slots[i]) => \E k \in 0..(count' - 1) : f[k] = i
  BY <1>1 DEF Takes
<1>4. \A k, j \in 0..(count' - 1) : k < j => f[k] < f[j]
  BY <1>1 DEF Takes
<1>5. Queued = {slots[i].buf : i \in 0..(count - 1)}
  BY QueuedIs
<1>6. Queued' = {slots'[i].buf : i \in 0..(count' - 1)}
  BY DEF Queued, Live
<1>7. CoveredBufs(ack) = {slots[i].buf : i \in {j \in 0..(count - 1) : Covers(ack, slots[j])}}
  BY CoveredIs
<1>8. ASSUME NEW b \in Queued' PROVE b \in Queued \ CoveredBufs(ack)
  <2>1. PICK k \in 0..(count' - 1) : b = slots[f[k]].buf
    BY <1>1, <1>6
  <2>2. b \in Queued
    BY <1>2, <1>5, <2>1
  <2>3. ASSUME b \in CoveredBufs(ack) PROVE FALSE
    <3>1. PICK j \in 0..(count - 1) : Covers(ack, slots[j]) /\ b = slots[j].buf
      BY <1>7, <2>3
    <3>2. j = f[k]
      BY <1>0, <1>2, <2>1, <3>1, OneSlot
    <3> QED
      BY <1>2, <2>1, <3>1, <3>2
  <2> QED
    BY <2>2, <2>3
<1>9. ASSUME NEW b \in Queued, b \notin CoveredBufs(ack) PROVE b \in Queued'
  <2>1. PICK i \in 0..(count - 1) : b = slots[i].buf
    BY <1>5
  <2>2. ~Covers(ack, slots[i])
    BY <1>7, <1>9, <2>1
  <2>3. PICK k \in 0..(count' - 1) : f[k] = i
    BY <1>3, <2>2
  <2> QED
    BY <1>1, <1>6, <2>1, <2>3
<1>10. \A n \in Nat : \A k \in 0..(n - 1) : \A j \in 0..(k - 1) : j \in 0..(n - 1) /\ j < k
  OBVIOUS
<1>11. Listed'
  <2>1. ASSUME NEW k \in 0..(count' - 1)
        PROVE /\ slots'[k].buf \in 0..(numbered' - 1) /\ slots'[k].seq = NumOf(slots'[k].buf)
              /\ \A j \in 0..(k - 1) : slots'[j].buf # slots'[k].buf
    <3>1. f[k] \in 0..(count - 1) /\ slots'[k] = slots[f[k]]
      BY <1>1, <1>2
    <3>2. slots[f[k]].buf \in 0..(numbered - 1) /\ slots[f[k]].seq = NumOf(slots[f[k]].buf)
      BY <3>1 DEF Listed
    <3>3. ASSUME NEW j \in 0..(k - 1) PROVE slots'[j].buf # slots'[k].buf
      <4>1. j \in 0..(count' - 1) /\ j < k
        BY <1>0, <1>10
      <4>2. f[j] < f[k] /\ f[j] \in 0..(count - 1) /\ slots'[j] = slots[f[j]]
        BY <1>1, <1>2, <1>4, <4>1
      <4>3. f[j] # f[k]
        BY <3>1, <4>2
      <4> QED
        BY <1>0, <3>1, <4>2, <4>3, OneSlot
    <3> QED
      BY <3>1, <3>2, <3>3
  <2> QED
    BY <2>1 DEF Listed, NumOf
<1> QED
  BY <1>5, <1>7, <1>8, <1>9, <1>11

\* Slots that change neither their packet nor its number leave the queue as it is.
SameSlots == /\ count' = count
             /\ \A i \in 0..(count - 1) : slots'[i].buf = slots[i].buf /\ slots'[i].seq = slots[i].seq
LEMMA SameQueued ==
    ASSUME SameSlots
    PROVE Queued' = Queued
<1>1. Queued = {slots[i].buf : i \in 0..(count - 1)}
  BY QueuedIs
<1>2. Queued' = {slots'[i].buf : i \in 0..(count' - 1)}
  BY DEF Queued, Live
<1> QED
  BY <1>1, <1>2 DEF SameSlots

LEMMA SameListed ==
    ASSUME SameSlots, Listed, count \in Nat, numbered \in Nat, numbered' \in Nat, numbered <= numbered'
    PROVE Listed'
<1>1. ASSUME NEW k \in 0..(count' - 1)
      PROVE /\ slots'[k].buf \in 0..(numbered' - 1) /\ slots'[k].seq = NumOf(slots'[k].buf)
            /\ \A j \in 0..(k - 1) : slots'[j].buf # slots'[k].buf
  <2>1. k \in 0..(count - 1) /\ \A j \in 0..(k - 1) : j \in 0..(count - 1)
    BY DEF SameSlots
  <2>2. slots[k].buf \in 0..(numbered - 1) /\ slots[k].seq = NumOf(slots[k].buf)
        /\ \A j \in 0..(k - 1) : slots[j].buf # slots[k].buf
    BY <2>1 DEF Listed
  <2>3. slots'[k].buf = slots[k].buf /\ slots'[k].seq = slots[k].seq
        /\ \A j \in 0..(k - 1) : slots'[j].buf = slots[j].buf
    BY <2>1 DEF SameSlots
  <2>4. slots[k].buf \in 0..(numbered' - 1)
    BY <2>2
  <2> QED
    BY <2>2, <2>3, <2>4
<1> QED
  BY <1>1 DEF Listed, NumOf

\* Taking the packets in bufs out of their owner's hands and freeing them is right.
LEMMA FreeDisowns ==
    ASSUME Disowned, freed \in [Bufs -> Nat], NEW bufs, Free(bufs), numbered' = numbered,
           \A b \in Bufs : b \in bufs => b < numbered /\ Owned(b) /\ ~Owned(b)',
           \A b \in Bufs : b \notin bufs => Owned(b)' = Owned(b)
    PROVE Disowned' /\ freed' \in [Bufs -> Nat]
<1>1. ASSUME NEW b \in Bufs
      PROVE freed'[b] \in Nat /\ freed'[b] = IF b < numbered' /\ ~Owned(b)' THEN 1 ELSE 0
  <2>1. freed[b] = IF b < numbered /\ ~Owned(b) THEN 1 ELSE 0
    BY DEF Disowned
  <2>2. freed'[b] = freed[b] + (IF b \in bufs THEN 1 ELSE 0)
    BY DEF Free
  <2>3. CASE b \in bufs
    BY <2>1, <2>2, <2>3
  <2>4. CASE b \notin bufs
    <3>1. Owned(b)' = Owned(b)
      BY <2>4
    <3>2. freed'[b] = freed[b]
      BY <2>2, <2>4
    <3> QED
      BY <2>1, <3>1, <3>2
  <2> QED
    BY <2>3, <2>4
<1>2. freed' \in [Bufs -> Nat]
  BY <1>1 DEF Free
<1>3. Disowned'
  BY <1>1 DEF Disowned, Bufs
<1> QED
  BY <1>2, <1>3

\* The ways in which a step leaves the packets to their owners.
LEMMA SameOwners ==
    ASSUME IInv, SameSlots, UNCHANGED <<numbered, spc, held, freed>>
    PROVE Owners'
<1>1. count \in Nat /\ numbered \in Nat
  BY SizesAssumption DEF IInv, SendBufferInv, TypeOK
<1>2. Queued' = Queued /\ Listed'
  BY <1>1, SameQueued, SameListed DEF IInv, SendBufferInv, Owners
<1>3. Holders'
  BY <1>2 DEF IInv, SendBufferInv, Owners, Holders
<1>4. Disowned'
  BY <1>2 DEF IInv, SendBufferInv, Owners, Disowned, Owned, Bufs
<1> QED
  BY <1>2, <1>3, <1>4 DEF Owners

LEMMA RemoveOwners ==
    ASSUME IInv, NEW ack, RemoveAcked(ack), UNCHANGED <<numbered, spc, held>>
    PROVE Owners' /\ freed' \in [Bufs -> Nat]
<1>0. slots \in Memories /\ count \in 0..Size /\ freed \in [Bufs -> Nat]
  BY DEF IInv, SendBufferInv, TypeOK, Memories
<1>1. Queued' = Queued \ CoveredBufs(ack) /\ Listed' /\ CoveredBufs(ack) \subseteq Queued
  BY <1>0, RemoveQueued DEF IInv, SendBufferInv, Owners
<1>2. Free(CoveredBufs(ack))
  BY DEF RemoveAcked, CoveredBufs
<1>3. \A b \in Queued : b \in 0..(numbered - 1) /\ \A s \in Senders : held[s] # b
  <2> SUFFICES ASSUME NEW b \in Queued PROVE b \in 0..(numbered - 1) /\ \A s \in Senders : held[s] # b
    OBVIOUS
  <2>1. b \in 0..(numbered - 1)
    BY QueuedIs DEF IInv, SendBufferInv, Owners, Listed
  <2>2. b # NoBuf
    BY <2>1 DEF NoBuf
  <2> QED
    BY <2>1, <2>2 DEF IInv, SendBufferInv, Owners, Holders
<1>4. Holders'
  BY <1>1 DEF IInv, SendBufferInv, Owners, Holders
<1>5. ASSUME NEW b \in Bufs, b \in CoveredBufs(ack) PROVE b < numbered /\ Owned(b) /\ ~Owned(b)'
  <2>1. b \in Queued /\ b \notin Queued'
    BY <1>1, <1>5
  <2>2. b \in 0..(numbered - 1) /\ \A s \in Senders : held[s] # b
    BY <1>3, <2>1
  <2>3. b < numbered
    BY <2>2 DEF IInv, SendBufferInv, TypeOK
  <2> QED
    BY <2>1, <2>2, <2>3 DEF Owned
<1>6. ASSUME NEW b \in Bufs, b \notin CoveredBufs(ack) PROVE Owned(b)' = Owned(b)
  BY <1>1, <1>6 DEF Owned
<1>7. Disowned' /\ freed' \in [Bufs -> Nat]
  BY <1>0, <1>2, <1>5, <1>6, FreeDisowns DEF IInv, SendBufferInv, Owners
<1> QED
  BY <1>1, <1>4, <1>7 DEF Owners

\* A packet in the queue has a number and is in no sender's hands.
LEMMA QueuedHeld ==
    ASSUME IInv, NEW b \in Queued
    PROVE b \in 0..(numbered - 1) /\ b \in Bufs /\ \A s \in Senders : held[s] # b
<1>1. b \in 0..(numbered - 1)
  BY QueuedIs DEF IInv, SendBufferInv, Owners, Listed
<1>2. numbered \in Nat /\ numbered <= MaxSends /\ MaxSends \in Nat
  BY SizesAssumption DEF IInv, SendBufferInv, TypeOK
<1>3. b # NoBuf /\ b \in Bufs
  BY <1>1, <1>2 DEF NoBuf, Bufs
<1> QED
  BY <1>1, <1>3 DEF IInv, SendBufferInv, Owners, Holders

\* A sender that is not idle holds a packet of its own.
LEMMA HeldIs ==
    ASSUME IInv, NEW s \in Senders, spc[s] # "idle"
    PROVE /\ held[s] \in 0..(numbered - 1) /\ held[s] \in Bufs /\ held[s] # NoBuf /\ held[s] \notin Queued
          /\ \A t \in Senders : t # s => held[t] # held[s]
<1>1. held[s] \in 0..(numbered - 1) /\ held[s] \notin Queued
  BY DEF IInv, SendBufferInv, Owners, Holders
<1>2. numbered \in Nat /\ numbered <= MaxSends /\ MaxSends \in Nat
  BY SizesAssumption DEF IInv, SendBufferInv, TypeOK
<1>3. held[s] # NoBuf /\ held[s] \in Bufs
  BY <1>1, <1>2 DEF NoBuf, Bufs
<1> QED
  BY <1>1, <1>3 DEF IInv, SendBufferInv, Owners, Holders

\* A sender lets go of its packet, which is freed or queued.
LetsGo(s) == /\ spc' = [spc EXCEPT ![s] = "idle"] /\ held' = [held EXCEPT ![s] = NoBuf]
             /\ numbered' = numbered
LEMMA LetsGoHolders ==
    ASSUME IInv, NEW s \in Senders, spc[s] # "idle", LetsGo(s),
           Queued' \subseteq Queued \cup {held[s]}
    PROVE Holders'
<1>1. spc \in [Senders -> {"idle", "numbered", "sent"}] /\ held \in [Senders -> Bufs \cup {NoBuf}]
  BY DEF IInv, SendBufferInv, TypeOK
<1>2. \A t \in Senders : t # s => held[t] # held[s] /\ held'[t] = held[t] /\ spc'[t] = spc[t]
  BY <1>1, HeldIs DEF LetsGo
<1>3. held'[s] = NoBuf /\ spc'[s] = "idle"
  BY <1>1 DEF LetsGo
<1>4. Holders
  BY DEF IInv, SendBufferInv, Owners
<1>5. ASSUME NEW t \in Senders
      PROVE IF spc'[t] = "idle" THEN held'[t] = NoBuf ELSE held'[t] \in 0..(numbered' - 1) \ Queued'
  <2>1. CASE t = s
    BY <1>3, <2>1
  <2>2. CASE t # s
    BY <1>2, <1>4, <2>2 DEF Holders, LetsGo
  <2> QED
    BY <2>1, <2>2
<1>6. ASSUME NEW t \in Senders, NEW u \in Senders, held'[t] = held'[u], t # u PROVE held'[t] = NoBuf
  <2>1. CASE t = s \/ u = s
    BY <1>3, <1>6, <2>1
  <2>2. CASE t # s /\ u # s
    BY <1>2, <1>4, <1>6, <2>2 DEF Holders
  <2> QED
    BY <2>1, <2>2
<1> QED
  BY <1>5, <1>6 DEF Holders

\* A refused or failed send, and a refused push, free the packet.
LEMMA RefusedOwners ==
    ASSUME IInv, NEW s \in Senders, spc[s] # "idle", LetsGo(s), Free({held[s]}), UNCHANGED <<slots, count>>
    PROVE Owners' /\ freed' \in [Bufs -> Nat]
<1>0. count \in Nat /\ numbered \in Nat /\ freed \in [Bufs -> Nat] /\ held \in [Senders -> Bufs \cup {NoBuf}]
  BY SizesAssumption DEF IInv, SendBufferInv, TypeOK
<1>1. SameSlots
  BY DEF SameSlots
<1>2. Queued' = Queued /\ Listed'
  BY <1>0, <1>1, SameQueued, SameListed DEF IInv, SendBufferInv, Owners, LetsGo
<1>3. Holders'
  BY <1>2, LetsGoHolders
<1>4. \A t \in Senders : t # s => held[t] # held[s] /\ held'[t] = held[t]
  BY <1>0, HeldIs DEF LetsGo
<1>5. held'[s] = NoBuf /\ held[s] < numbered /\ held[s] # NoBuf /\ held[s] \notin Queued
  BY <1>0, HeldIs DEF LetsGo
<1>6. Owned(held[s]) /\ \A b \in {held[s]} : b < numbered /\ Owned(b) /\ ~Owned(b)'
  BY <1>2, <1>4, <1>5 DEF Owned
<1>7. ASSUME NEW b \in Bufs, b \notin {held[s]} PROVE Owned(b)' = Owned(b)
  <2>1. b # NoBuf
    BY SizesAssumption DEF Bufs, NoBuf
  <2> QED
    BY <1>2, <1>4, <1>5, <1>7, <2>1 DEF Owned
<1>8. Disowned' /\ freed' \in [Bufs -> Nat]
  BY <1>0, <1>6, <1>7, FreeDisowns DEF IInv, SendBufferInv, Owners, LetsGo
<1> QED
  BY <1>2, <1>3, <1>8 DEF Owners

LEMMA NumberOwners ==
    ASSUME IInv, NEW s \in Senders, Number(s)
    PROVE Owners'
<1>0. /\ count \in Nat /\ numbered \in Nat /\ numbered < MaxSends /\ MaxSends \in Nat
      /\ held \in [Senders -> Bufs \cup {NoBuf}] /\ spc \in [Senders -> {"idle", "numbered", "sent"}]
  BY SizesAssumption DEF IInv, SendBufferInv, TypeOK, Number
<1>1. SameSlots /\ numbered' = numbered + 1
  BY DEF SameSlots, Number
<1>2. Queued' = Queued /\ Listed'
  BY <1>0, <1>1, SameQueued, SameListed DEF IInv, SendBufferInv, Owners
<1>3. held'[s] = numbered /\ spc'[s] = "numbered" /\ \A t \in Senders : t # s => held'[t] = held[t] /\ spc'[t] = spc[t]
  BY <1>0 DEF Number
<1>4. held[s] = NoBuf /\ numbered # NoBuf
  BY <1>0 DEF IInv, SendBufferInv, Owners, Holders, Number, NoBuf
<1>5. \A t \in Senders : held[t] = NoBuf \/ held[t] \in 0..(numbered - 1)
  BY DEF IInv, SendBufferInv, Owners, Holders
<1>6. numbered \notin Queued /\ \A t \in Senders : held[t] # numbered
  <2>1. numbered \notin 0..(numbered - 1)
    BY <1>0
  <2> QED
    BY <1>4, <1>5, <2>1, QueuedHeld
<1>7. ASSUME NEW t \in Senders
      PROVE IF spc'[t] = "idle" THEN held'[t] = NoBuf ELSE held'[t] \in 0..(numbered' - 1) \ Queued'
  <2>1. CASE t = s
    <3>1. numbered \in 0..(numbered' - 1)
      BY <1>0, <1>1
    <3> QED
      BY <1>2, <1>3, <1>6, <2>1, <3>1
  <2>2. CASE t # s
    <3>1. IF spc[t] = "idle" THEN held[t] = NoBuf ELSE held[t] \in 0..(numbered - 1) \ Queued
      BY DEF IInv, SendBufferInv, Owners, Holders
    <3>2. \A b \in 0..(numbered - 1) : b \in 0..(numbered' - 1)
      BY <1>0, <1>1
    <3> QED
      BY <1>2, <1>3, <2>2, <3>1, <3>2
  <2> QED
    BY <2>1, <2>2
<1>8. ASSUME NEW t \in Senders, NEW u \in Senders, held'[t] = held'[u], t # u PROVE held'[t] = NoBuf
  <2>1. held[t] = held[u] /\ t # s /\ u # s
    BY <1>3, <1>6, <1>8
  <2> QED
    BY <1>3, <1>8, <2>1 DEF IInv, SendBufferInv, Owners, Holders
<1>9. Holders'
  BY <1>7, <1>8 DEF Holders
<1>10. ASSUME NEW b \in Bufs PROVE freed'[b] = IF b < numbered' /\ ~Owned(b)' THEN 1 ELSE 0
  <2>0. freed'[b] = freed[b] /\ freed[b] = IF b < numbered /\ ~Owned(b) THEN 1 ELSE 0
    BY DEF IInv, SendBufferInv, Owners, Disowned, Number
  <2>1. CASE b = numbered
    <3>1. Owned(b)'
      BY <1>3, <2>1 DEF Owned
    <3> QED
      BY <1>0, <2>0, <2>1, <3>1
  <2>2. CASE b # numbered
    <3>1. b # NoBuf /\ b \in Int
      BY SizesAssumption DEF Bufs, NoBuf
    <3>2. Owned(b)' = Owned(b)
      BY <1>2, <1>3, <1>4, <2>2, <3>1 DEF Owned
    <3>3. b < numbered' <=> b < numbered
      BY <1>0, <1>1, <2>2, <3>1
    <3> QED
      BY <2>0, <3>2, <3>3
  <2> QED
    BY <2>1, <2>2
<1>11. Disowned'
  BY <1>10 DEF Disowned, Bufs
<1> QED
  BY <1>2, <1>9, <1>11 DEF Owners

LEMMA SendOwners ==
    ASSUME IInv, NEW s \in Senders, Send(s)
    PROVE Owners' /\ freed' \in [Bufs -> Nat]
<1>1. CASE /\ spc' = [spc EXCEPT ![s] = "sent"] /\ UNCHANGED <<held, freed>>
  <2>0. /\ spc \in [Senders -> {"idle", "numbered", "sent"}] /\ freed \in [Bufs -> Nat]
        /\ count \in Nat /\ numbered \in Nat
    BY SizesAssumption DEF IInv, SendBufferInv, TypeOK
  <2>1. SameSlots /\ numbered' = numbered /\ spc[s] = "numbered"
    BY DEF SameSlots, Send
  <2>2. Queued' = Queued /\ Listed'
    BY <2>0, <2>1, SameQueued, SameListed DEF IInv, SendBufferInv, Owners
  <2>3. \A t \in Senders : spc'[t] = "idle" <=> spc[t] = "idle"
    BY <1>1, <2>0, <2>1
  <2>4. Holders'
    BY <1>1, <2>1, <2>2, <2>3 DEF IInv, SendBufferInv, Owners, Holders
  <2>5. Disowned'
    BY <1>1, <2>1, <2>2 DEF IInv, SendBufferInv, Owners, Disowned, Owned, Bufs
  <2> QED
    BY <1>1, <2>0, <2>2, <2>4, <2>5 DEF Owners
<1>2. CASE /\ Free({held[s]}) /\ spc' = [spc EXCEPT ![s] = "idle"] /\ held' = [held EXCEPT ![s] = NoBuf]
  BY <1>2, RefusedOwners DEF LetsGo, Send
<1> QED
  BY <1>1, <1>2 DEF Send

\* A push that is not refused writes behind the last packet of the queue.
Appends(s) ==
    /\ ~PushRefused(NumOf(held[s])) /\ count' = count + 1
    /\ \E stamp \in {"fresh", "ahead"} :
           slots' = [slots EXCEPT ![count] =
               [seq |-> NumOf(held[s]), buf |-> held[s], tries |-> 0, stamp |-> stamp]]

LEMMA PushAppends ==
    ASSUME NEW s \in Senders, Push(s)
    PROVE /\ spc[s] = "sent" /\ MutexFree /\ LetsGo(s)
          /\ \/ Free({held[s]}) /\ UNCHANGED <<slots, count, rpc>>
             \/ Appends(s) /\ freed' = freed /\ rpc' = IF count' = 1 THEN Signalled ELSE rpc
<1>1. CASE PushRefused(NumOf(held[s]))
  BY <1>1 DEF Push, LetsGo
<1>2. CASE ~PushRefused(NumOf(held[s]))
  <2> DEFINE new == [seq |-> NumOf(held[s]), buf |-> held[s], tries |-> 0, stamp |-> "fresh"]
  <2>1. PICK stamp \in {"fresh", "ahead"} : slots' = [slots EXCEPT ![count] = [new EXCEPT !.stamp = stamp]]
    BY <1>2 DEF Push
  <2>2. [new EXCEPT !.stamp = stamp]
          = [seq |-> NumOf(held[s]), buf |-> held[s], tries |-> 0, stamp |-> stamp]
    OBVIOUS
  <2>3. count' = count + 1 /\ freed' = freed /\ rpc' = IF count' = 1 THEN Signalled ELSE rpc
    BY <1>2 DEF Push, Wakes
  <2>4. spc[s] = "sent" /\ MutexFree /\ LetsGo(s)
    BY DEF Push, LetsGo
  <2>5. Appends(s)
    BY <1>2, <2>1, <2>2, <2>3 DEF Appends
  <2> QED
    BY <2>3, <2>4, <2>5
<1> QED
  BY <1>1, <1>2

LEMMA NumIsSeq ==
    ASSUME NEW b \in Bufs
    PROVE NumOf(b) \in Seqs
<1>1. InitSeq \in Int /\ b \in Int /\ Modulus \in Nat /\ Modulus > 0
  BY SizesAssumption DEF Bufs
<1> QED
  BY <1>1 DEF NumOf, Seqs

LEMMA AppendSlots ==
    ASSUME slots \in Memories, count \in 0..Size, NEW s \in Senders, held[s] \in Bufs, Appends(s)
    PROVE /\ count < Size /\ slots' \in Memories /\ count' \in 0..Size
          /\ slots'[count].buf = held[s] /\ slots'[count].seq = NumOf(held[s])
          /\ \A i \in 0..(count - 1) : slots'[i] = slots[i]
<1>1. Size \in Nat /\ count \in Nat /\ count < Size
  BY SizesAssumption DEF Appends, PushRefused
<1>2. PICK stamp \in {"fresh", "ahead"} : slots' = [slots EXCEPT ![count] =
                [seq |-> NumOf(held[s]), buf |-> held[s], tries |-> 0, stamp |-> stamp]]
  BY DEF Appends
<1>3. NumOf(held[s]) \in Seqs
  BY NumIsSeq
<1>4. TriesMax \in Nat
  BY SizesAssumption
<1>5. [seq |-> NumOf(held[s]), buf |-> held[s], tries |-> 0, stamp |-> stamp] \in Packet
  BY <1>3, <1>4 DEF Packet, Stamps
<1>6. count \in 0..(Size - 1) /\ \A i \in 0..(count - 1) : i \in 0..(Size - 1) /\ i # count
  BY <1>1
<1>7. slots' \in Memories
  BY <1>2, <1>5, <1>6 DEF Memories
<1>8. /\ slots'[count].buf = held[s] /\ slots'[count].seq = NumOf(held[s])
      /\ \A i \in 0..(count - 1) : slots'[i] = slots[i]
  BY <1>2, <1>6 DEF Memories
<1>9. count' \in 0..Size
  BY <1>1 DEF Appends
<1> QED
  BY <1>1, <1>7, <1>8, <1>9

LEMMA AppendOwners ==
    ASSUME IInv, NEW s \in Senders, spc[s] # "idle", LetsGo(s), Appends(s), freed' = freed
    PROVE Owners'
<1>0. /\ slots \in Memories /\ count \in 0..Size /\ count \in Nat /\ numbered \in Nat
      /\ held \in [Senders -> Bufs \cup {NoBuf}]
  BY SizesAssumption DEF IInv, SendBufferInv, TypeOK, Memories
<1>1. held[s] \in Bufs /\ held[s] \in 0..(numbered - 1) /\ held[s] # NoBuf /\ held[s] \notin Queued
      /\ \A t \in Senders : t # s => held[t] # held[s]
  BY HeldIs
<1>2. /\ slots'[count].buf = held[s] /\ slots'[count].seq = NumOf(held[s])
      /\ \A i \in 0..(count - 1) : slots'[i] = slots[i]
  BY <1>0, <1>1, AppendSlots
<1>3. /\ numbered' = numbered
      /\ \A i \in 0..(count' - 1) : i \in 0..(count - 1) \/ i = count
      /\ \A i \in 0..(count - 1) : i \in 0..(count' - 1)
      /\ count \in 0..(count' - 1)
  BY <1>0 DEF Appends, LetsGo
<1>4. Queued' = Queued \cup {held[s]}
  <2>1. Queued' = {slots'[i].buf : i \in 0..(count' - 1)}
    BY DEF Queued, Live
  <2>2. \A i \in 0..(count - 1) : slots'[i].buf \in Queued
    BY <1>2, QueuedIs
  <2>3. Queued' \subseteq Queued \cup {held[s]}
    BY <1>2, <1>3, <2>1, <2>2
  <2>4. ASSUME NEW b \in Queued PROVE b \in Queued'
    <3>1. PICK i \in 0..(count - 1) : b = slots[i].buf
      BY QueuedIs
    <3>2. b = slots'[i].buf /\ i \in 0..(count' - 1)
      BY <1>2, <1>3, <3>1
    <3> QED
      BY <2>1, <3>2
  <2>5. held[s] \in Queued'
    BY <1>2, <1>3, <2>1
  <2> QED
    BY <2>3, <2>4, <2>5
<1>5. Listed'
  <2>1. ASSUME NEW i \in 0..(count' - 1)
        PROVE /\ slots'[i].buf \in 0..(numbered' - 1) /\ slots'[i].seq = NumOf(slots'[i].buf)
              /\ \A j \in 0..(i - 1) : slots'[j].buf # slots'[i].buf
    <3>1. CASE i \in 0..(count - 1)
      <4>1. /\ slots[i].buf \in 0..(numbered - 1) /\ slots[i].seq = NumOf(slots[i].buf)
            /\ \A j \in 0..(i - 1) : slots[j].buf # slots[i].buf
        BY <3>1 DEF IInv, SendBufferInv, Owners, Listed
      <4>2. \A j \in 0..(i - 1) : j \in 0..(count - 1)
        BY <1>0, <3>1
      <4> QED
        BY <1>2, <1>3, <3>1, <4>1, <4>2
    <3>2. CASE i = count
      <4>1. \A j \in 0..(count - 1) : slots'[j].buf # held[s]
        BY <1>1, <1>2, QueuedIs
      <4> QED
        BY <1>1, <1>2, <1>3, <3>2, <4>1
    <3> QED
      BY <1>3, <3>1, <3>2
  <2> QED
    BY <2>1 DEF Listed, NumOf
<1>6. Holders'
  BY <1>4, LetsGoHolders
<1>7. held'[s] = NoBuf /\ \A t \in Senders : t # s => held'[t] = held[t]
  BY <1>0 DEF LetsGo
<1>8. \A b \in Bufs : Owned(b)' = Owned(b)
  <2>1. \A b \in Bufs : b # NoBuf
    BY SizesAssumption DEF Bufs, NoBuf
  <2> QED
    BY <1>4, <1>7, <2>1 DEF Owned
<1>9. Disowned'
  BY <1>3, <1>8 DEF IInv, SendBufferInv, Owners, Disowned, Bufs
<1> QED
  BY <1>5, <1>6, <1>9 DEF Owners

LEMMA PushOwners ==
    ASSUME IInv, NEW s \in Senders, Push(s)
    PROVE Owners' /\ freed' \in [Bufs -> Nat]
<1>1. freed \in [Bufs -> Nat]
  BY DEF IInv, SendBufferInv, TypeOK
<1> QED
  BY <1>1, PushAppends, RefusedOwners, AppendOwners

LEMMA FiniOwners ==
    ASSUME IInv, FiniJoined
    PROVE Owners' /\ freed' \in [Bufs -> Nat]
<1>0. freed \in [Bufs -> Nat] /\ numbered \in Nat
  BY DEF IInv, SendBufferInv, TypeOK
<1>1. Free(Queued) /\ count' = 0 /\ UNCHANGED <<numbered, spc, held>>
  BY DEF FiniJoined, senderVars
<1>2. \A i : i \notin 0..(0 - 1)
  OBVIOUS
<1>3. Queued' = {} /\ Listed'
  BY <1>1, <1>2 DEF Queued, Live, Listed
<1>4. Holders'
  BY <1>1, <1>3 DEF IInv, SendBufferInv, Owners, Holders
<1>5. ASSUME NEW b \in Bufs, b \in Queued PROVE b < numbered /\ Owned(b) /\ ~Owned(b)'
  <2>1. b < numbered /\ \A s \in Senders : held[s] # b
    BY <1>0, <1>5, QueuedHeld
  <2> QED
    BY <1>1, <1>3, <1>5, <2>1 DEF Owned
<1>6. ASSUME NEW b \in Bufs, b \notin Queued PROVE Owned(b)' = Owned(b)
  BY <1>1, <1>3, <1>6 DEF Owned
<1>7. Disowned' /\ freed' \in [Bufs -> Nat]
  BY <1>0, <1>1, <1>5, <1>6, FreeDisowns DEF IInv, SendBufferInv, Owners
<1> QED
  BY <1>3, <1>4, <1>7 DEF Owners

-----------------------------------------------------------------------------
(* The steps, by what they do to the queue.                                *)

\* Steps that move a thread on and leave the packets where they are.
Moves ==
    \/ LoopEnds \/ CloseDoor \/ FiniSignal
    \/ StartWait \/ Block \/ Timeout \/ SpuriousWake \/ Reacquire \/ TimedWaitFails \/ Check
    \/ NotDue \/ Exhausted \/ ReadSeq \/ Relock
    \/ UNCHANGED vars

\* Steps that change the stamps and tries of queued packets.
Stamped == PassEnds \/ Resend \/ \E expired \in SUBSET FreshSlots : Elapse(expired)

\* Steps that remove what an ack covers.
Removes(ack) == RemoveAcked(ack) /\ UNCHANGED senderVars

LEMMA Steps ==
    ASSUME [Next]_vars
    PROVE \/ \E s \in Senders : Number(s) \/ Send(s) \/ Push(s)
          \/ \E b \in Bufs : Ack(b)
          \/ FiniJoined \/ GiveUp \/ Stamped \/ Moves
BY DEF Next, TakionThread, ResendThread, Finished, Moves, Stamped

LEMMA MovesLeave ==
    ASSUME Moves
    PROVE UNCHANGED <<slots, count, senderVars, wire, freed, lost>>
BY DEF Moves, LoopEnds, CloseDoor, FiniSignal, StartWait, Block, Timeout, SpuriousWake, Reacquire,
       TimedWaitFails, Check, NotDue, Exhausted, ReadSeq, Relock, resendFrame, vars

LEMMA RemovesSteps ==
    /\ \A b \in Bufs : Ack(b) => Removes(NumOf(b))
    /\ GiveUp => Removes(ackArg)
BY DEF Ack, GiveUp, Removes

LEMMA StampedSlots ==
    ASSUME IInv, Stamped
    PROVE /\ SameSlots /\ slots' \in Memories /\ UNCHANGED <<count, senderVars, freed, lost>>
<1>1. slots \in Memories /\ count \in 0..Size /\ idx \in 0..Size /\ Size \in Nat /\ count \in Nat /\ TriesMax \in Nat
  BY SizesAssumption DEF IInv, SendBufferInv, TypeOK, Memories
<1>2. 0..(count - 1) \subseteq 0..(Size - 1)
  BY <1>1
<1>3. \A i \in 0..(Size - 1) : slots[i] \in Packet
  BY <1>1 DEF Memories
<1>4. \A p \in Packet : \A stamp \in Stamps : /\ [p EXCEPT !.stamp = stamp] \in Packet
                                              /\ [p EXCEPT !.stamp = stamp].buf = p.buf
                                              /\ [p EXCEPT !.stamp = stamp].seq = p.seq
  BY DEF Packet
<1>5. "fresh" \in Stamps /\ "old" \in Stamps /\ DOMAIN slots = 0..(Size - 1)
  BY <1>1 DEF Stamps, Memories
<1>6. CASE PassEnds
  <2>1. slots' = [i \in 0..(Size - 1) |-> IF slots[i].stamp = "ahead"
                                          THEN [slots[i] EXCEPT !.stamp = "fresh"] ELSE slots[i]]
    BY <1>5, <1>6 DEF PassEnds
  <2>2. \A i \in 0..(Size - 1) : slots'[i] \in Packet /\ slots'[i].buf = slots[i].buf /\ slots'[i].seq = slots[i].seq
    BY <1>3, <1>4, <1>5, <2>1
  <2>3. slots' \in Memories
    BY <2>1, <2>2 DEF Memories
  <2> QED
    BY <1>2, <1>6, <2>2, <2>3 DEF SameSlots, PassEnds
<1>7. CASE \E expired \in SUBSET FreshSlots : Elapse(expired)
  <2>1. PICK expired : Elapse(expired)
    BY <1>7
  <2>2. slots' = [i \in 0..(Size - 1) |-> IF i \in expired THEN [slots[i] EXCEPT !.stamp = "old"] ELSE slots[i]]
    BY <1>5, <2>1 DEF Elapse
  <2>3. \A i \in 0..(Size - 1) : slots'[i] \in Packet /\ slots'[i].buf = slots[i].buf /\ slots'[i].seq = slots[i].seq
    BY <1>3, <1>4, <1>5, <2>2
  <2>4. slots' \in Memories
    BY <2>2, <2>3 DEF Memories
  <2> QED
    BY <1>2, <2>1, <2>3, <2>4 DEF SameSlots, Elapse
<1>8. CASE Resend
  <2>1. idx \in 0..(Size - 1) /\ slots[idx] \in Packet /\ slots[idx].tries < TriesMax
    BY <1>1, <1>3, <1>8 DEF Resend
  <2> DEFINE new == [slots[idx] EXCEPT !.stamp = "fresh", !.tries = @ + 1]
  <2>2. slots' = [slots EXCEPT ![idx] = new]
    BY <1>1, <1>8, <2>1 DEF Resend, Memories
  <2>3. new \in Packet /\ new.buf = slots[idx].buf /\ new.seq = slots[idx].seq
    <3>1. slots[idx].tries + 1 \in 0..TriesMax
      BY <1>1, <2>1 DEF Packet
    <3> QED
      BY <1>5, <2>1, <3>1 DEF Packet
  <2> HIDE DEF new
  <2>4. slots' \in Memories
    BY <1>1, <2>2, <2>3 DEF Memories
  <2>5. \A i \in 0..(Size - 1) : slots'[i].buf = slots[i].buf /\ slots'[i].seq = slots[i].seq
    BY <1>1, <2>2, <2>3 DEF Memories
  <2> QED
    BY <1>2, <1>8, <2>4, <2>5 DEF SameSlots, Resend
<1> QED
  BY <1>6, <1>7, <1>8 DEF Stamped

-----------------------------------------------------------------------------
(* The inductive invariant, conjunct by conjunct.                          *)

LEMMA OwnersKept ==
    ASSUME IInv, [Next]_vars
    PROVE Owners' /\ freed' \in [Bufs -> Nat]
<1>0. freed \in [Bufs -> Nat]
  BY DEF IInv, SendBufferInv, TypeOK
<1>1. ASSUME NEW s \in Senders, Number(s) \/ Send(s) \/ Push(s) PROVE Owners' /\ freed' \in [Bufs -> Nat]
  <2>1. CASE Number(s)
    BY <1>0, <2>1, NumberOwners DEF Number
  <2> QED
    BY <1>1, <2>1, SendOwners, PushOwners
<1>2. CASE (\E b \in Bufs : Ack(b)) \/ GiveUp
  <2>1. PICK ack : Removes(ack)
    BY <1>2, RemovesSteps
  <2> QED
    BY <2>1, RemoveOwners DEF Removes, senderVars
<1>3. CASE FiniJoined
  BY <1>3, FiniOwners
<1>4. CASE Stamped
  BY <1>0, <1>4, StampedSlots, SameOwners DEF senderVars
<1>5. CASE Moves
  BY <1>0, <1>5, MovesLeave, SameOwners DEF SameSlots, senderVars
<1> QED
  BY <1>1, <1>2, <1>3, <1>4, <1>5, Steps

LEMMA SlotsKept ==
    ASSUME IInv, [Next]_vars
    PROVE slots' \in Memories /\ count' \in 0..Size
<1>0. slots \in Memories /\ count \in 0..Size /\ Size \in Nat
  BY SizesAssumption DEF IInv, SendBufferInv, TypeOK, Memories
<1>1. ASSUME NEW s \in Senders, Number(s) \/ Send(s) \/ Push(s) PROVE slots' \in Memories /\ count' \in 0..Size
  <2>1. CASE Number(s) \/ Send(s)
    BY <1>0, <2>1 DEF Number, Send
  <2>2. CASE Push(s)
    <3>1. held[s] \in Bufs
      BY <2>2, PushAppends, HeldIs
    <3> QED
      BY <1>0, <2>2, <3>1, PushAppends, AppendSlots
  <2> QED
    BY <1>1, <2>1, <2>2
<1>2. CASE (\E b \in Bufs : Ack(b)) \/ GiveUp
  <2>1. PICK ack : RemoveAcked(ack)
    BY <1>2, RemovesSteps DEF Removes
  <2>2. slots' \in Memories /\ count' \in 0..count
    BY <1>0, <2>1, RemoveIs
  <2> QED
    BY <1>0, <2>2
<1>3. CASE FiniJoined
  BY <1>0, <1>3 DEF FiniJoined
<1>4. CASE Stamped
  BY <1>0, <1>4, StampedSlots
<1>5. CASE Moves
  BY <1>0, <1>5, MovesLeave
<1> QED
  BY <1>1, <1>2, <1>3, <1>4, <1>5, Steps

LEMMA SendersKept ==
    ASSUME IInv, [Next]_vars
    PROVE /\ numbered' \in 0..MaxSends
          /\ spc' \in [Senders -> {"idle", "numbered", "sent"}]
          /\ held' \in [Senders -> Bufs \cup {NoBuf}]
<1>0. /\ numbered \in 0..MaxSends /\ spc \in [Senders -> {"idle", "numbered", "sent"}]
      /\ held \in [Senders -> Bufs \cup {NoBuf}] /\ MaxSends \in Nat
  BY SizesAssumption DEF IInv, SendBufferInv, TypeOK
<1>1. ASSUME NEW s \in Senders, Number(s)
      PROVE /\ numbered' \in 0..MaxSends
            /\ spc' \in [Senders -> {"idle", "numbered", "sent"}]
            /\ held' \in [Senders -> Bufs \cup {NoBuf}]
  <2>1. numbered \in Bufs /\ numbered + 1 \in 0..MaxSends
    BY <1>0, <1>1 DEF Number, Bufs
  <2> QED
    BY <1>0, <1>1, <2>1 DEF Number
<1>2. CASE \E s \in Senders : Send(s)
  BY <1>0, <1>2 DEF Send
<1>3. CASE \E s \in Senders : Push(s)
  BY <1>0, <1>3, PushAppends DEF LetsGo
<1>4. CASE (\E b \in Bufs : Ack(b)) \/ GiveUp
  BY <1>0, <1>4, RemovesSteps DEF Removes, senderVars
<1>5. CASE FiniJoined
  BY <1>0, <1>5 DEF FiniJoined, senderVars
<1>6. CASE Stamped
  BY <1>0, <1>6, StampedSlots DEF senderVars
<1>7. CASE Moves
  BY <1>0, <1>7, MovesLeave DEF senderVars
<1> QED
  BY <1>1, <1>2, <1>3, <1>4, <1>5, <1>6, <1>7, Steps

LEMMA HistoryKept ==
    ASSUME IInv, [Next]_vars
    PROVE wire' \subseteq Bufs /\ lost' \subseteq Bufs
<1>0. wire \subseteq Bufs /\ lost \subseteq Bufs /\ count \in Nat /\ idx \in Nat
  BY SizesAssumption DEF IInv, SendBufferInv, TypeOK
<1>1. CASE \E s \in Senders : Number(s) \/ Push(s)
  BY <1>0, <1>1 DEF Number, Push
<1>2. ASSUME NEW s \in Senders, Send(s) PROVE wire' \subseteq Bufs /\ lost' \subseteq Bufs
  <2>1. held[s] \in Bufs
    BY <1>2, HeldIs DEF Send
  <2> QED
    BY <1>0, <1>2, <2>1 DEF Send
<1>3. CASE (\E b \in Bufs : Ack(b)) \/ FiniJoined
  BY <1>0, <1>3 DEF Ack, FiniJoined
<1>4. CASE GiveUp
  <2>1. Queued \subseteq Bufs
    BY QueuedHeld
  <2>2. {p.buf : p \in {q \in Live : Covers(ackArg, q) /\ q.tries < TriesMax}} \subseteq Queued
    BY DEF Queued
  <2> QED
    BY <1>0, <1>4, <2>1, <2>2 DEF GiveUp
<1>5. CASE Stamped
  <2>1. CASE PassEnds \/ \E expired \in SUBSET FreshSlots : Elapse(expired)
    BY <1>0, <2>1 DEF PassEnds, Elapse
  <2>2. CASE Resend
    <3>1. idx \in 0..(count - 1)
      BY <1>0, <2>2 DEF Resend
    <3>2. slots[idx].buf \in Bufs
      BY <3>1, QueuedIs, QueuedHeld
    <3> QED
      BY <1>0, <2>2, <3>2 DEF Resend
  <2> QED
    BY <1>5, <2>1, <2>2 DEF Stamped
<1>6. CASE Moves
  BY <1>0, <1>6, MovesLeave
<1> QED
  BY <1>1, <1>2, <1>3, <1>4, <1>5, <1>6, Steps

RpcStates == {"top", "willTimed", "willUntimed", "check", "scan", "unlocked", "giveup", "relock",
              "timed", "untimed", "timedOut", "timedWoken", "untimedWoken", "done"}
LEMMA StatesAre == Holding \cup InPass \cup {"timed", "untimed", "timedOut", "timedWoken", "untimedWoken", "done"}
                     = RpcStates
BY DEF Holding, InPass, RpcStates

ResendActs == \/ StartWait \/ Block \/ Timeout \/ SpuriousWake \/ Reacquire \/ TimedWaitFails \/ Check
              \/ NotDue \/ Exhausted \/ ReadSeq \/ Relock \/ PassEnds \/ Resend \/ GiveUp
TakionActs == LoopEnds \/ CloseDoor \/ FiniSignal \/ FiniJoined \/ \E b \in Bufs : Ack(b)
SenderActs == \E s \in Senders : Number(s) \/ Send(s) \/ Push(s)

LEMMA Threads ==
    ASSUME [Next]_vars
    PROVE \/ ResendActs \/ TakionActs \/ SenderActs
          \/ \E expired \in SUBSET FreshSlots : Elapse(expired)
          \/ UNCHANGED vars
BY DEF Next, TakionThread, ResendThread, Finished, ResendActs, TakionActs, SenderActs

\* Only the resend thread moves itself, except that a signal wakes it.
LEMMA OnlySignalled ==
    ASSUME TakionActs \/ SenderActs \/ (\E expired \in SUBSET FreshSlots : Elapse(expired)) \/ UNCHANGED vars
    PROVE UNCHANGED <<idx, ackArg>> /\ (rpc' = rpc \/ rpc' = Signalled)
<1>1. CASE TakionActs
  BY <1>1 DEF TakionActs, LoopEnds, CloseDoor, FiniSignal, FiniJoined, Ack, resendVars
<1>2. CASE SenderActs
  <2>1. PICK s \in Senders : Number(s) \/ Send(s) \/ Push(s)
    BY <1>2 DEF SenderActs
  <2>2. CASE Number(s) \/ Send(s)
    BY <2>2 DEF Number, Send, resendVars
  <2>3. CASE Push(s)
    BY <2>3, PushAppends DEF Push
  <2> QED
    BY <2>1, <2>2, <2>3
<1>3. CASE (\E expired \in SUBSET FreshSlots : Elapse(expired)) \/ UNCHANGED vars
  BY <1>3 DEF Elapse, vars, resendVars
<1> QED
  BY <1>1, <1>2, <1>3

LEMMA ResendKept ==
    ASSUME IInv, [Next]_vars
    PROVE rpc' \in RpcStates /\ idx' \in 0..Size /\ ackArg' \in Seqs
<1>0. /\ rpc \in RpcStates /\ idx \in 0..Size /\ ackArg \in Seqs
      /\ count \in 0..Size /\ Size \in Nat /\ Size > 0
      /\ slots \in Memories
  BY SizesAssumption, StatesAre DEF IInv, SendBufferInv, TypeOK, Memories
<1>1. Signalled \in RpcStates
  BY <1>0 DEF Signalled, RpcStates
<1>2. CASE ResendActs
  <2>1. rpc' \in RpcStates
    <3>1. CASE StartWait \/ Block \/ Timeout \/ TimedWaitFails \/ Check
      BY <3>1 DEF StartWait, Block, Timeout, TimedWaitFails, Check, RpcStates
    <3>2. CASE SpuriousWake
      BY <1>1, <3>2 DEF SpuriousWake
    <3>3. CASE Reacquire
      BY <3>3 DEF Reacquire, RpcStates
    <3>4. CASE NotDue \/ Exhausted \/ ReadSeq \/ Relock \/ PassEnds \/ Resend \/ GiveUp
      BY <1>0, <3>4 DEF NotDue, Exhausted, ReadSeq, Relock, PassEnds, Resend, GiveUp, RpcStates
    <3> QED
      BY <1>2, <3>1, <3>2, <3>3, <3>4 DEF ResendActs
  <2>2. idx' \in 0..Size
    <3>1. CASE NotDue \/ Resend
      BY <1>0, <3>1 DEF NotDue, Resend
    <3>2. CASE Check \/ PassEnds \/ Relock
      BY <1>0, <3>2 DEF Check, PassEnds, Relock
    <3>3. CASE \/ StartWait \/ Block \/ Timeout \/ SpuriousWake \/ Reacquire \/ TimedWaitFails
               \/ Exhausted \/ ReadSeq \/ GiveUp
      BY <1>0, <3>3 DEF StartWait, Block, Timeout, SpuriousWake, Reacquire, TimedWaitFails, Exhausted, ReadSeq, GiveUp
    <3> QED
      BY <1>2, <3>1, <3>2, <3>3 DEF ResendActs
  <2>3. ackArg' \in Seqs
    <3>1. CASE ReadSeq
      <4>1. idx \in 0..(Size - 1)
        BY <1>0, <3>1 DEF IInv, SendBufferInv, Looking, ReadSeq
      <4> QED
        BY <1>0, <3>1, <4>1 DEF ReadSeq, Memories, Packet
    <3>2. CASE GiveUp
      BY <3>2, SizesAssumption DEF GiveUp, Seqs
    <3>3. CASE \/ StartWait \/ Block \/ Timeout \/ SpuriousWake \/ Reacquire \/ TimedWaitFails \/ Check
               \/ NotDue \/ Exhausted \/ Relock \/ PassEnds \/ Resend
      BY <1>0, <3>3 DEF StartWait, Block, Timeout, SpuriousWake, Reacquire, TimedWaitFails, Check, NotDue, Exhausted,
                 Relock, PassEnds, Resend
    <3> QED
      BY <1>2, <3>1, <3>2, <3>3 DEF ResendActs
  <2> QED
    BY <2>1, <2>2, <2>3
<1>3. CASE ~ResendActs
  BY <1>0, <1>1, <1>3, Threads, OnlySignalled
<1> QED
  BY <1>2, <1>3

TakionVars == <<shouldStop, open, tpc>>
LEMMA TakionLeft ==
    ASSUME ResendActs \/ SenderActs \/ (\E expired \in SUBSET FreshSlots : Elapse(expired)) \/ UNCHANGED vars
    PROVE UNCHANGED TakionVars
<1> USE DEF TakionVars
<1>1. CASE ResendActs
  BY <1>1 DEF ResendActs, StartWait, Block, Timeout, SpuriousWake, Reacquire, TimedWaitFails, Check,
              NotDue, Exhausted, ReadSeq, Relock, PassEnds, Resend, GiveUp, resendFrame
<1>2. CASE SenderActs
  BY <1>2 DEF SenderActs, Number, Send, Push
<1>3. CASE (\E expired \in SUBSET FreshSlots : Elapse(expired)) \/ UNCHANGED vars
  BY <1>3 DEF Elapse, vars
<1> QED
  BY <1>1, <1>2, <1>3

LEMMA TakionKept ==
    ASSUME IInv, [Next]_vars
    PROVE shouldStop' \in BOOLEAN /\ open' \in BOOLEAN /\ tpc' \in {"run", "ending", "closed", "joining", "gone"}
<1>0. shouldStop \in BOOLEAN /\ open \in BOOLEAN /\ tpc \in {"run", "ending", "closed", "joining", "gone"}
  BY DEF IInv, SendBufferInv, TypeOK
<1>1. CASE TakionActs
  BY <1>0, <1>1 DEF TakionActs, LoopEnds, CloseDoor, FiniSignal, FiniJoined, Ack
<1>2. CASE ~TakionActs
  BY <1>0, <1>2, Threads, TakionLeft DEF TakionVars
<1> QED
  BY <1>1, <1>2

LEMMA TypesKept ==
    ASSUME IInv, [Next]_vars
    PROVE TypeOK'
BY OwnersKept, SlotsKept, SendersKept, HistoryKept, ResendKept, TakionKept, StatesAre
   DEF TypeOK, Memories, Bufs, Seqs, Packet, Stamps, Holding, InPass

LEMMA LookingKept ==
    ASSUME IInv, [Next]_vars
    PROVE Looking'
<1>0. /\ rpc \in RpcStates /\ idx \in 0..Size /\ count \in 0..Size /\ count \in Nat /\ Size \in Nat
      /\ shouldStop \in BOOLEAN
      /\ rpc \in {"unlocked", "giveup", "relock"} => idx < Size
      /\ rpc = "willUntimed" => count = 0 /\ ~shouldStop
  BY SizesAssumption, StatesAre DEF IInv, SendBufferInv, TypeOK, Looking
<1>1. CASE ResendActs
  <2>1. rpc' \in {"unlocked", "giveup", "relock"} => idx' < Size
    BY <1>0, <1>1 DEF ResendActs, StartWait, Block, Timeout, SpuriousWake, Reacquire, TimedWaitFails, Check,
       NotDue, Exhausted, ReadSeq, Relock, PassEnds, Resend, GiveUp, Signalled
  <2>2. rpc' = "willUntimed" => count' = 0 /\ ~shouldStop'
    <3>1. CASE StartWait \/ Reacquire
      BY <1>0, <3>1 DEF StartWait, Reacquire, PredPackets, PredNoPackets, resendFrame
    <3>2. CASE \/ Block \/ Timeout \/ SpuriousWake \/ TimedWaitFails \/ Check
               \/ NotDue \/ Exhausted \/ ReadSeq \/ Relock \/ PassEnds \/ Resend \/ GiveUp
      BY <3>2 DEF Block, Timeout, SpuriousWake, TimedWaitFails, Check,
         NotDue, Exhausted, ReadSeq, Relock, PassEnds, Resend, GiveUp, Signalled
    <3> QED
      BY <1>1, <3>1, <3>2 DEF ResendActs
  <2> QED
    BY <2>1, <2>2 DEF Looking
<1>2. CASE ~ResendActs
  <2>1. UNCHANGED <<idx, ackArg>> /\ (rpc' = rpc \/ rpc' = Signalled)
    BY <1>2, Threads, OnlySignalled
  <2>2. rpc' = rpc \/ rpc' \in {"timedWoken", "untimedWoken"}
    BY <2>1 DEF Signalled
  <2>3. ASSUME rpc = "willUntimed" PROVE count' = count /\ shouldStop' = shouldStop
    <3>1. ~MutexFree
      BY <2>3 DEF MutexFree, Holding
    <3>2. CASE TakionActs
      BY <2>3, <3>1, <3>2 DEF TakionActs, LoopEnds, CloseDoor, FiniSignal, FiniJoined, Ack
    <3>3. CASE SenderActs
      BY <3>1, <3>3 DEF SenderActs, Number, Send, Push
    <3>4. CASE (\E expired \in SUBSET FreshSlots : Elapse(expired)) \/ UNCHANGED vars
      BY <3>4 DEF Elapse, vars
    <3> QED
      BY <1>2, <3>2, <3>3, <3>4, Threads
  <2> QED
    BY <1>0, <2>1, <2>2, <2>3 DEF Looking
<1> QED
  BY <1>1, <1>2

LEMMA ClosedKept ==
    ASSUME IInv, [Next]_vars
    PROVE Closed'
<1>0. /\ tpc \in {"closed", "joining", "gone"} => ~open /\ StateFree
      /\ tpc = "gone" => count = 0 /\ rpc = "done"
      /\ spc \in [Senders -> {"idle", "numbered", "sent"}]
  BY DEF IInv, SendBufferInv, TypeOK, Closed
<1>1. CASE SenderActs
  <2>1. PICK s \in Senders : Number(s) \/ Send(s) \/ Push(s)
    BY <1>1 DEF SenderActs
  <2>2. tpc' = tpc /\ open' = open
    BY <1>1, TakionLeft DEF TakionVars
  <2>3. CASE tpc \in {"closed", "joining", "gone"}
    <3>1. ~open /\ StateFree /\ ~Push(s)
      BY <1>0, <2>3 DEF StateFree, Push
    <3>2. spc'[s] # "sent" /\ \A t \in Senders : t # s => spc'[t] = spc[t]
      BY <1>0, <2>1, <3>1 DEF Number, Send
    <3>3. StateFree'
      BY <3>1, <3>2 DEF StateFree
    <3>4. count' = count /\ rpc' = rpc
      BY <2>1, <3>1 DEF Number, Send, resendVars
    <3> QED
      BY <1>0, <2>2, <3>1, <3>3, <3>4 DEF Closed
  <2>4. CASE tpc \notin {"closed", "joining", "gone"}
    BY <2>2, <2>4 DEF Closed
  <2> QED
    BY <2>3, <2>4
<1>2. CASE TakionActs
  <2>1. CASE LoopEnds \/ \E b \in Bufs : Ack(b)
    BY <2>1 DEF LoopEnds, Ack, Closed
  <2>2. CASE CloseDoor
    BY <2>2 DEF CloseDoor, Closed, StateFree, senderVars
  <2>3. CASE FiniSignal
    BY <1>0, <2>3 DEF FiniSignal, Closed, StateFree, senderVars
  <2>4. CASE FiniJoined
    BY <1>0, <2>4 DEF FiniJoined, Closed, StateFree, senderVars, resendVars
  <2> QED
    BY <1>2, <2>1, <2>2, <2>3, <2>4 DEF TakionActs
<1>3. CASE ResendActs
  <2>1. rpc # "done" /\ UNCHANGED spc
    BY <1>3 DEF ResendActs, StartWait, Block, Timeout, SpuriousWake, Reacquire, TimedWaitFails, Check,
       NotDue, Exhausted, ReadSeq, Relock, PassEnds, Resend, GiveUp, resendFrame, senderVars
  <2> QED
    BY <1>0, <1>3, <2>1, TakionLeft DEF TakionVars, Closed, StateFree
<1>4. CASE (\E expired \in SUBSET FreshSlots : Elapse(expired)) \/ UNCHANGED vars
  BY <1>0, <1>4 DEF Elapse, vars, Closed, StateFree, senderVars, resendVars
<1> QED
  BY <1>1, <1>2, <1>3, <1>4, Threads

LEMMA WakeupKept ==
    ASSUME IInv, [Next]_vars
    PROVE NoLostWakeup'
<1>0. /\ rpc = "untimed" => count = 0 /\ ~shouldStop
      /\ rpc = "willUntimed" => count = 0 /\ ~shouldStop
      /\ slots \in Memories /\ count \in 0..Size /\ count \in Nat
  BY SizesAssumption DEF IInv, SendBufferInv, TypeOK, Looking, NoLostWakeup, Memories
<1>1. Signalled # "untimed"
  BY DEF Signalled
<1>2. CASE ResendActs
  <2>1. CASE Block
    BY <1>0, <2>1 DEF Block, resendFrame, NoLostWakeup
  <2>2. CASE \/ StartWait \/ Timeout \/ SpuriousWake \/ Reacquire \/ TimedWaitFails \/ Check
             \/ NotDue \/ Exhausted \/ ReadSeq \/ Relock \/ PassEnds \/ Resend \/ GiveUp
    <3>1. rpc' # "untimed"
      BY <1>1, <2>2 DEF StartWait, Timeout, SpuriousWake, Reacquire, TimedWaitFails, Check,
         NotDue, Exhausted, ReadSeq, Relock, PassEnds, Resend, GiveUp
    <3> QED
      BY <3>1 DEF NoLostWakeup
  <2> QED
    BY <1>2, <2>1, <2>2 DEF ResendActs
<1>3. CASE SenderActs
  <2>1. PICK s \in Senders : Number(s) \/ Send(s) \/ Push(s)
    BY <1>3 DEF SenderActs
  <2>2. CASE Number(s) \/ Send(s)
    BY <1>0, <2>2 DEF Number, Send, resendVars, NoLostWakeup
  <2>3. CASE Push(s)
    <3>1. shouldStop' = shouldStop
      BY <2>3 DEF Push
    <3>2. CASE UNCHANGED <<slots, count, rpc>>
      BY <1>0, <3>1, <3>2 DEF NoLostWakeup
    <3>3. CASE Appends(s) /\ rpc' = IF count' = 1 THEN Signalled ELSE rpc
      <4>1. CASE count = 0
        <5>1. count' = 1
          BY <3>3, <4>1 DEF Appends
        <5> QED
          BY <1>1, <3>3, <5>1 DEF NoLostWakeup
      <4>2. CASE count # 0
        BY <1>0, <1>1, <3>3, <4>2 DEF NoLostWakeup
      <4> QED
        BY <4>1, <4>2
    <3> QED
      BY <2>3, <3>2, <3>3, PushAppends
  <2> QED
    BY <2>1, <2>2, <2>3
<1>4. CASE TakionActs
  <2>1. CASE \E b \in Bufs : Ack(b)
    <3>1. PICK b \in Bufs : Ack(b)
      BY <2>1
    <3>2. RemoveAcked(NumOf(b)) /\ rpc' = rpc /\ shouldStop' = shouldStop
      BY <3>1 DEF Ack, resendVars
    <3>3. count' \in 0..count
      BY <1>0, <3>2, RemoveIs
    <3>4. count = 0 => count' = 0
      BY <3>3
    <3> QED
      BY <1>0, <3>2, <3>4 DEF NoLostWakeup
  <2>2. CASE LoopEnds \/ CloseDoor
    BY <1>0, <2>2 DEF LoopEnds, CloseDoor, resendVars, NoLostWakeup
  <2>3. CASE FiniSignal
    BY <1>1, <2>3 DEF FiniSignal, NoLostWakeup
  <2>4. CASE FiniJoined
    BY <2>4 DEF FiniJoined, resendVars, NoLostWakeup
  <2> QED
    BY <1>4, <2>1, <2>2, <2>3, <2>4 DEF TakionActs
<1>5. CASE (\E expired \in SUBSET FreshSlots : Elapse(expired)) \/ UNCHANGED vars
  BY <1>0, <1>5 DEF Elapse, vars, resendVars, NoLostWakeup
<1> QED
  BY <1>2, <1>3, <1>4, <1>5, Threads

\* Each packet has its owner, so none is freed twice, and at the end none is left.
LEMMA OwnedIsFreedOnce ==
    ASSUME TypeOK, Owners, Closed
    PROVE BuffersFreedOnce
<1>0. numbered \in Nat /\ count \in Nat /\ numbered <= MaxSends /\ MaxSends \in Nat
      /\ held \in [Senders -> Bufs \cup {NoBuf}]
  BY SizesAssumption DEF TypeOK
<1>1. \A b \in Bufs : freed[b] = IF b < numbered /\ ~Owned(b) THEN 1 ELSE 0
  BY DEF Owners, Disowned
<1>2. \A b \in Bufs : freed[b] <= 1
  BY <1>1
<1>3. ASSUME NEW b \in Queued \cup {held[s] : s \in Senders}, b # NoBuf PROVE freed[b] = 0
  <2>1. b \in Bufs
    <3>1. CASE b \in Queued
      <4>1. b \in 0..(numbered - 1)
        BY <3>1, QueuedIs DEF Owners, Listed
      <4> QED
        BY <1>0, <4>1 DEF Bufs
    <3>2. CASE b \notin Queued
      BY <1>0, <1>3, <3>2
    <3> QED
      BY <3>1, <3>2
  <2>2. Owned(b)
    BY <1>3 DEF Owned
  <2> QED
    BY <1>1, <2>1, <2>2
<1>4. ASSUME tpc = "gone", \A s \in Senders : spc[s] = "idle", NEW b \in 0..(numbered - 1)
      PROVE freed[b] = 1
  <2>1. b \in Bufs /\ b < numbered /\ b # NoBuf
    BY <1>0 DEF Bufs, NoBuf
  <2>2. \A s \in Senders : held[s] = NoBuf
    BY <1>4 DEF Owners, Holders
  <2>3. Queued = {}
    <3>1. count = 0
      BY <1>4 DEF Closed
    <3>2. \A i : i \notin 0..(0 - 1)
      OBVIOUS
    <3> QED
      BY <3>1, <3>2, QueuedIs
  <2>4. ~Owned(b)
    BY <2>1, <2>2, <2>3 DEF Owned
  <2> QED
    BY <1>1, <2>1, <2>4
<1> QED
  BY <1>2, <1>3, <1>4 DEF BuffersFreedOnce

LEMMA InitInv ==
    ASSUME Init
    PROVE IInv
<1>0. Size \in Nat /\ Size > 0 /\ TriesMax \in Nat /\ MaxSends \in Nat /\ Modulus \in Nat /\ Modulus > 0
  BY SizesAssumption
<1>1. Zeroed \in Packet
  BY <1>0 DEF Zeroed, Packet, Seqs, Stamps
<1>2. TypeOK
  <2>1. 0 \in Seqs /\ 0 \in 0..Size /\ 0 \in 0..MaxSends
    BY <1>0 DEF Seqs
  <2>2. slots \in [0..(Size - 1) -> Packet]
    BY <1>1 DEF Init
  <2>3. rpc \in Holding
    BY DEF Init, Holding
  <2>4. /\ spc \in [Senders -> {"idle", "numbered", "sent"}] /\ held \in [Senders -> Bufs \cup {NoBuf}]
        /\ freed \in [Bufs -> Nat]
    BY DEF Init
  <2> QED
    BY <2>1, <2>2, <2>3, <2>4 DEF Init, TypeOK
<1>3. \A i : i \notin 0..(0 - 1)
  OBVIOUS
<1>4. Queued = {}
  BY <1>3, QueuedIs DEF Init
<1>5. Owners
  <2>1. Holders
    BY DEF Init, Holders
  <2>2. Listed
    BY <1>3 DEF Init, Listed
  <2>3. Disowned
    <3>1. \A b \in Bufs : ~(b < 0)
      BY <1>0 DEF Bufs
    <3> QED
      BY <3>1 DEF Init, Disowned
  <2> QED
    BY <2>1, <2>2, <2>3 DEF Owners
<1>6. Closed /\ Looking /\ NoLostWakeup
  BY DEF Init, Closed, Looking, NoLostWakeup
<1> QED
  BY <1>2, <1>5, <1>6, OwnedIsFreedOnce DEF IInv, SendBufferInv

LEMMA NextInv ==
    ASSUME IInv, [Next]_vars
    PROVE IInv'
<1>1. TypeOK' /\ Owners' /\ Closed' /\ Looking' /\ NoLostWakeup'
  BY TypesKept, OwnersKept, ClosedKept, LookingKept, WakeupKept
<1>2. (TypeOK /\ Owners /\ Closed => BuffersFreedOnce)'
  BY OwnedIsFreedOnce, PTL
<1> QED
  BY <1>1, <1>2 DEF IInv, SendBufferInv

LEMMA Invariance == Spec => []IInv
BY InitInv, NextInv, PTL DEF Spec

\* The buffer never overflows its array, and every packet has one owner: it is freed once,
\* by the sender, by an ack, by a give-up or by chiaki_takion_send_buffer_fini.
THEOREM BufferSafe == Spec => []SendBufferInv
<1>1. IInv => SendBufferInv
  BY DEF IInv
<1> QED
  BY <1>1, Invariance, PTL

\* The resend thread sleeps without a deadline only when nothing is queued and nobody asked it
\* to stop (PLE-490).
THEOREM WakeupSafe == Spec => []NoLostWakeup
<1>1. IInv => NoLostWakeup
  BY DEF IInv
<1> QED
  BY <1>1, Invariance, PTL

\* chiaki_takion_send_buffer_ack removes the packets up to the acked number, whatever their
\* order in the array, and keeps the others in theirs.
THEOREM AckSafe == Spec => AckTakesPrefix
<1> DEFINE Prefix == \A b \in Bufs : Ack(b) =>
          \E from \in [0..(count' - 1) -> 0..(count - 1)] :
              /\ {from[i] : i \in DOMAIN from}
                     = {i \in 0..(count - 1) : ~Covers(NumOf(b), slots[i])}
              /\ \A i, j \in DOMAIN from : i < j => from[i] < from[j]
              /\ \A i \in DOMAIN from : slots'[i] = slots[from[i]]
<1>1. IInv /\ [Next]_vars => [Prefix]_vars
  <2>1. IInv => slots \in Memories /\ count \in 0..Size
    BY DEF IInv, SendBufferInv, TypeOK, Memories
  <2>2. IInv => Prefix
    BY <2>1, AckStep
  <2> QED
    BY <2>2
<1> QED
  BY <1>1, Invariance, PTL DEF Spec, AckTakesPrefix
=============================================================================
