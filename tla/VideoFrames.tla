----------------------------- MODULE VideoFrames -----------------------------
(***************************************************************************)
(* The video receiver and its frame processor (lib/src/videoreceiver.c,    *)
(* lib/src/frameprocessor.c): units of frames arrive in order, some are    *)
(* lost; a frame with enough units is assembled and handed to the decoder, *)
(* any other is reported to the console as corrupt and counted as lost.    *)
(* A report may fail to be sent. Frame indices are 16 bit and wrap.        *)
(*                                                                         *)
(* The receiver is one record, since chiaki_video_receiver_av_packet may   *)
(* flush two frames in one call. The frame numbers that do not wrap, and   *)
(* the fields below "history", exist only here.                            *)
(***************************************************************************)
EXTENDS Integers, Sequences, FiniteSets, SequencesExt

CONSTANTS
    SeqSize,        \* 2^16: the size of the space of frame indices
    RefSlots,       \* 16: the length of reference_frames
    SourceUnits,    \* units_in_frame_total - units_in_frame_fec
    FecUnits,       \* units_in_frame_fec
    MaxFrames,      \* how many frames the console sends
    IdrOnFecFailure \* enable_idr_on_fec_failure

ASSUME ConstantsAssumption ==
    /\ SeqSize \in Nat /\ SeqSize % 2 = 0 /\ RefSlots \in 1..(SeqSize \div 2 - 1)
    /\ SourceUnits \in Nat \ {0} /\ FecUnits \in Nat \ {0}
    /\ MaxFrames \in Nat /\ IdrOnFecFailure \in BOOLEAN

VARIABLES
    rx,     \* the receiver
    lastUnit, \* the unit of the current frame that arrived last
    gui     \* the user's thread in StreamSession::RequestIDR

vars == <<rx, lastUnit, gui>>

Units == 0..(SourceUnits + FecUnits - 1)
Half == SeqSize \div 2
Index(n) == n % SeqSize
Gt(a, b) == (a - b) % SeqSize \in 1..(Half - 1)
Distance == 0..(RefSlots - 1)

\* What a frame holds: an intra frame, a frame that refers to the one d + 1 before it, or
\* a slice that the bitstream parser does not understand.
Contents == [kind : {"I", "raw"}, ref : {0}] \cup [kind : {"P"}, ref : Distance]

Fresh ==
    [cur |-> -1, prev |-> -1, complete |-> 0, units |-> {}, content |-> [kind |-> "I", ref |-> 0],
     refs |-> <<>>, waiting |-> FALSE, lostTotal |-> 0, receivedTotal |-> 0, discardedTotal |-> 0,
     arrived |-> -1, counted |-> -1,
     \* history
     now |-> 0, first |-> 1, known |-> <<>>, decoded |-> {}, reported |-> {}, unsent |-> {},
     sent |-> TRUE, sample |-> {}, last |-> MaxFrames]

\* The last frame that was completed: the one "complete" is the index of.
Done(r) == IF r.known = <<>> THEN 0 ELSE r.known[1]

\* A stream that has run without loss up to just before the wrap.
Running ==
    LET n == SeqSize - 2 IN
    [Fresh EXCEPT !.cur = n, !.prev = n, !.complete = n, !.units = Units,
                  !.refs = [i \in 1..RefSlots |-> n + 1 - i], !.arrived = n, !.counted = n - 1,
                  !.now = n, !.first = n + 1, !.known = [i \in 1..RefSlots |-> n + 1 - i],
                  !.decoded = {n + 1 - i : i \in 1..RefSlots}, !.last = n + MaxFrames]

Init ==
    /\ rx \in {Fresh, Running}
    /\ lastUnit = SourceUnits + FecUnits - 1
    /\ gui = "idle"

(***************************************************************************)
(* ChiakiFrameLossTracker                                                  *)
(***************************************************************************)
\* mutant: frames that were counted before are counted again
CountAll(r, first) == first
\* where counting starts: past everything that is counted already
CountFrom(r, first) == IF Gt(first, r.counted) THEN first ELSE Index(r.counted + 1)

Count(r, first, last) ==
    LET from == CountFrom(r, first) IN
    IF Gt(from, last) THEN r
    ELSE [r EXCEPT !.counted = last, !.lostTotal = @ + ((last - from) % SeqSize) + 1]

FramesFailed(r, first, last) == IF r.arrived < 0 THEN r ELSE Count(r, first, last)

FrameArrived(r, index) ==
    IF r.arrived < 0 THEN [r EXCEPT !.arrived = index, !.counted = Index(index - 1)]
    ELSE IF ~Gt(index, r.arrived) THEN r
    ELSE LET s == IF index = Index(r.arrived + 1) THEN r
                  ELSE Count(r, Index(r.arrived + 1), Index(index - 1))
         IN [s EXCEPT !.arrived = index,
                      !.counted = IF Gt(Index(index - 1), @) THEN Index(index - 1) ELSE @]

(***************************************************************************)
(* Reference frames, and the reports to the console                        *)
(***************************************************************************)
\* mutant: every frame that was assembled counts as a reference
AnyRef(r, index) == index >= 0
HaveRef(r, index) == index \in Range(r.refs)

AddRef(refs, index) == SubSeq(<<index>> \o refs, 1, IF Len(refs) < RefSlots THEN Len(refs) + 1 ELSE RefSlots)

NextExpected(r) == Index(r.complete + 1)

\* stream_connection_send_corrupt_frame, for the indices from "first" to frame number n.
\* It fails when the door to takion is closed, the send fails or there is no room for it
\* in the send buffer; its callers log or ignore that.
SendCorrupt(r, first, n) ==
    LET span == {n - k : k \in 0..((n - first) % SeqSize)} IN
    {[r EXCEPT !.reported = @ \cup span, !.sent = TRUE],
     [r EXCEPT !.unsent = @ \cup span, !.sent = FALSE]}

(***************************************************************************)
(* chiaki_video_receiver_flush_frame: the receivers it can leave           *)
(***************************************************************************)
\* Too few units: FEC fails. The IDR request is sent only if none is awaited, and may fail.
FlushFailed(r) ==
    UNION {{[FramesFailed(t, NextExpected(r), r.cur) EXCEPT !.prev = r.cur, !.waiting = w] :
                w \in {r.waiting} \cup (IF IdrOnFecFailure THEN {TRUE} ELSE {})} :
            t \in SendCorrupt(r, NextExpected(r), r.now)}

\* A frame without its reference is counted as lost; it is not complete.
RefMissing(r) == [FramesFailed(r, r.cur, r.cur) EXCEPT !.prev = r.cur]

\* mutant: a frame the decoder refused counts as complete
CompleteAnyway(r, ok) == r.cur
Complete(r, ok) == IF ok THEN r.cur ELSE r.complete

\* The decoder is given the frame, with reference distance d, and accepts it or not.
Deliver(r, d) ==
    {[r EXCEPT !.prev = r.cur, !.complete = Complete(r, ok), !.receivedTotal = @ + 1,
               !.refs = IF ok THEN AddRef(@, r.cur) ELSE @,
               !.known = IF ok THEN AddRef(@, r.now) ELSE @,
               !.decoded = IF ok THEN @ \cup {r.now} ELSE @,
               !.sample = IF r.content.kind = "P" THEN {r.now - d - 1} ELSE {}] : ok \in BOOLEAN}

\* The first older reference there is; rewriting the slice may not be possible.
Older(r) == {d \in (r.content.ref + 1)..(RefSlots - 1) : HaveRef(r, Index(r.cur - d - 1))}

FlushParsed(r) ==
    IF r.content.kind # "P" \/ HaveRef(r, Index(r.cur - r.content.ref - 1)) THEN Deliver(r, r.content.ref)
    ELSE {RefMissing(r)} \cup
         UNION {Deliver(r, d) : d \in {d \in Older(r) : \A e \in Older(r) : d <= e}}

Discard(r) == [r EXCEPT !.discardedTotal = @ + 1, !.prev = r.cur]

FlushAssembled(r) ==
    CASE r.content.kind = "raw" -> Deliver(r, 0)
      [] r.content.kind = "I" -> FlushParsed([r EXCEPT !.waiting = FALSE])
      [] OTHER -> IF r.waiting THEN {Discard(r)} ELSE FlushParsed(r)

FlushPossible(r) == Cardinality(r.units) >= SourceUnits

Flush(r) == IF FlushPossible(r) THEN FlushAssembled(r) ELSE FlushFailed(r)

(***************************************************************************)
(* chiaki_video_receiver_av_packet: unit u of frame number n, whose first  *)
(* unit this may be                                                        *)
(***************************************************************************)
FlushLast(r) == IF r.cur >= 0 /\ r.prev # r.cur THEN Flush(r) ELSE {r}

ReportGap(r, n) ==
    IF Gt(Index(n), NextExpected(r)) THEN SendCorrupt(r, NextExpected(r), n - 1) ELSE {r}

StartFrame(r, n, c) ==
    [FrameArrived(r, Index(n))
        EXCEPT !.cur = Index(n), !.now = n, !.units = {}, !.content = c,
               !.first = IF r.cur < 0 THEN n ELSE @]

PutUnit(r, u) ==
    LET s == [r EXCEPT !.units = @ \cup {u}] IN
    IF s.cur # s.prev /\ (FlushPossible(s) \/ u = SourceUnits + FecUnits - 1) THEN Flush(s) ELSE {s}

NextUnit(u) ==
    /\ rx.now > 0 /\ u > lastUnit
    /\ rx' \in PutUnit(rx, u)
    /\ lastUnit' = u /\ UNCHANGED gui

\* The indices can be compared: frame n is less than half of their space after every frame
\* that the receiver refers to by its index. The first of "known" is the last complete frame;
\* before there is any, that is frame 0.
Comparable(r, n) ==
    /\ r.known = <<>> => n < Half
    /\ \A i \in DOMAIN r.known : n - r.known[i] < Half

NextFrame(n, u, c) ==
    /\ n > rx.now /\ n <= rx.last /\ Comparable(rx, n)
    /\ \E r \in FlushLast(rx) : \E t \in ReportGap(r, n) : rx' \in PutUnit(StartFrame(t, n, c), u)
    /\ lastUnit' = u /\ UNCHANGED gui

(***************************************************************************)
(* StreamSession::RequestIDR: the request is sent, then the receiver told  *)
(***************************************************************************)
RequestIdr == gui = "idle" /\ gui' = "asked" /\ UNCHANGED <<rx, lastUnit>>

SetWaiting ==
    /\ gui = "asked" /\ gui' = "done"
    /\ rx' = [rx EXCEPT !.waiting = TRUE]
    /\ UNCHANGED lastUnit

Next ==
    \/ \E u \in Units : NextUnit(u)
    \/ \E n \in (rx.now + 1)..rx.last, u \in Units, c \in Contents : NextFrame(n, u, c)
    \/ RequestIdr \/ SetWaiting

Spec == Init /\ [][Next]_vars

-----------------------------------------------------------------------------
Receivers ==
    [cur : -1..(SeqSize - 1), prev : -1..(SeqSize - 1), complete : 0..(SeqSize - 1),
     units : SUBSET Units, content : Contents, refs : Seq(0..(SeqSize - 1)), waiting : BOOLEAN,
     lostTotal : Nat, receivedTotal : Nat, discardedTotal : Nat,
     arrived : -1..(SeqSize - 1), counted : -1..(SeqSize - 1),
     now : Nat, first : Nat \ {0}, known : Seq(Nat), decoded : SUBSET Nat, reported : SUBSET Nat,
     unsent : SUBSET Nat, sent : BOOLEAN, sample : SUBSET Int, last : Nat]

TypeOK == rx \in Receivers /\ lastUnit \in Units /\ gui \in {"idle", "asked", "done"}

\* The indices that the receiver keeps are those of the frames it means, and these are near
\* enough to be compared.
IndicesOk(r) ==
    /\ r.cur = (IF r.now = 0 THEN -1 ELSE Index(r.now)) /\ r.arrived = r.cur
    /\ r.now = 0 => r.prev = -1 /\ r.counted = -1
    /\ r.now > 0 => r.counted \in {Index(r.now - 1), Index(r.now)}
    /\ r.prev # r.cur => r.counted = Index(r.now - 1)
    /\ r.complete = Index(Done(r))
    /\ Len(r.refs) = Len(r.known) /\ Len(r.refs) <= RefSlots /\ Comparable(r, r.now)
    /\ \A i \in DOMAIN r.known :
          /\ r.refs[i] = Index(r.known[i]) /\ r.known[i] \in r.decoded /\ r.known[i] <= r.now
          /\ r.prev # r.cur => r.known[i] < r.now

\* Every frame from the first one on that is over is in exactly one of the three totals:
\* frames_lost_total has "each lost frame index once", also where the reports overlap, a
\* frame is discarded while an IDR is awaited, or the index wraps.
Over == IF rx.cur < 0 THEN 0 ELSE rx.now - rx.first + (IF rx.prev = rx.cur THEN 1 ELSE 0)
LossCountedOnce == rx.receivedTotal + rx.discardedTotal + rx.lostTotal = Over

\* Once a frame has begun, the console was told of every frame before it that the decoder
\* did not take: it will not refer to one of those again. One may stay untold when its
\* report could not be sent, but only up to the next report that can: that one covers
\* all since the last complete frame, so what is then still untold lies before that frame.
LossIsReported ==
    rx.cur >= 0 => \A n \in rx.first..(rx.now - 1) :
        \/ n \in rx.decoded \cup rx.reported
        \/ n \in rx.unsent /\ (rx.sent => n < Done(rx))

\* The frame that a delivered P frame refers to, as sent or as rewritten, was decoded.
ReferenceDecoded == rx.sample \subseteq rx.decoded

\* What holds of the receiver between two packets.
ReceiverInv == TypeOK /\ IndicesOk(rx) /\ ReferenceDecoded
=============================================================================
