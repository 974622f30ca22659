------------------------------ MODULE Senkusha ------------------------------
(***************************************************************************)
(* Senkusha (lib/src/senkusha.c), the measurement of the path before the   *)
(* stream: a thread that handshakes, pings and searches for the largest    *)
(* packet in each direction, and the takion thread that calls it back.     *)
(*                                                                         *)
(* The runner holds state_mutex except in its waits, so a callback runs    *)
(* only in a wait or after the mutex was given back for good. A probe may  *)
(* be answered late: its answer then meets the wait for another one. Any   *)
(* wait may time out, and the takion thread may end at any time.           *)
(*                                                                         *)
(* A callback that does not match what is awaited changes nothing, and is  *)
(* not a step. Ping tags are taken to be all different (32 random bits).   *)
(* should_stop is never set by any code.                                   *)
(***************************************************************************)
EXTENDS Integers

CONSTANTS
    Lo, Hi,     \* 576 and 1454: the sizes searched between
    Retries,    \* 3: the attempts for each size
    Pings       \* 10: SENKUSHA_PING_COUNT_DEFAULT

ASSUME ConstantsAssumption ==
    /\ Lo \in Nat \ {0} /\ Hi \in Nat /\ Lo + 1 < Hi
    /\ Retries \in Nat \ {0} /\ Pings \in Nat \ {0}

VARIABLES
    pathIn, pathOut,  \* the largest packets that get through
    takion,     \* the takion thread: "none", "connecting", "open", "closing", "ended"
    disc,       \* takion_disconnected
    stage,      \* where the runner is, and what the callbacks expect
    waiting,    \* the runner is in a wait
    finished,   \* state_finished
    seq,        \* the number of the last data message
    request,    \* request_id and mtu_id of the inbound search
    tag,        \* ping_tag
    echoes,     \* what the console has to answer, sooner or later or never
    pings, pongs,   \* pings that are over, and those that were answered
    search,     \* min, max, cur and attempt of a search
    mtuIn, mtuOut,  \* the results, 0 for none
    result,     \* what chiaki_senkusha_run returns
    misjudged   \* history: a size was given up whose answer had come or was to come

path == <<pathIn, pathOut>>
conn == <<takion, disc>>
ids == <<seq, request, tag, echoes>>
counts == <<pings, pongs>>
results == <<mtuIn, mtuOut, misjudged>>
vars == <<path, conn, stage, waiting, finished, ids, counts, search, results, result>>

DataStages == {"version", "bang", "echoOn", "echoOff", "clientMtu", "final"}
AckStages == {"echoOn", "echoOff", "final"}
Handshake == {"connect", "version", "bang"}
Probing == {"pong", "mtuIn", "mtuOut"}
Over == {"close", "join", "done"}

Search(cur) == [lo |-> Lo, hi |-> Hi, cur |-> cur, attempt |-> 0]

Init ==
    /\ pathIn \in (Lo - 1)..(Hi + 1) /\ pathOut \in (Lo - 1)..(Hi + 1)
    /\ takion = "none" /\ disc = FALSE
    /\ stage = "connect" /\ waiting = FALSE /\ finished = FALSE
    /\ seq = 0 /\ request = 0 /\ tag = 0 /\ echoes = {}
    /\ pings = 0 /\ pongs = 0 /\ search = Search(Hi)
    /\ mtuIn = 0 /\ mtuOut = 0 /\ result = "none" /\ misjudged = FALSE

(***************************************************************************)
(* The waits                                                               *)
(***************************************************************************)
\* chiaki_cond_timedwait_pred: it reports a timeout without looking at the predicate again.
WaitEnds(timeout) ==
    /\ waiting /\ (timeout \/ finished \/ disc)
    /\ waiting' = FALSE

Wait == waiting' = TRUE /\ finished' = FALSE

\* mutant: as before PLE-490, a wait that was woken by a disconnect counts as no error
UnfinishedIsTimeout(timeout) == IF timeout THEN "timeout" ELSE "success"
UnfinishedErr(timeout) ==
    IF disc THEN "disconnected" ELSE IF timeout THEN "timeout" ELSE "unknown"

\* Most waits look only at state_finished. senkusha_send_data_wait_for_ack returns what the
\* wait did: an acknowledgement that comes just at the time limit does not count.
Accepted(timeout) == finished /\ ~(timeout /\ stage \in AckStages)
WaitErr(timeout) ==
    IF finished \/ (stage = "clientMtu" /\ timeout) THEN "timeout" ELSE UnfinishedErr(timeout)

\* A failure of the handshake goes to quit_takion, a later one to disconnect.
Fail(err) ==
    /\ result' = err
    /\ stage' = IF stage \in Handshake THEN "close" ELSE "disconnect"

\* A send fails when the takion thread has closed the socket, and may fail before.
SendOk == takion \in {"connecting", "open"}

(***************************************************************************)
(* Connecting, and the data messages that wait for an answer               *)
(***************************************************************************)
Connect ==
    /\ stage = "connect" /\ takion = "none"
    /\ \/ takion' = "connecting" /\ Wait /\ UNCHANGED <<stage, result>>
       \/ result' = "error" /\ stage' = "done" /\ UNCHANGED <<takion, waiting, finished>>
    /\ UNCHANGED <<path, disc, ids, counts, search, results>>

SendData ==
    /\ stage \in DataStages /\ ~waiting
    /\ \/ SendOk /\ Wait /\ seq' = seq + 1 /\ UNCHANGED <<stage, result>>
       \/ Fail("error") /\ finished' = FALSE /\ UNCHANGED <<waiting, seq>>
    /\ UNCHANGED <<path, conn, request, tag, echoes, counts, search, results>>

After(s) ==
    CASE s = "connect" -> "version" [] s = "version" -> "bang" [] s = "bang" -> "echoOn"
      [] s = "echoOn" -> "pong" [] s = "echoOff" -> "mtuIn" [] s = "clientMtu" -> "mtuOut"

\* The inbound search starts at Hi, the outbound one at what came in.
StageWaitEnds(timeout) ==
    /\ stage \in (DataStages \ {"final"}) \cup {"connect"} /\ WaitEnds(timeout)
    /\ IF ~Accepted(timeout) THEN Fail(WaitErr(timeout))
       ELSE IF stage = "echoOff" /\ pongs = 0 THEN Fail("unknown")
       ELSE stage' = After(stage) /\ UNCHANGED result
    /\ search' = IF stage = "clientMtu" THEN Search(mtuIn) ELSE search
    /\ UNCHANGED <<path, conn, finished, ids, counts, results>>

\* The last client MTU command: its failure fails the run, though all is measured.
FinalWaitEnds(timeout) ==
    /\ stage = "final" /\ WaitEnds(timeout)
    /\ Fail(IF Accepted(timeout) THEN "success" ELSE WaitErr(timeout))
    /\ UNCHANGED <<path, conn, finished, ids, counts, search, results>>

(***************************************************************************)
(* senkusha_run_rtt_test                                                   *)
(***************************************************************************)
Ping ==
    /\ stage = "pong" /\ ~waiting /\ pings < Pings
    /\ finished' = FALSE /\ tag' = tag + 1
    /\ \/ SendOk /\ waiting' = TRUE /\ echoes' = echoes \cup {<<"pong", tag + 1>>} /\ UNCHANGED <<stage, result>>
       \/ Fail("error") /\ UNCHANGED <<waiting, echoes>>
    /\ UNCHANGED <<path, conn, seq, request, counts, search, results>>

PongWaitEnds(timeout) ==
    /\ stage = "pong" /\ WaitEnds(timeout)
    /\ IF ~finished /\ disc THEN Fail(UnfinishedErr(timeout)) /\ UNCHANGED counts
       ELSE /\ pings' = pings + 1 /\ pongs' = pongs + (IF finished THEN 1 ELSE 0)
            /\ UNCHANGED <<stage, result>>
    /\ UNCHANGED <<path, conn, finished, ids, search, results>>

PingsEnd ==
    /\ stage = "pong" /\ ~waiting /\ pings = Pings
    /\ stage' = "echoOff"
    /\ UNCHANGED <<path, conn, waiting, finished, ids, counts, search, results, result>>

(***************************************************************************)
(* The binary searches of senkusha_run_mtu_in_test and _out_test           *)
(***************************************************************************)
Searching == search.hi - search.lo > 1

Narrowed(success) ==
    LET l == IF success THEN search.cur ELSE search.lo
        h == IF success THEN search.hi ELSE search.cur
    IN [lo |-> l, hi |-> h, cur |-> l + (h - l) \div 2, attempt |-> 0]

\* What the callbacks take for the answer of the probe or message that is waited for.
Answers(kind, n) ==
    IF stage = "mtuIn" THEN kind = "mtu" /\ n = request ELSE kind = "pong" /\ n = tag

\* mutant: video reordering is left on, and takes all answers but the first for old (PLE-501)
DeliveredReordered(kind, n) == kind = "mtu" => \A e \in echoes : e[1] = "mtu" => n <= e[2]
Delivered(kind, n) == TRUE

Answered == \E e \in echoes : Answers(e[1], e[2]) /\ Delivered(e[1], e[2])

LastAttempt == search.attempt + 1 = Retries

\* One more attempt is over without an answer; the last one gives the size up.
AttemptFails ==
    /\ search' = IF LastAttempt THEN Narrowed(FALSE) ELSE [search EXCEPT !.attempt = @ + 1]
    /\ misjudged' = (misjudged \/ (LastAttempt /\ Answered))
    /\ UNCHANGED <<stage, result, mtuIn, mtuOut>>

\* mutant: the requests for each size are numbered from 1
RequestIdPerSize == search.attempt + 1
RequestId == request + 1

ProbeIn ==
    /\ stage = "mtuIn" /\ ~waiting /\ Searching
    /\ \/ /\ SendOk /\ Wait /\ seq' = seq + 1 /\ request' = RequestId
          /\ echoes' = IF search.cur <= pathIn THEN echoes \cup {<<"mtu", RequestId>>} ELSE echoes
          /\ UNCHANGED <<stage, result>>
       \/ Fail("error") /\ finished' = FALSE /\ UNCHANGED <<waiting, seq, request, echoes>>
    /\ UNCHANGED <<path, conn, tag, counts, search, results>>

\* A packet that is too large for the local interface is refused: no other attempt is made.
ProbeOut ==
    /\ stage = "mtuOut" /\ ~waiting /\ Searching
    /\ finished' = FALSE /\ tag' = tag + 1
    /\ \/ /\ SendOk /\ waiting' = TRUE
          /\ echoes' = IF search.cur <= pathOut THEN echoes \cup {<<"pong", tag + 1>>} ELSE echoes
          /\ UNCHANGED <<stage, result, search, results>>
       \/ /\ SendOk /\ search.cur > pathOut /\ search' = Narrowed(FALSE)
          /\ UNCHANGED <<stage, result, waiting, echoes, results>>
       \/ /\ Fail(IF disc THEN UnfinishedErr(FALSE) ELSE "error")
          /\ UNCHANGED <<waiting, echoes, search, results>>
    /\ UNCHANGED <<path, conn, seq, request, counts>>

\* A timeout is an attempt without an answer also if the disconnect has just been reported.
ProbeWaitEnds(timeout) ==
    /\ stage \in {"mtuIn", "mtuOut"} /\ WaitEnds(timeout)
    /\ IF finished THEN search' = Narrowed(TRUE) /\ UNCHANGED <<stage, result, results>>
       ELSE IF timeout THEN AttemptFails
       ELSE Fail(UnfinishedErr(timeout)) /\ UNCHANGED <<search, results>>
    /\ UNCHANGED <<path, conn, finished, ids, counts>>

SearchEnds ==
    /\ stage \in {"mtuIn", "mtuOut"} /\ ~waiting /\ ~Searching
    /\ IF stage = "mtuIn" THEN mtuIn' = search.lo /\ stage' = "clientMtu" /\ UNCHANGED mtuOut
                          ELSE mtuOut' = search.lo /\ stage' = "final" /\ UNCHANGED mtuIn
    /\ UNCHANGED <<path, conn, waiting, finished, ids, counts, search, misjudged, result>>

(***************************************************************************)
(* Disconnecting and closing                                               *)
(***************************************************************************)
Disconnect ==
    /\ stage = "disconnect" /\ stage' = "close"
    /\ UNCHANGED <<path, conn, waiting, finished, ids, counts, search, results, result>>

\* chiaki_takion_close asks the takion thread to end, and joins it.
Close ==
    /\ \/ stage = "close" /\ stage' = "join"
       \/ stage = "join" /\ takion = "ended" /\ stage' = "done"
    /\ UNCHANGED <<path, conn, waiting, finished, ids, counts, search, results, result>>

(***************************************************************************)
(* The takion thread and its callbacks                                     *)
(***************************************************************************)
\* mutant: the ways out of the run keep the mutex
UnlockedInWaits == waiting
Unlocked == waiting \/ stage \in Over

Connected ==
    /\ takion = "connecting" /\ Unlocked
    /\ takion' = "open" /\ finished' = (finished \/ stage = "connect")
    /\ UNCHANGED <<path, disc, stage, waiting, ids, counts, search, results, result>>

TakionEnds ==
    /\ takion \in {"connecting", "open"} /\ takion' = "closing"
    /\ UNCHANGED <<path, disc, stage, waiting, finished, ids, counts, search, results, result>>

Disconnected ==
    /\ takion = "closing" /\ Unlocked
    /\ takion' = "ended" /\ disc' = TRUE
    /\ finished' = (finished /\ stage # "connect")
    /\ UNCHANGED <<path, stage, waiting, ids, counts, search, results, result>>

Heard == finished' = TRUE /\ UNCHANGED <<path, conn, stage, waiting, ids, counts, search, results, result>>

ProbeAnswered ==
    /\ takion = "open" /\ waiting /\ ~finished /\ stage \in Probing
    /\ Answered /\ Heard

\* Protocol ack, bang and client MTU command.
MessageAnswered ==
    /\ takion = "open" /\ waiting /\ ~finished /\ stage \in DataStages \ AckStages
    /\ Heard

DataAcked(n) ==
    /\ takion = "open" /\ waiting /\ ~finished /\ stage \in AckStages /\ n = seq
    /\ Heard

Runner ==
    \/ Connect \/ SendData \/ Ping \/ PingsEnd \/ ProbeIn \/ ProbeOut \/ SearchEnds
    \/ \E timeout \in BOOLEAN : \/ StageWaitEnds(timeout) \/ FinalWaitEnds(timeout)
                                \/ PongWaitEnds(timeout) \/ ProbeWaitEnds(timeout)
    \/ Disconnect \/ Close

Next ==
    \/ Runner \/ Connected \/ TakionEnds \/ Disconnected
    \/ ProbeAnswered \/ MessageAnswered \/ \E n \in 1..seq : DataAcked(n)

\* Every wait has a timeout, and the takion thread ends once close has asked it to.
Fairness ==
    WF_vars(Runner) /\ WF_vars(Disconnected) /\ WF_vars(stage = "join" /\ TakionEnds)

Spec == Init /\ [][Next]_vars /\ Fairness

-----------------------------------------------------------------------------
Places ==
    /\ takion \in {"none", "connecting", "open", "closing", "ended"} /\ disc = (takion = "ended")
    /\ stage \in {"connect", "disconnect"} \cup DataStages \cup Probing \cup Over
    /\ waiting \in BOOLEAN /\ finished \in BOOLEAN /\ misjudged \in BOOLEAN
    /\ result \in {"none", "success", "error", "timeout", "disconnected", "unknown"}
Counts ==
    /\ seq \in Nat /\ request \in Nat /\ tag \in Nat
    /\ pings \in 0..Pings /\ pongs \in 0..pings
    /\ \A e \in echoes : (e[1] = "mtu" /\ e[2] \in 1..request) \/ (e[1] = "pong" /\ e[2] \in 1..tag)
Sizes ==
    /\ {pathIn, pathOut} \subseteq Int
    /\ search \in [lo : Lo..Hi, hi : Lo..Hi, cur : Lo..Hi, attempt : 0..(Retries - 1)]
    /\ search.lo <= search.cur /\ search.cur <= search.hi
    /\ mtuIn \in {0} \cup (Lo..Hi) /\ mtuOut \in {0} \cup (Lo..Hi)
TypeOK == Places /\ Counts /\ Sizes

\* A size is taken for good only if a packet of it got through, however late the answers to
\* other sizes come; only the smallest size is never tried.
MtuGetsThrough ==
    /\ mtuIn > Lo => mtuIn <= pathIn
    /\ mtuOut > Lo => mtuOut <= pathOut

\* If no size was given up before its answer came, the search ends at the limit of the path. The outbound search starts at the inbound result, so it tries Hi itself only then.
Fitting(p) == IF p < Lo THEN Lo ELSE IF p > Hi THEN Hi ELSE p
MtuIsLargest ==
    ~misjudged =>
        /\ mtuIn # 0 => mtuIn = Fitting(pathIn)
        /\ mtuOut # 0 => mtuOut = IF mtuIn < Hi /\ pathOut >= Hi THEN Hi - 1 ELSE Fitting(pathOut)

\* "... a takion DISCONNECT wakes it too, and that must never fall through as a success":
\* a run succeeds only with a pong, both sizes and the acknowledgement of its last message.
SuccessIsMeasured ==
    result = "success" => pongs > 0 /\ mtuIn # 0 /\ mtuOut # 0 /\ finished

\* What is measured when.
Measured ==
    /\ stage \in Handshake \cup {"echoOn", "pong", "echoOff"} => search = Search(Hi) /\ mtuIn = 0
    /\ stage \in {"mtuIn", "clientMtu", "mtuOut", "final"} => pongs > 0
    /\ stage \in {"clientMtu", "mtuOut", "final"} => mtuIn # 0
    /\ stage = "pong" /\ waiting => pings < Pings
    /\ stage = "final" <=> mtuOut # 0 /\ result = "none"
    /\ result # "none" => stage = "disconnect" \/ stage \in Over

\* The console answers the probe that is waited for just when a packet of its size gets
\* through, and a wait that is over by an answer has been for such a probe.
SearchedPath == IF stage = "mtuIn" THEN pathIn ELSE pathOut
ProbeIsAnswered ==
    waiting /\ stage \in {"mtuIn", "mtuOut"} =>
        /\ Answered <=> search.cur <= SearchedPath
        /\ finished => search.cur <= SearchedPath

\* Between which sizes the limit of the path is: the lower one got through, and the upper
\* one did not, is Hi and is tried first, or is Hi and is never tried.
Bracketed ==
    stage \in {"mtuIn", "mtuOut"} =>
        /\ search.lo > Lo => search.lo <= SearchedPath
        /\ \/ misjudged \/ search.hi > SearchedPath
           \/ /\ search.hi = Hi /\ search.cur = Hi /\ search.lo \in {Lo, Hi}
              /\ stage = "mtuOut" => mtuIn = Hi
           \/ /\ search.hi = Hi /\ search.cur < Hi /\ search.lo < Hi
              /\ stage = "mtuOut" /\ mtuIn < Hi

\* What holds of the measurement in every state; with the two properties above it is
\* inductive.
SenkushaInv == TypeOK /\ SuccessIsMeasured /\ Measured /\ ProbeIsAnswered /\ Bracketed

\* chiaki_senkusha_run returns, whatever the console answers and when.
RunReturns == <>(stage = "done")
=============================================================================
