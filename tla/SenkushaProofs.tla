--------------------------- MODULE SenkushaProofs ---------------------------
(***************************************************************************)
(* The safety of Senkusha: what it reports about the path is so, for every *)
(* range of sizes, number of attempts and number of pings.                 *)
(***************************************************************************)
EXTENDS Senkusha, TLAPS

USE ConstantsAssumption DEF path, conn, ids, counts, results, vars

IInv == SenkushaInv /\ MtuGetsThrough /\ MtuIsLargest

Searches == [lo : Lo..Hi, hi : Lo..Hi, cur : Lo..Hi, attempt : 0..(Retries - 1)]
Ordered(s) == s \in Searches /\ s.lo <= s.cur /\ s.cur <= s.hi

-----------------------------------------------------------------------------
\* Half of a distance.
LEMMA Half == \A n \in Nat : n \div 2 \in Nat /\ n \div 2 <= n /\ (n > 0 => n \div 2 < n)
OBVIOUS

\* The next size to try is between the limits, and below the upper one as long as they differ.
LEMMA NarrowedIs ==
    ASSUME Ordered(search), NEW b \in BOOLEAN
    PROVE /\ Ordered(Narrowed(b))
          /\ Narrowed(b).lo = (IF b THEN search.cur ELSE search.lo)
          /\ Narrowed(b).hi = (IF b THEN search.hi ELSE search.cur)
          /\ Narrowed(b).lo < Narrowed(b).hi => Narrowed(b).cur < Narrowed(b).hi
          /\ Narrowed(b).lo = Narrowed(b).hi => Narrowed(b).cur = Narrowed(b).hi
<1> DEFINE l == IF b THEN search.cur ELSE search.lo
           h == IF b THEN search.hi ELSE search.cur
<1>1. l \in Lo..Hi /\ h \in Lo..Hi /\ l <= h
  BY DEF Ordered, Searches
<1>2. Narrowed(b) = [lo |-> l, hi |-> h, cur |-> l + (h - l) \div 2, attempt |-> 0]
  BY DEF Narrowed
<1> HIDE DEF l, h
<1>3. (h - l) \div 2 \in Nat /\ (h - l) \div 2 <= h - l /\ (h - l > 0 => (h - l) \div 2 < h - l)
  <2>1. h - l \in Nat
    BY <1>1
  <2> QED
    BY <2>1, Half
<1>4. 0 \in 0..(Retries - 1)
  OBVIOUS
<1>5. Narrowed(b).lo = l /\ Narrowed(b).hi = h /\ Narrowed(b).cur = l + (h - l) \div 2
  BY <1>2
<1>6. l + (h - l) \div 2 \in Lo..Hi /\ l <= l + (h - l) \div 2 /\ l + (h - l) \div 2 <= h
  BY <1>1, <1>3
<1>7. Ordered(Narrowed(b))
  BY <1>1, <1>2, <1>4, <1>6 DEF Ordered, Searches
<1>8. (l < h => l + (h - l) \div 2 < h) /\ (l = h => l + (h - l) \div 2 = h)
  BY <1>1, <1>3
<1> QED
  BY <1>5, <1>7, <1>8 DEF l, h

\* A search begins with the largest size, or with what came in.
LEMMA SearchIs ==
    ASSUME NEW n \in Lo..Hi
    PROVE Ordered(Search(n)) /\ Search(n).lo = Lo /\ Search(n).hi = Hi /\ Search(n).cur = n
BY DEF Search, Ordered, Searches

\* The steps that neither probe nor judge a probe.
Answering == ProbeAnswered \/ MessageAnswered \/ \E n \in 1..seq : DataAcked(n)

\* Every thread stays in its places.
LEMMA PlacesStep == IInv /\ [Next]_vars => Places'
<1> SUFFICES ASSUME IInv, [Next]_vars PROVE Places'
  OBVIOUS
<1> USE DEF IInv, SenkushaInv, TypeOK, Places, DataStages, Probing, Over, Handshake, AckStages
<1>1. CASE Connect \/ SendData \/ Ping \/ PingsEnd \/ Disconnect \/ Close \/ UNCHANGED vars
  <2>1. CASE Connect
    BY <2>1 DEF Connect, Wait
  <2>4. CASE SendData
    BY <2>4 DEF SendData, Wait, Fail
  <2>5. CASE UNCHANGED vars
    BY <2>5
  <2>2. CASE Ping \/ PingsEnd
    BY <2>2 DEF Ping, PingsEnd, Fail
  <2>3. CASE Disconnect \/ Close
    BY <2>3 DEF Disconnect, Close
  <2> QED
    BY <1>1, <2>1, <2>2, <2>3, <2>4, <2>5
<1>2. CASE Connected \/ TakionEnds \/ Disconnected
  <2>1. CASE Connected
    BY <2>1 DEF Connected
  <2>2. CASE TakionEnds
    BY <2>2 DEF TakionEnds
  <2>3. CASE Disconnected
    BY <2>3 DEF Disconnected
  <2> QED
    BY <1>2, <2>1, <2>2, <2>3
<1>3. CASE Answering
  BY <1>3, ZenonT(30) DEF Answering, ProbeAnswered, MessageAnswered, DataAcked, Heard
<1>4. CASE ProbeIn \/ ProbeOut
  BY <1>4 DEF ProbeIn, ProbeOut, Wait, Fail, UnfinishedErr
<1>5. ASSUME NEW t \in BOOLEAN, StageWaitEnds(t) PROVE Places'
  BY <1>5, ZenonT(30) DEF StageWaitEnds, WaitEnds, Accepted, WaitErr, Fail, UnfinishedErr, After
<1>6. ASSUME NEW t \in BOOLEAN, FinalWaitEnds(t) \/ PongWaitEnds(t) \/ ProbeWaitEnds(t) PROVE Places'
  BY <1>6 DEF FinalWaitEnds, PongWaitEnds, ProbeWaitEnds, WaitEnds, Accepted, WaitErr, Fail, UnfinishedErr,
     AttemptFails, Answered
<1>7. CASE SearchEnds
  BY <1>7 DEF SearchEnds
<1> QED
  BY <1>1, <1>2, <1>3, <1>4, <1>5, <1>6, <1>7 DEF Next, Runner, Answering

\* No answer is awaited to what was not sent.
LEMMA CountsStep == IInv /\ [Next]_vars => Counts'
<1> SUFFICES ASSUME IInv, [Next]_vars PROVE Counts'
  OBVIOUS
<1> USE DEF IInv, SenkushaInv, TypeOK, Counts
<1>1. CASE Connect \/ SendData \/ PingsEnd \/ Disconnect \/ Close \/ UNCHANGED vars
  BY <1>1 DEF Connect, SendData, PingsEnd, Disconnect, Close
<1>2. CASE Connected \/ TakionEnds \/ Disconnected
  BY <1>2 DEF Connected, TakionEnds, Disconnected
<1>3. CASE Answering
  BY <1>3, ZenonT(30) DEF Answering, ProbeAnswered, MessageAnswered, DataAcked, Heard
<1>4. CASE Ping \/ ProbeOut
  <2>1. /\ UNCHANGED <<seq, request, pings, pongs>> /\ tag' = tag + 1
        /\ echoes' \subseteq echoes \cup {<<"pong", tag + 1>>}
    BY <1>4 DEF Ping, ProbeOut
  <2>2. \A e \in echoes' : e \in echoes \/ (e[1] = "pong" /\ e[2] = tag + 1)
    BY <2>1
  <2>3. \A n \in 1..tag : n \in 1..tag'
    BY <2>1
  <2> QED
    BY <2>1, <2>2, <2>3
<1>5. ASSUME NEW t \in BOOLEAN, StageWaitEnds(t) \/ FinalWaitEnds(t) \/ ProbeWaitEnds(t) PROVE Counts'
  BY <1>5 DEF StageWaitEnds, FinalWaitEnds, ProbeWaitEnds
<1>6. ASSUME NEW t \in BOOLEAN, PongWaitEnds(t) PROVE Counts'
  <2>1. UNCHANGED ids
    BY <1>6 DEF PongWaitEnds
  <2>2. pings' \in 0..Pings /\ pongs' \in 0..pings'
    <3>1. UNCHANGED counts \/ (pings' = pings + 1 /\ pongs' = pongs + (IF finished THEN 1 ELSE 0))
      BY <1>6 DEF PongWaitEnds
    <3>2. stage = "pong" /\ waiting => pings < Pings
      BY DEF Measured
    <3> QED
      BY <1>6, <3>1, <3>2 DEF PongWaitEnds, WaitEnds
  <2> QED
    BY <2>1, <2>2
<1>7. CASE ProbeIn
  <2>1. /\ UNCHANGED <<tag, pings, pongs>> /\ seq' \in Nat /\ request' \in {request, request + 1}
        /\ echoes' \subseteq echoes \cup {<<"mtu", request'>>} /\ (echoes' # echoes => request' = request + 1)
    BY <1>7 DEF ProbeIn, RequestId
  <2>2. \A e \in echoes' : e \in echoes \/ (e[1] = "mtu" /\ e[2] = request + 1 /\ request' = request + 1)
    BY <2>1
  <2>3. request' \in Nat /\ \A n \in 1..request : n \in 1..request'
    BY <2>1
  <2>4. request' = request + 1 => request + 1 \in 1..request'
    OBVIOUS
  <2>5. \A e \in echoes' : \/ e[1] = "mtu" /\ e[2] \in 1..request'
                           \/ e[1] = "pong" /\ e[2] \in 1..tag'
    <3> SUFFICES ASSUME NEW e \in echoes'
                 PROVE \/ e[1] = "mtu" /\ e[2] \in 1..request'
                       \/ e[1] = "pong" /\ e[2] \in 1..tag'
      OBVIOUS
    <3>1. CASE e \in echoes
      <4>1. (e[1] = "mtu" /\ e[2] \in 1..request) \/ (e[1] = "pong" /\ e[2] \in 1..tag)
        BY <3>1
      <4> QED
        BY <2>1, <2>3, <4>1
    <3>2. CASE e \notin echoes
      BY <2>2, <2>4, <3>2
    <3> QED
      BY <3>1, <3>2
  <2> QED
    BY <2>1, <2>3, <2>5
<1>8. CASE SearchEnds
  BY <1>8 DEF SearchEnds
<1> QED
  BY <1>1, <1>2, <1>3, <1>4, <1>5, <1>6, <1>7, <1>8 DEF Next, Runner, Answering

\* The sizes searched between stay in order.
LEMMA SizesStep == IInv /\ [Next]_vars => Sizes'
<1> SUFFICES ASSUME IInv, [Next]_vars PROVE Sizes'
  OBVIOUS
<1> USE DEF IInv, SenkushaInv, TypeOK
<1>0. Ordered(search) /\ Searches = [lo : Lo..Hi, hi : Lo..Hi, cur : Lo..Hi, attempt : 0..(Retries - 1)]
  BY DEF Ordered, Searches, Sizes
<1>1. CASE Connect \/ SendData \/ Ping \/ PingsEnd \/ ProbeIn \/ Disconnect \/ Close \/ UNCHANGED vars
  BY <1>1 DEF Connect, SendData, Ping, PingsEnd, ProbeIn, Disconnect, Close, Sizes
<1>2. CASE Connected \/ TakionEnds \/ Disconnected
  BY <1>2 DEF Connected, TakionEnds, Disconnected, Sizes
<1>3. CASE Answering
  BY <1>3 DEF Answering, ProbeAnswered, MessageAnswered, DataAcked, Heard, Sizes
<1>5. ASSUME NEW t \in BOOLEAN, StageWaitEnds(t) PROVE Sizes'
  <2>1. stage = "clientMtu" => mtuIn \in Lo..Hi
    BY DEF Measured, Sizes
  <2>2. Ordered(search)'
    BY <1>0, <1>5, <2>1, SearchIs DEF StageWaitEnds, Ordered
  <2> QED
    BY <1>0, <1>5, <2>2 DEF StageWaitEnds, Sizes, Ordered
<1>6. ASSUME NEW t \in BOOLEAN, FinalWaitEnds(t) \/ PongWaitEnds(t) PROVE Sizes'
  BY <1>6 DEF FinalWaitEnds, PongWaitEnds, Sizes
<1>7. CASE ProbeOut
  <2>1. Ordered(search)'
    BY <1>0, <1>7, NarrowedIs DEF ProbeOut, Ordered
  <2> QED
    BY <1>0, <1>7, <2>1 DEF ProbeOut, Sizes, Ordered
<1>8. ASSUME NEW t \in BOOLEAN, ProbeWaitEnds(t) PROVE Sizes'
  <2>1. ~LastAttempt => Ordered([search EXCEPT !.attempt = @ + 1])
    BY <1>0 DEF LastAttempt, Ordered, Searches
  <2>2. Ordered(search)'
    BY <1>0, <1>8, <2>1, NarrowedIs DEF ProbeWaitEnds, AttemptFails, Ordered
  <2> QED
    BY <1>0, <1>8, <2>2 DEF ProbeWaitEnds, AttemptFails, Sizes, Ordered
<1>9. CASE SearchEnds
  BY <1>0, <1>9 DEF SearchEnds, Sizes, Ordered, Searches
<1> QED
  BY <1>1, <1>2, <1>3, <1>5, <1>6, <1>7, <1>8, <1>9 DEF Next, Runner, Answering

-----------------------------------------------------------------------------
\* What is measured when.
LEMMA MeasuredStep == IInv /\ [Next]_vars => Measured'
<1> SUFFICES ASSUME IInv, [Next]_vars PROVE Measured'
  OBVIOUS
<1> USE DEF IInv, SenkushaInv, TypeOK, Measured, DataStages, Probing, Over, Handshake, AckStages
<1>0. Counts /\ Sizes /\ Places
  OBVIOUS
<1>1. CASE Connect \/ SendData
  BY <1>1 DEF Connect, SendData, Wait, Fail
<1>2. CASE Ping \/ PingsEnd
  <2>1. stage = "pong" /\ ~waiting
    BY <1>2 DEF Ping, PingsEnd
  <2>2. CASE Ping
    BY <2>1, <2>2 DEF Ping, Fail
  <2>3. CASE PingsEnd
    BY <2>1, <2>3 DEF PingsEnd
  <2> QED
    BY <1>2, <2>2, <2>3
<1>3. CASE Disconnect \/ Close \/ UNCHANGED vars
  BY <1>3 DEF Disconnect, Close
<1>4. CASE Connected \/ TakionEnds \/ Disconnected \/ Answering
  BY <1>4 DEF Connected, TakionEnds, Disconnected, Answering, ProbeAnswered, MessageAnswered,
     DataAcked, Heard
<1>5. ASSUME NEW t \in BOOLEAN, StageWaitEnds(t) PROVE Measured'
  <2>1. pongs \in Nat /\ (stage = "echoOff" /\ pongs # 0 => pongs > 0)
    BY <1>0 DEF Counts
  <2>2. /\ stage \in (DataStages \ {"final"}) \cup {"connect"} /\ waiting' = FALSE
        /\ UNCHANGED <<counts, results>>
        /\ search' = IF stage = "clientMtu" THEN Search(mtuIn) ELSE search
    BY <1>5 DEF StageWaitEnds, WaitEnds
  <2>3. CASE stage' = After(stage) /\ UNCHANGED result /\ (stage = "echoOff" => pongs # 0)
    BY <2>1, <2>2, <2>3 DEF After
  <2>4. CASE \E r : Fail(r)
    BY <2>2, <2>4 DEF Fail
  <2> QED
    BY <1>5, <2>3, <2>4 DEF StageWaitEnds
<1>6. ASSUME NEW t \in BOOLEAN, FinalWaitEnds(t) PROVE Measured'
  BY <1>6 DEF FinalWaitEnds, WaitEnds, Accepted, WaitErr, Fail, UnfinishedErr
<1>7. ASSUME NEW t \in BOOLEAN, PongWaitEnds(t) PROVE Measured'
  BY <1>7 DEF PongWaitEnds, WaitEnds, Fail
<1>8. CASE ProbeIn \/ ProbeOut
  BY <1>8 DEF ProbeIn, ProbeOut, Wait, Fail, UnfinishedErr
<1>9. ASSUME NEW t \in BOOLEAN, ProbeWaitEnds(t) PROVE Measured'
  BY <1>9 DEF ProbeWaitEnds, WaitEnds, Fail, UnfinishedErr, AttemptFails
<1>10. CASE SearchEnds
  <2>1. search.lo # 0
    BY <1>0 DEF Sizes
  <2> QED
    BY <1>10, <2>1 DEF SearchEnds
<1> QED
  BY <1>1, <1>2, <1>3, <1>4, <1>5, <1>6, <1>7, <1>8, <1>9, <1>10 DEF Next, Runner, Answering

\* A run that succeeds has measured all.
LEMMA SuccessStep == IInv /\ [Next]_vars => SuccessIsMeasured'
<1> SUFFICES ASSUME IInv, [Next]_vars PROVE SuccessIsMeasured'
  OBVIOUS
<1> USE DEF IInv, SenkushaInv, TypeOK, SuccessIsMeasured, DataStages, Probing, Over, Handshake, AckStages
<1>0. Places /\ Measured
  OBVIOUS
<1>1. CASE Connect \/ SendData \/ Ping \/ PingsEnd
  BY <1>1 DEF Connect, SendData, Ping, PingsEnd, Wait, Fail, Measured
<1>2. CASE Disconnect \/ Close \/ UNCHANGED vars
  BY <1>2 DEF Disconnect, Close
<1>3. CASE Connected \/ TakionEnds \/ Disconnected \/ Answering
  BY <1>3 DEF Connected, TakionEnds, Disconnected, Answering, ProbeAnswered, MessageAnswered,
     DataAcked, Heard, Measured
<1>4. ASSUME NEW t \in BOOLEAN, StageWaitEnds(t) \/ PongWaitEnds(t) \/ ProbeWaitEnds(t)
      PROVE SuccessIsMeasured'
  <2>1. result = "none"
    BY <1>4 DEF StageWaitEnds, PongWaitEnds, ProbeWaitEnds, Measured
  <2> QED
    BY <1>4, <2>1 DEF StageWaitEnds, PongWaitEnds, ProbeWaitEnds, WaitEnds, Accepted, WaitErr, Fail, UnfinishedErr, AttemptFails
<1>5. ASSUME NEW t \in BOOLEAN, FinalWaitEnds(t) PROVE SuccessIsMeasured'
  BY <1>5 DEF FinalWaitEnds, WaitEnds, Accepted, WaitErr, Fail, UnfinishedErr, Measured
<1>6. CASE ProbeIn \/ ProbeOut \/ SearchEnds
  <2>1. result = "none"
    BY <1>6 DEF ProbeIn, ProbeOut, SearchEnds, Measured
  <2> QED
    BY <1>6, <2>1 DEF ProbeIn, ProbeOut, SearchEnds, Wait, Fail, UnfinishedErr
<1> QED
  BY <1>1, <1>2, <1>3, <1>4, <1>5, <1>6 DEF Next, Runner, Answering

\* An answer to the awaited probe says that its size gets through.
LEMMA ProbeStep == IInv /\ [Next]_vars => ProbeIsAnswered'
<1> SUFFICES ASSUME IInv, [Next]_vars, waiting', stage' \in {"mtuIn", "mtuOut"}
             PROVE /\ Answered' <=> search'.cur <= SearchedPath'
                   /\ finished' => search'.cur <= SearchedPath'
  BY DEF ProbeIsAnswered
<1> USE DEF IInv, SenkushaInv, TypeOK, SearchedPath, DataStages, Probing, Over, Handshake, AckStages
<1>0. Places /\ Counts /\ ProbeIsAnswered
  OBVIOUS
<1>1. CASE Connect \/ SendData \/ Ping \/ PingsEnd \/ SearchEnds
  BY <1>1 DEF Connect, SendData, Ping, PingsEnd, SearchEnds, Wait, Fail
<1>2. CASE Disconnect \/ Close
  BY <1>2 DEF Disconnect, Close
<1>3. CASE Connected \/ TakionEnds \/ Disconnected \/ UNCHANGED vars
  <2>0. UNCHANGED <<path, stage, waiting, ids, search>>
    BY <1>3 DEF Connected, TakionEnds, Disconnected
  <2>3. finished' => finished
    <3>1. stage # "connect"
      BY <2>0
    <3> QED
      BY <1>0, <1>3, <3>1 DEF Connected, TakionEnds, Disconnected, Places
  <2>1. UNCHANGED <<path, stage, waiting, ids, search>> /\ (finished' => finished)
    BY <2>0, <2>3
  <2>2. Answered' <=> Answered
    BY <2>1 DEF Answered, Answers, Delivered
  <2> QED
    BY <2>1, <2>2 DEF ProbeIsAnswered
<1>4. CASE Answering
  <2>1. UNCHANGED <<path, stage, waiting, ids, search>>
    BY <1>4 DEF Answering, ProbeAnswered, MessageAnswered, DataAcked, Heard
  <2>2. Answered' <=> Answered
    BY <2>1 DEF Answered, Answers, Delivered
  <2>3. ProbeAnswered
    BY <1>4, <2>1 DEF Answering, MessageAnswered, DataAcked
  <2>4. Answered
    BY <2>3 DEF ProbeAnswered
  <2> QED
    BY <2>1, <2>2, <2>4 DEF ProbeIsAnswered
<1>5. ASSUME NEW t \in BOOLEAN,
             StageWaitEnds(t) \/ FinalWaitEnds(t) \/ PongWaitEnds(t) \/ ProbeWaitEnds(t)
      PROVE ~waiting'
  BY <1>5 DEF StageWaitEnds, FinalWaitEnds, PongWaitEnds, ProbeWaitEnds, WaitEnds
<1>6. CASE ProbeIn
  <2>1. /\ stage = "mtuIn" /\ stage' = stage /\ UNCHANGED <<path, search>> /\ finished' = FALSE
        /\ request' = request + 1
        /\ echoes' = IF search.cur <= pathIn THEN echoes \cup {<<"mtu", request + 1>>} ELSE echoes
    BY <1>6 DEF ProbeIn, Wait, Fail, RequestId
  <2>2. \A e \in echoes : ~(e[1] = "mtu" /\ e[2] = request + 1)
    BY <1>0 DEF Counts
  <2>3. Answered' <=> \E e \in echoes' : e[1] = "mtu" /\ e[2] = request + 1
    BY <2>1 DEF Answered, Answers, Delivered
  <2>4. Answered' <=> search.cur <= pathIn
    <3>1. CASE search.cur <= pathIn
      <4>1. <<"mtu", request + 1>> \in echoes'
        BY <2>1, <3>1
      <4> QED
        BY <2>3, <3>1, <4>1
    <3>2. CASE ~(search.cur <= pathIn)
      BY <2>1, <2>2, <2>3, <3>2
    <3> QED
      BY <3>1, <3>2
  <2> QED
    BY <2>1, <2>4
<1>7. CASE ProbeOut
  <2>1. /\ stage = "mtuOut" /\ stage' = stage /\ UNCHANGED <<path, search>> /\ finished' = FALSE
        /\ tag' = tag + 1
        /\ echoes' = IF search.cur <= pathOut THEN echoes \cup {<<"pong", tag + 1>>} ELSE echoes
    BY <1>7 DEF ProbeOut, Fail
  <2>2. \A e \in echoes : ~(e[1] = "pong" /\ e[2] = tag + 1)
    BY <1>0 DEF Counts
  <2>3. Answered' <=> \E e \in echoes' : e[1] = "pong" /\ e[2] = tag + 1
    BY <2>1 DEF Answered, Answers, Delivered
  <2>4. Answered' <=> search.cur <= pathOut
    <3>1. CASE search.cur <= pathOut
      <4>1. <<"pong", tag + 1>> \in echoes'
        BY <2>1, <3>1
      <4> QED
        BY <2>3, <3>1, <4>1
    <3>2. CASE ~(search.cur <= pathOut)
      BY <2>1, <2>2, <2>3, <3>2
    <3> QED
      BY <3>1, <3>2
  <2> QED
    BY <2>1, <2>4
<1> QED
  BY <1>1, <1>2, <1>3, <1>4, <1>5, <1>6, <1>7 DEF Next, Runner, Answering

-----------------------------------------------------------------------------
\* The classes of Bracketed, for a search s of a path whose limit is p.
Tried(s, p) == s.hi > p
First(s) == s.hi = Hi /\ s.cur = Hi /\ s.lo \in {Lo, Hi}
Untried(s) == s.hi = Hi /\ s.cur < Hi /\ s.lo < Hi

\* A probe that is judged right keeps the limit of the path in brackets.
LEMMA NarrowedBrackets ==
    ASSUME Ordered(search), NEW p \in Int, NEW b \in BOOLEAN, search.lo > Lo => search.lo <= p,
           b => search.cur <= p
    PROVE /\ Narrowed(b).lo > Lo => Narrowed(b).lo <= p
          /\ ~b => Narrowed(b).hi = search.cur
          /\ b /\ Tried(search, p) => Tried(Narrowed(b), p)
          /\ b /\ First(search) => First(Narrowed(b))
          /\ b /\ Untried(search) => Untried(Narrowed(b))
<1>1. /\ Ordered(Narrowed(b))
      /\ Narrowed(b).lo = (IF b THEN search.cur ELSE search.lo)
      /\ Narrowed(b).hi = (IF b THEN search.hi ELSE search.cur)
      /\ Narrowed(b).lo < Narrowed(b).hi => Narrowed(b).cur < Narrowed(b).hi
      /\ Narrowed(b).lo = Narrowed(b).hi => Narrowed(b).cur = Narrowed(b).hi
  BY NarrowedIs
<1> HIDE DEF Narrowed
<1>2. Narrowed(b).lo \in Int /\ Narrowed(b).hi \in Int /\ Narrowed(b).cur \in Int
      /\ search.lo \in Int /\ search.hi \in Int /\ search.cur \in Int
  BY <1>1 DEF Ordered, Searches
<1>3. b /\ Untried(search) => Untried(Narrowed(b))
  BY <1>1, <1>2 DEF Untried
<1>4. b /\ First(search) => First(Narrowed(b))
  BY <1>1, <1>2 DEF First
<1> QED
  BY <1>1, <1>2, <1>3, <1>4 DEF Tried

\* The limit of the path stays between the sizes of the search.
LEMMA BracketStep == IInv /\ [Next]_vars => Bracketed'
<1> SUFFICES ASSUME IInv, [Next]_vars PROVE Bracketed'
  OBVIOUS
<1> USE DEF IInv, SenkushaInv, TypeOK, DataStages, Probing, Over, Handshake, AckStages
<1>0. Places /\ Sizes /\ Measured /\ ProbeIsAnswered /\ Bracketed
  OBVIOUS
<1>00. Ordered(search) /\ pathIn \in Int /\ pathOut \in Int /\ mtuIn \in Int
  BY <1>0 DEF Ordered, Searches, Sizes
<1>1. ASSUME stage' \notin {"mtuIn", "mtuOut"} PROVE Bracketed'
  BY <1>1 DEF Bracketed
<1>2. ASSUME UNCHANGED <<path, stage, search, misjudged, mtuIn>> PROVE Bracketed'
  BY <1>2 DEF Bracketed, SearchedPath
<1>3. CASE Connect \/ SendData \/ Ping \/ PingsEnd \/ SearchEnds \/ Disconnect \/ Close
  <2>1. CASE Connect \/ SendData
    BY <1>1, <1>2, <2>1 DEF Connect, SendData, Fail
  <2>2. CASE Ping \/ PingsEnd
    BY <1>1, <1>2, <2>2 DEF Ping, PingsEnd, Fail
  <2>3. CASE SearchEnds \/ Disconnect \/ Close
    BY <1>1, <2>3 DEF SearchEnds, Disconnect, Close
  <2> QED
    BY <1>3, <2>1, <2>2, <2>3
<1>4. CASE Connected \/ TakionEnds \/ Disconnected \/ Answering \/ UNCHANGED vars
  BY <1>2, <1>4 DEF Connected, TakionEnds, Disconnected, Answering, ProbeAnswered,
     MessageAnswered, DataAcked, Heard
<1>5. ASSUME NEW t \in BOOLEAN, StageWaitEnds(t) PROVE Bracketed'
  <2>1. /\ stage \in (DataStages \ {"final"}) \cup {"connect"}
        /\ UNCHANGED <<path, misjudged, mtuIn>>
        /\ search' = IF stage = "clientMtu" THEN Search(mtuIn) ELSE search
    BY <1>5 DEF StageWaitEnds
  <2>2. (\E r : Fail(r)) \/ stage' = After(stage)
    BY <1>5 DEF StageWaitEnds
  <2>3. CASE \E r : Fail(r)
    BY <1>1, <2>3 DEF Fail
  <2>4. CASE stage' = After(stage)
    <3>1. CASE stage = "echoOff"
      <4>1. search' = Search(Hi) /\ stage' = "mtuIn"
        BY <2>1, <2>4, <3>1, <1>0 DEF Measured, After
      <4>2. Search(Hi).lo = Lo /\ Search(Hi).hi = Hi /\ Search(Hi).cur = Hi
        BY SearchIs
      <4> QED
        BY <4>1, <4>2 DEF Bracketed
    <3>2. CASE stage = "clientMtu"
      <4>1. search' = Search(mtuIn) /\ stage' = "mtuOut" /\ mtuIn' = mtuIn
        BY <2>1, <2>4, <3>2 DEF After
      <4>2. mtuIn \in Lo..Hi
        BY <1>0, <3>2 DEF Measured, Sizes
      <4>3. Search(mtuIn).lo = Lo /\ Search(mtuIn).hi = Hi /\ Search(mtuIn).cur = mtuIn
        BY <4>2, SearchIs
      <4> QED
        BY <4>1, <4>2, <4>3 DEF Bracketed
    <3>3. CASE stage \notin {"echoOff", "clientMtu"}
      BY <1>1, <2>1, <2>4, <3>3 DEF After
    <3> QED
      BY <3>1, <3>2, <3>3
  <2> QED
    BY <2>2, <2>3, <2>4
<1>6. ASSUME NEW t \in BOOLEAN, FinalWaitEnds(t) \/ PongWaitEnds(t) PROVE Bracketed'
  BY <1>1, <1>2, <1>6 DEF FinalWaitEnds, PongWaitEnds, Fail
<1>7. CASE ProbeIn
  BY <1>1, <1>2, <1>7 DEF ProbeIn, Fail
<1>8. CASE stage \in {"mtuIn", "mtuOut"} /\ UNCHANGED <<path, stage, mtuIn>>
  <2>1. SearchedPath' = SearchedPath /\ SearchedPath \in Int
    BY <1>00, <1>8 DEF SearchedPath
  <2>2. search.lo > Lo => search.lo <= SearchedPath
    BY <1>0, <1>8 DEF Bracketed
  <2>3. CASE search' = Narrowed(TRUE) /\ UNCHANGED misjudged /\ search.cur <= SearchedPath
    <3>1. /\ Narrowed(TRUE).lo > Lo => Narrowed(TRUE).lo <= SearchedPath
          /\ Tried(search, SearchedPath) => Tried(Narrowed(TRUE), SearchedPath)
          /\ First(search) => First(Narrowed(TRUE))
          /\ Untried(search) => Untried(Narrowed(TRUE))
      BY <1>00, <2>1, <2>2, <2>3, NarrowedBrackets
    <3> QED
      BY <1>0, <1>8, <2>1, <2>3, <3>1 DEF Bracketed, Tried, First, Untried
  <2>4. CASE search' = Narrowed(FALSE) /\ (misjudged' \/ ~(search.cur <= SearchedPath))
    <3>1. /\ Narrowed(FALSE).lo > Lo => Narrowed(FALSE).lo <= SearchedPath
          /\ Narrowed(FALSE).hi = search.cur
      BY <1>00, <2>1, <2>2, NarrowedBrackets
    <3>2. search.cur \in Int
      BY <1>00 DEF Ordered, Searches
    <3>3. misjudged' \in BOOLEAN
      BY PlacesStep DEF Places
    <3>4. ASSUME ~misjudged' PROVE search'.hi > SearchedPath'
      <4>1. ~(search.cur <= SearchedPath)
        BY <2>4, <3>4
      <4>2. search.cur > SearchedPath
        BY <2>1, <3>2, <4>1
      <4>3. search'.hi = search.cur
        BY <2>4, <3>1
      <4> QED
        BY <2>1, <4>2, <4>3
    <3> QED
      BY <1>8, <2>1, <2>4, <3>1, <3>3, <3>4 DEF Bracketed
  <2>5. CASE search' = [search EXCEPT !.attempt = @ + 1] /\ (misjudged => misjudged')
    <3>1. search'.lo = search.lo /\ search'.hi = search.hi /\ search'.cur = search.cur
      BY <1>00, <2>5 DEF Ordered, Searches
    <3> QED
      BY <1>0, <1>8, <2>1, <2>5, <3>1 DEF Bracketed
  <2> HIDE DEF Narrowed
  <2>6. CASE ProbeOut
    <3>1. search.cur > pathOut => ~(search.cur <= SearchedPath) \/ stage # "mtuOut"
      <4>1. search.cur \in Int
        BY <1>00 DEF Ordered, Searches
      <4> QED
        BY <1>00, <4>1 DEF SearchedPath
    <3> QED
      BY <1>2, <1>8, <2>4, <2>6, <3>1 DEF ProbeOut, Fail
  <2>7. ASSUME NEW t \in BOOLEAN, ProbeWaitEnds(t) PROVE Bracketed'
    <3>0. waiting
      BY <2>7 DEF ProbeWaitEnds, WaitEnds
    <3>1. CASE finished
      <4>1. search.cur <= SearchedPath
        BY <1>0, <1>8, <3>0, <3>1 DEF ProbeIsAnswered
      <4> QED
        BY <2>3, <2>7, <3>1, <4>1 DEF ProbeWaitEnds
    <3>2. CASE ~finished /\ AttemptFails
      <4>1. LastAttempt /\ ~Answered => ~(search.cur <= SearchedPath)
        BY <1>0, <1>8, <3>0 DEF ProbeIsAnswered
      <4> QED
        BY <2>4, <2>5, <3>2, <4>1 DEF AttemptFails
    <3>3. CASE ~finished /\ ~AttemptFails
      BY <1>8, <2>7, <3>3 DEF ProbeWaitEnds, Fail
    <3> QED
      BY <3>1, <3>2, <3>3
  <2> QED
    BY <1>2, <1>8, <2>6, <2>7, <1>3, <1>4, <1>5, <1>6, <1>7 DEF Next, Runner, Answering
<1>9. CASE ProbeOut
  BY <1>1, <1>8, <1>9 DEF ProbeOut, Fail
<1>10. ASSUME NEW t \in BOOLEAN, ProbeWaitEnds(t) PROVE Bracketed'
  BY <1>1, <1>8, <1>10 DEF ProbeWaitEnds, AttemptFails, Fail
<1> QED
  BY <1>3, <1>4, <1>5, <1>6, <1>7, <1>9, <1>10 DEF Next, Runner, Answering

\* A search that ends has the limit between two sizes that follow each other.
LEMMA ResultsStep == IInv /\ [Next]_vars => MtuGetsThrough' /\ MtuIsLargest'
<1> SUFFICES ASSUME IInv, [Next]_vars PROVE MtuGetsThrough' /\ MtuIsLargest'
  OBVIOUS
<1> USE DEF IInv, SenkushaInv, TypeOK
<1>0. Sizes /\ Measured /\ Bracketed /\ MtuGetsThrough /\ MtuIsLargest
  OBVIOUS
<1>1. Ordered(search) /\ pathIn \in Int /\ pathOut \in Int /\ mtuIn \in Int
  BY <1>0 DEF Ordered, Searches, Sizes
<1>2. CASE SearchEnds
  <2>1. /\ stage \in {"mtuIn", "mtuOut"} /\ UNCHANGED <<path, misjudged>>
        /\ search.lo \in Lo..Hi /\ search.hi \in Lo..Hi /\ ~(search.hi - search.lo > 1)
        /\ search.lo <= search.hi
    BY <1>1, <1>2 DEF SearchEnds, Searching, Ordered, Searches
  <2>2. search.lo > Lo => search.lo <= SearchedPath
    BY <1>0, <2>1 DEF Bracketed
  <2>3. SearchedPath \in Int
    BY <1>1 DEF SearchedPath
  <2>4. ASSUME ~misjudged
        PROVE search.lo = IF stage = "mtuOut" /\ mtuIn < Hi /\ SearchedPath >= Hi THEN Hi - 1
                                                                           ELSE Fitting(SearchedPath)
    <3>1. \/ search.hi > SearchedPath
          \/ /\ search.hi = Hi /\ search.lo \in {Lo, Hi}
             /\ stage = "mtuOut" => mtuIn = Hi
          \/ /\ search.hi = Hi /\ search.lo < Hi
             /\ stage = "mtuOut" /\ mtuIn < Hi
      BY <1>0, <2>1, <2>4 DEF Bracketed
    <3>2. CASE search.hi > SearchedPath
      BY <1>1, <2>1, <2>2, <2>3, <3>2 DEF Fitting
    <3>3. CASE search.hi = Hi /\ search.lo \in {Lo, Hi} /\ (stage = "mtuOut" => mtuIn = Hi)
      BY <1>1, <2>1, <2>2, <2>3, <3>3 DEF Fitting
    <3>4. CASE search.hi = Hi /\ search.lo < Hi /\ stage = "mtuOut" /\ mtuIn < Hi
      BY <1>1, <2>1, <2>2, <2>3, <3>4 DEF Fitting
    <3> QED
      BY <3>1, <3>2, <3>3, <3>4
  <2>5. CASE stage = "mtuIn"
    <3>1. mtuIn' = search.lo /\ UNCHANGED mtuOut /\ SearchedPath = pathIn
      BY <1>2, <2>5 DEF SearchEnds, SearchedPath
    <3>2. mtuOut = 0
      BY <1>0, <2>5 DEF Measured, Over
    <3> QED
      BY <1>0, <2>1, <2>2, <2>4, <2>5, <3>1, <3>2 DEF MtuGetsThrough, MtuIsLargest, Fitting
  <2>6. CASE stage = "mtuOut"
    <3>1. mtuOut' = search.lo /\ UNCHANGED mtuIn /\ SearchedPath = pathOut
      BY <1>2, <2>6 DEF SearchEnds, SearchedPath
    <3> QED
      BY <1>0, <2>1, <2>2, <2>4, <2>6, <3>1 DEF MtuGetsThrough, MtuIsLargest, Fitting
  <2> QED
    BY <2>1, <2>5, <2>6
<1>3. CASE ~SearchEnds
  <2>1. UNCHANGED <<path, mtuIn, mtuOut>>
    BY <1>3 DEF Next, Runner, Connect, SendData, Ping, PingsEnd, ProbeIn, ProbeOut, StageWaitEnds,
       FinalWaitEnds, PongWaitEnds, ProbeWaitEnds, AttemptFails, Disconnect, Close, Connected,
       TakionEnds, Disconnected, ProbeAnswered, MessageAnswered, DataAcked, Heard
  <2>2. UNCHANGED misjudged \/ \E t \in BOOLEAN : ProbeWaitEnds(t)
    BY <1>3 DEF Next, Runner, Connect, SendData, Ping, PingsEnd, ProbeIn, ProbeOut, StageWaitEnds,
       FinalWaitEnds, PongWaitEnds, Disconnect, Close, Connected, TakionEnds, Disconnected,
       ProbeAnswered, MessageAnswered, DataAcked, Heard
  <2>3. misjudged => misjudged'
    BY <2>2 DEF ProbeWaitEnds, AttemptFails
  <2> QED
    BY <1>0, <2>1, <2>3 DEF MtuGetsThrough, MtuIsLargest, Fitting
<1> QED
  BY <1>2, <1>3

-----------------------------------------------------------------------------
\* A measurement that has not begun satisfies IInv.
LEMMA InitInv == Init => IInv
<1> SUFFICES ASSUME Init PROVE IInv
  OBVIOUS
<1> USE DEF Init
<1>1. Search(Hi).lo = Lo /\ Search(Hi).hi = Hi /\ Search(Hi).cur = Hi /\ Search(Hi) \in Searches
  BY SearchIs DEF Ordered
<1>2. Places /\ Counts
  <2>1. Places
    BY DEF Places
  <2>2. Counts
    BY DEF Counts
  <2> QED
    BY <2>1, <2>2
<1>3. Sizes
  BY <1>1 DEF Sizes, Searches
<1>4. SuccessIsMeasured /\ Measured /\ ProbeIsAnswered /\ Bracketed
  BY DEF SuccessIsMeasured, Measured, Over, ProbeIsAnswered, Bracketed
<1>5. MtuGetsThrough /\ MtuIsLargest
  BY DEF MtuGetsThrough, MtuIsLargest
<1> QED
  BY <1>2, <1>3, <1>4, <1>5 DEF IInv, SenkushaInv, TypeOK

\* IInv holds in every reachable state.
LEMMA Invariance == Spec => []IInv
<1>1. IInv /\ [Next]_vars => IInv'
  BY PlacesStep, CountsStep, SizesStep, MeasuredStep, SuccessStep, ProbeStep, BracketStep,
     ResultsStep DEF IInv, SenkushaInv, TypeOK
<1> QED
  BY InitInv, <1>1, PTL DEF Spec

\* SenkushaInv: the types, a success only after pong, both sizes and the last acknowledgement,
\* and the limit of the path always between the sizes of the search.
THEOREM MeasurementSafe == Spec => []SenkushaInv
<1>1. IInv => SenkushaInv
  BY DEF IInv
<1> QED
  BY <1>1, Invariance, PTL

\* A size that is reported got through, however late the answers to other probes came.
THEOREM MtuSafe == Spec => []MtuGetsThrough
<1>1. IInv => MtuGetsThrough
  BY DEF IInv
<1> QED
  BY <1>1, Invariance, PTL

\* The searches of senkusha_run_mtu_in_test and _out_test end at the limit of the path, unless
\* a size was given up whose answer came too late.
THEOREM MtuLargest == Spec => []MtuIsLargest
<1>1. IInv => MtuIsLargest
  BY DEF IInv
<1> QED
  BY <1>1, Invariance, PTL
=============================================================================
