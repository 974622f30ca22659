-------------------------- MODULE HolePunchProofs --------------------------
(***************************************************************************)
(* The safety of HolePunch for every number of cancels and of messages     *)
(* outside the plain exchange.                                             *)
(***************************************************************************)
EXTENDS HolePunch, TLAPS, WellFoundedInduction, SequenceTheorems

\* Every non-empty set of numbers has a least one.
LEMMA Least ==
    ASSUME NEW T, T \subseteq Nat, T # {}
    PROVE \E m \in T : \A k \in T : m <= k
<1> DEFINE R == {ss \in Nat \X Nat : ss[1] < ss[2]}
<1>1. IsWellFoundedOn(R, Nat)
  BY NatLessThanWellFounded DEF OpToRel
<1>2. \A x, y \in Nat : <<x, y>> \in R <=> x < y
  OBVIOUS
<1> HIDE DEF R
<1>3. PICK m \in T : \A y \in T : ~(<<y, m>> \in R)
  BY WFMin, <1>1
<1>4. \A k \in T : k \in Nat /\ m \in Nat /\ ~(k < m)
  BY <1>2, <1>3
<1> QED
  BY <1>4

\* The notification a wait finds: the first one of a wanted kind.
LEMMA FirstIs ==
    ASSUME queue \in Seq(Notifs), \E i \in DOMAIN queue : queue[i].kind \in Wanted[call]
    PROVE /\ FirstWanted \in DOMAIN queue /\ notif.kind \in Wanted[call]
          /\ \A j \in DOMAIN queue : queue[j].kind \in Wanted[call] => FirstWanted <= j
<1> DEFINE I == {i \in 1..Len(queue) : queue[i].kind \in Wanted[call]}
<1>1. I \subseteq Nat /\ I # {}
  OBVIOUS
<1>2. \E m \in I : \A k \in I : m <= k
  BY <1>1, Least
<1>3. Min(I) \in I /\ \A k \in I : Min(I) <= k
  BY <1>2 DEF Min
<1>4. FirstWanted = Min(I)
  BY <1>1 DEF FirstWanted, SelectInSeq
<1> QED
  BY <1>3, <1>4 DEF notif

LEMMA FirstFound == FirstWanted # 0 => \E i \in DOMAIN queue : queue[i].kind \in Wanted[call]
<1> SUFFICES ASSUME ~ \E i \in DOMAIN queue : queue[i].kind \in Wanted[call] PROVE FirstWanted = 0
  OBVIOUS
<1> DEFINE I == {i \in 1..Len(queue) : queue[i].kind \in Wanted[call]}
<1>1. I # {} => \E i \in DOMAIN queue : queue[i].kind \in Wanted[call]
  OBVIOUS
<1> QED
  BY <1>1 DEF FirstWanted, SelectInSeq

\* What RemoveAt leaves, and where.
LEMMA Removed ==
    ASSUME NEW S, NEW s \in Seq(S), NEW n \in DOMAIN s
    PROVE /\ RemoveAt(s, n) \in Seq(S) /\ Len(RemoveAt(s, n)) = Len(s) - 1
          /\ \A k \in DOMAIN RemoveAt(s, n) : RemoveAt(s, n)[k] = s[IF k < n THEN k ELSE k + 1]
<1>1. SubSeq(s, 1, n - 1) \in Seq(S) /\ SubSeq(s, n + 1, Len(s)) \in Seq(S)
  OBVIOUS
<1>2. Len(SubSeq(s, 1, n - 1)) = n - 1 /\ Len(SubSeq(s, n + 1, Len(s))) = Len(s) - n
  OBVIOUS
<1>3. RemoveAt(s, n) = SubSeq(s, 1, n - 1) \o SubSeq(s, n + 1, Len(s))
  BY DEF RemoveAt
<1>4. /\ \A k \in 1..(n - 1) : SubSeq(s, 1, n - 1)[k] = s[k]
      /\ \A k \in 1..(Len(s) - n) : SubSeq(s, n + 1, Len(s))[k] = s[k + n]
  OBVIOUS
<1> DEFINE a == SubSeq(s, 1, n - 1)  b == SubSeq(s, n + 1, Len(s))
<1> HIDE DEF a, b
<1>5. /\ a \o b \in Seq(S) /\ Len(a \o b) = Len(a) + Len(b)
      /\ \A k \in 1..Len(a \o b) : (a \o b)[k] = IF k <= Len(a) THEN a[k] ELSE b[k - Len(a)]
  BY <1>1 DEF a, b
<1>6. Len(a) = n - 1 /\ Len(b) = Len(s) - n /\ n \in 1..Len(s) /\ Len(s) \in Nat
  BY <1>2 DEF a, b
<1>7. /\ \A k \in 1..(n - 1) : a[k] = s[k]
      /\ \A k \in 1..(Len(s) - n) : b[k] = s[k + n]
  BY <1>4 DEF a, b
<1>8. RemoveAt(s, n) = a \o b
  BY <1>3 DEF a, b
<1>9. Len(a \o b) = Len(s) - 1 /\ DOMAIN (a \o b) = 1..(Len(s) - 1)
  BY <1>5, <1>6
<1>10. \A k \in 1..(Len(s) - 1) : (a \o b)[k] = s[IF k < n THEN k ELSE k + 1]
  <2> SUFFICES ASSUME NEW k \in 1..(Len(s) - 1) PROVE (a \o b)[k] = s[IF k < n THEN k ELSE k + 1]
    OBVIOUS
  <2>1. CASE k < n
    BY <2>1, <1>5, <1>6, <1>7, <1>9
  <2>2. CASE ~(k < n)
    <3>1. k - (n - 1) \in 1..(Len(s) - n) /\ (k - (n - 1)) + n = k + 1
      BY <2>2, <1>6
    <3>2. b[k - (n - 1)] = s[k + 1]
      BY <3>1, <1>7
    <3>3. ~(k <= Len(a)) /\ k - Len(a) = k - (n - 1)
      BY <2>2, <1>6
    <3>4. (a \o b)[k] = IF k <= Len(a) THEN a[k] ELSE b[k - Len(a)]
      BY <1>5, <1>9
    <3> QED
      BY <2>2, <3>2, <3>3, <3>4
  <2> QED
    BY <2>1, <2>2
<1> DEFINE t == RemoveAt(s, n)
<1>11. t \in Seq(S) /\ Len(t) = Len(s) - 1 /\ DOMAIN t = 1..(Len(s) - 1)
  BY <1>5, <1>8, <1>9
<1>12. \A k \in 1..(Len(s) - 1) : t[k] = s[IF k < n THEN k ELSE k + 1]
  BY <1>8, <1>10
<1> HIDE DEF t
<1>13. t \in Seq(S) /\ Len(t) = Len(s) - 1 /\ \A k \in DOMAIN t : t[k] = s[IF k < n THEN k ELSE k + 1]
  BY <1>11, <1>12
<1> QED
  BY <1>13 DEF t

\* Clearing the notification of the wait leaves the others, in their order.
LEMMA Cleared ==
    ASSUME queue \in Seq(Notifs), \E i \in DOMAIN queue : queue[i].kind \in Wanted[call], Clear
    PROVE /\ queue' \in Seq(Notifs)
          /\ \A k \in DOMAIN queue' : \E i \in DOMAIN queue : queue'[k] = queue[i]
          /\ \A j, k \in DOMAIN queue' : \E i, l \in DOMAIN queue :
                queue'[j] = queue[i] /\ queue'[k] = queue[l] /\ (i > l => j > k)
<1>1. FirstWanted \in DOMAIN queue
  BY FirstIs
<1>2. /\ queue' \in Seq(Notifs) /\ Len(queue') = Len(queue) - 1
      /\ \A k \in DOMAIN queue' : queue'[k] = queue[IF k < FirstWanted THEN k ELSE k + 1]
  BY <1>1, Removed DEF Clear
<1> HIDE DEF FirstWanted
<1> DEFINE at(k) == IF k < FirstWanted THEN k ELSE k + 1
<1>3. \A k \in DOMAIN queue' : at(k) \in DOMAIN queue /\ queue'[k] = queue[at(k)]
  BY <1>1, <1>2
<1>4. \A j, k \in DOMAIN queue' : at(j) > at(k) => j > k
  BY <1>1, <1>2
<1> QED
  BY <1>2, <1>3, <1>4

\* What is published comes last.
LEMMA Published ==
    ASSUME NEW m \in Notifs, queue \in Seq(Notifs), queue' = Append(queue, m)
    PROVE /\ queue' \in Seq(Notifs) /\ DOMAIN queue' = 1..(Len(queue) + 1)
          /\ DOMAIN queue = 1..Len(queue) /\ Len(queue) \in Nat
          /\ \A k \in DOMAIN queue : queue'[k] = queue[k]
          /\ queue'[Len(queue) + 1] = m
OBVIOUS

\* How a thread moves on, and what a step leaves alone.
USE DEF mVars, sVars, stopVars, wVars, sockVars, netVars, Fails, Goto, WaitFor, Canceled,
   NotCanceled

IInv == HolePunchInv /\ EstablishedIsAgreed /\ HandedSocketStaysOpen

\* A message is its kind and its round.
LEMMA MsgIs ==
    /\ \A m \in Notifs : m = Msg(m.kind, m.of) /\ m.kind \in Kinds /\ m.of \in 0..2
    /\ \A k, n : Msg(k, n).kind = k /\ Msg(k, n).of = n
    /\ \A k \in Kinds, n \in 0..2 : Msg(k, n) \in Notifs
BY DEF Notifs, Msg

\* The waits, and the kinds they want.
LEMMA Calls == DOMAIN Wanted = {"create", "start", "offer", "ack", "accept", "delete"}
BY DEF Wanted
LEMMA WantedKinds ==
    /\ \A c \in {"offer", "ack", "accept"} : Wanted[c] = Messages
    /\ Wanted["create"] = {"created", "member"} /\ Wanted["start"] = {"member", "data1"}
BY DEF Wanted
LEMMA ServerKinds == /\ Server \cap Messages = {} /\ "none" \notin Server \cup Messages
    /\ \A m \in [kind : Server, of : {0}] : m \in Notifs /\ m.kind \in Server /\ m.of = 0
    /\ \A k \in Server : Msg(k, 0) \in [kind : Server, of : {0}]
BY DEF Server, Messages, Kinds, Notifs, Msg

LEMMA Announced ==
    ASSUME NEW K, K \subseteq Server, due \subseteq [kind : Server, of : {0}], Announce(K)
    PROVE due' \subseteq [kind : Server, of : {0}]
<1>1. due' = due \cup {Msg(k, 0) : k \in K}
  BY DEF Announce
<1>2. \A k \in K : k \in Server
  OBVIOUS
<1>3. \A k \in K : Msg(k, 0) \in [kind : Server, of : {0}]
  BY <1>2 DEF Msg
<1> QED
  BY <1>1, <1>3
LEMMA Announcements ==
    {"created", "member"} \subseteq Server /\ {"member", "data1"} \subseteq Server
    /\ {"member_deleted", "session_deleted"} \subseteq Server
BY DEF Server

\* What the console says is a session message.
LEMMA ConsoleSays == Console => \E m \in Notifs : m.kind \in Messages /\ Says(m)
BY MsgIs DEF Console, COffer, CRepeat, CResult, CAccept, CStray, Extra, Rounds, Kinds, Messages

\* The message a wait has found.
LEMMA Found ==
    ASSUME IInv, GotMessage
    PROVE /\ notif \in Notifs /\ notif.kind \in Messages /\ Queued(notif)
          /\ FirstWanted \in DOMAIN queue
          /\ \A j \in DOMAIN queue : queue[j].kind \in Messages => FirstWanted <= j
<1>1. queue \in Seq(Notifs) /\ \E i \in DOMAIN queue : queue[i].kind \in Wanted[call]
  BY DEF IInv, HolePunchInv, TypeOK, Notified, GotIsQueued, GotMessage
<1>2. call \in {"offer", "ack", "accept"}
  BY DEF GotMessage, Action
<1>3. Wanted[call] = Messages
  BY <1>2, WantedKinds
<1>4. /\ FirstWanted \in DOMAIN queue /\ notif.kind \in Wanted[call]
      /\ \A j \in DOMAIN queue : queue[j].kind \in Wanted[call] => FirstWanted <= j
  BY <1>1, FirstIs
<1> QED
  BY <1>1, <1>3, <1>4 DEF notif, Queued

\* The OFFER that ends the wait for one, and the ACCEPT, is of this round.
LEMMA OfferIsOurs ==
    ASSUME IInv, GotMessage, call = "offer", notif.kind = "offer"
    PROVE notif = Msg("offer", round) /\ Queued(notif)
<1>1. notif = Msg("offer", notif.of) /\ notif.of \in 0..2 /\ Queued(notif)
  BY Found, MsgIs
<1>2. notif.of \in Rounds /\ Msg("offer", notif.of) \in said
  BY <1>1 DEF IInv, HolePunchInv, Reasons, UnderWay
<1>3. CASE round = 1
  <2>1. Msg("result_to_accept", 1) \notin heard
    BY <1>3 DEF IInv, HolePunchInv, Stages, GotMessage, Closing, Waiting
  <2>2. notif.of # 2
    BY <2>1, <1>2 DEF IInv, HolePunchInv, Reasons
  <2> QED
    BY <1>1, <1>2, <1>3, <2>2 DEF Rounds
<1>4. CASE round = 2
  <2>1. ~Queued(Msg("offer", 1))
    BY <1>4 DEF IInv, HolePunchInv, Stages, Order, UnderWay
  <2> QED
    BY <1>1, <1>2, <1>4, <2>1 DEF Rounds
<1> QED
  BY <1>3, <1>4 DEF IInv, HolePunchInv, TypeOK, Places, Rounds

LEMMA AcceptIsOurs ==
    ASSUME IInv, GotMessage, call = "accept", notif.kind = "accept"
    PROVE notif = Msg("accept", round) /\ Queued(notif)
<1>1. notif = Msg("accept", notif.of) /\ notif.of \in 0..2 /\ Queued(notif)
  BY Found, MsgIs
<1>2. notif.of \in Rounds /\ Msg("accept", notif.of) \in said
  BY <1>1 DEF IInv, HolePunchInv, Reasons, UnderWay
<1>3. CASE round = 1
  <2>1. Msg("result_to_accept", 1) \notin heard
    BY <1>3 DEF IInv, HolePunchInv, Stages, GotMessage, Closing, Waiting
  <2>2. notif.of # 2
    BY <2>1, <1>2 DEF IInv, HolePunchInv, Reasons
  <2> QED
    BY <1>1, <1>2, <1>3, <2>2 DEF Rounds
<1>4. CASE round = 2
  <2>1. OfferTaken
    BY DEF GotMessage, OfferTaken, ResultTaken, AcceptSent, Waiting, InWait
  <2>2. ~Queued(Msg("accept", 1))
    BY <1>4, <2>1 DEF IInv, HolePunchInv, Order, UnderWay
  <2> QED
    BY <1>1, <1>2, <1>4, <2>2 DEF Rounds
<1> QED
  BY <1>3, <1>4 DEF IInv, HolePunchInv, TypeOK, Places, Rounds

\* The RESULT that ends the wait for one answers our OFFER, which the console has.
LEMMA ResultIsOurs ==
    ASSUME IInv, GotMessage, notif.kind = "result", Answers(notif)
    PROVE Msg("offer", round) \in heard
<1>1. notif = Msg("result", notif.of) /\ Queued(notif)
  BY Found, MsgIs
<1>2. round \in Rounds /\ round # 0 /\ round \in 0..2
  BY DEF IInv, HolePunchInv, TypeOK, Places, Rounds
<1>3. UnderWay(Msg("result", round))
  BY <1>1 DEF Answers, UnderWay
<1> QED
  BY <1>2, <1>3 DEF IInv, HolePunchInv, Reasons

\* An ACCEPT is not alone: the console's ctrl ACCEPT ends the OFFERs of the ctrl round.
LEMMA AcceptEndsCtrl ==
    ASSUME IInv, GotMessage, call = "accept", notif.kind = "accept", round = 1
    PROVE /\ Msg("accept", 1) \in said /\ ~UnderWay(Msg("offer", 1))
          /\ wnotif # Msg("accept", 1)
<1>1. notif = Msg("accept", 1) /\ Queued(notif)
  BY AcceptIsOurs
<1>2. Msg("accept", 1) \in said /\ wnotif # Msg("accept", 1) /\ wnotif # Msg("offer", 1)
  BY <1>1 DEF IInv, HolePunchInv, Reasons, Order, UnderWay, Rounds
<1>3. ~Queued(Msg("offer", 1))
  <2> SUFFICES ASSUME NEW j \in DOMAIN queue, queue[j] = Msg("offer", 1) PROVE FALSE
    BY DEF Queued
  <2>1. FirstWanted <= j /\ FirstWanted \in DOMAIN queue /\ queue[FirstWanted] = Msg("accept", 1)
    BY Found, MsgIs, <1>1 DEF Messages, notif
  <2>2. j < FirstWanted
    BY <2>1 DEF IInv, HolePunchInv, Order, Behind
  <2> QED
    BY <2>1, <2>2 DEF IInv, HolePunchInv, TypeOK, Notified
<1> QED
  BY <1>2, <1>3 DEF UnderWay

\* The data OFFER is found only when the ctrl ACCEPT is gone.
LEMMA OfferEndsCtrl ==
    ASSUME IInv, GotMessage, call = "offer", notif.kind = "offer", round = 2
    PROVE ~UnderWay(Msg("accept", 1))
<1>1. notif = Msg("offer", 2)
  BY OfferIsOurs
<1>2. wnotif # Msg("accept", 1)
  BY DEF IInv, HolePunchInv, Stages, Order
<1>3. ~Queued(Msg("accept", 1))
  <2> SUFFICES ASSUME NEW j \in DOMAIN queue, queue[j] = Msg("accept", 1) PROVE FALSE
    BY DEF Queued
  <2>1. FirstWanted <= j /\ FirstWanted \in DOMAIN queue /\ queue[FirstWanted] = Msg("offer", 2)
    BY Found, MsgIs, <1>1 DEF Messages, notif
  <2>2. j < FirstWanted
    BY <2>1 DEF IInv, HolePunchInv, Order, Behind
  <2> QED
    BY <2>1, <2>2 DEF IInv, HolePunchInv, TypeOK, Notified
<1> QED
  BY <1>2, <1>3 DEF UnderWay

\* A step does one of three things to the queue, and none of them lets a message overtake.
LEMMA AfterClear ==
    ASSUME IInv, mpc \in {"got", "checkCreate"}, Clear
    PROVE /\ \A m : Queued(m)' => Queued(m)
          /\ \A a, b : Behind(a, b) => Behind(a, b)'
<1>1. queue \in Seq(Notifs) /\ \E i \in DOMAIN queue : queue[i].kind \in Wanted[call]
  BY DEF IInv, HolePunchInv, TypeOK, Notified, GotIsQueued
<1>2. /\ \A k \in DOMAIN queue' : \E i \in DOMAIN queue : queue'[k] = queue[i]
      /\ \A j, k \in DOMAIN queue' : \E i, l \in DOMAIN queue :
            queue'[j] = queue[i] /\ queue'[k] = queue[l] /\ (i > l => j > k)
  BY <1>1, Cleared
<1>3. ASSUME NEW m, Queued(m)' PROVE Queued(m)
  BY <1>2, <1>3 DEF Queued
<1>4. ASSUME NEW a, NEW b, Behind(a, b), NEW j \in DOMAIN queue', NEW k \in DOMAIN queue',
             queue'[j] = a, queue'[k] = b
      PROVE k < j
  <2>1. PICK i \in DOMAIN queue, l \in DOMAIN queue :
            queue'[j] = queue[i] /\ queue'[k] = queue[l] /\ (i > l => j > k)
    BY <1>2
  <2>2. l < i /\ i \in Nat /\ l \in Nat
    BY <1>1, <1>4, <2>1 DEF Behind
  <2>3. queue' \in Seq(Notifs)
    BY <1>1, Cleared
  <2> QED
    BY <2>1, <2>2, <2>3
<1> QED
  BY <1>3, <1>4 DEF Behind

LEMMA AfterPublish ==
    ASSUME IInv, queue' = Append(queue, wnotif)
    PROVE /\ \A m : Queued(m)' <=> Queued(m) \/ m = wnotif
          /\ \A a, b : Behind(a, b) /\ ~(b = wnotif /\ (Queued(a) \/ a = wnotif)) => Behind(a, b)'
<1>1. /\ queue' \in Seq(Notifs) /\ DOMAIN queue' = 1..(Len(queue) + 1)
      /\ DOMAIN queue = 1..Len(queue) /\ Len(queue) \in Nat
      /\ \A k \in DOMAIN queue : queue'[k] = queue[k]
      /\ queue'[Len(queue) + 1] = wnotif
  BY Published DEF IInv, HolePunchInv, TypeOK, Notified
<1>2. \A m : Queued(m)' <=> Queued(m) \/ m = wnotif
  BY <1>1 DEF Queued
<1>3. ASSUME NEW a, NEW b, Behind(a, b), ~(b = wnotif /\ (Queued(a) \/ a = wnotif)),
             NEW i \in DOMAIN queue', NEW j \in DOMAIN queue', queue'[i] = a, queue'[j] = b
      PROVE j < i
  <2>1. CASE j = Len(queue) + 1
    BY <1>1, <1>2, <1>3, <2>1 DEF Queued
  <2>2. CASE j \in DOMAIN queue /\ i = Len(queue) + 1
    BY <1>1, <2>2
  <2>3. CASE j \in DOMAIN queue /\ i \in DOMAIN queue
    BY <1>1, <1>3, <2>3 DEF Behind
  <2> QED
    BY <1>1, <2>1, <2>2, <2>3
<1> QED
  BY <1>2, <1>3 DEF Behind

LEMMA SameQueue ==
    ASSUME UNCHANGED queue
    PROVE /\ \A m : Queued(m)' <=> Queued(m)
          /\ \A a, b : Behind(a, b)' <=> Behind(a, b)
BY DEF Queued, Behind


\* The main thread stays at a program point of its own functions.
LEMMA PlacesStep == IInv /\ [Next]_vars => Places'
<1> SUFFICES ASSUME IInv, [Next]_vars PROVE Places'
  OBVIOUS
<1> USE Calls DEF IInv, HolePunchInv, TypeOK, Places, Connecting, Rounds
<1>1. CASE MCreate \/ MOpening \/ MOpenWoken \/ MOpenTimeout \/ MOpened \/ MHttpCreate \/
          MScan \/ MExpire \/ MWoken \/ MExpired \/ MGotCreate \/ MCheckCreate \/ MOffer \/
          MHttpStart \/ MGotStart \/ MCheckStart \/ MGotOther \/ MGotWrongResult \/ MGotEnd
  BY <1>1 DEF MCreate, MOpening, MOpenWoken, MOpenTimeout, MOpened, MHttpCreate, Announce,
     MScan, MExpire, MWoken, LeaveWait, CloseV4, NoSock, MExpired, MGotCreate, Flag,
     MCheckCreate, FreesState, MOffer, MHttpStart, MGotStart, Started, MCheckStart,
     MGotOther, GotMessage, Action, MGotWrongResult, Answers, AckGoesOn, MGotEnd
<1>2. CASE MGotOffer \/ MSendOffer \/ MGotResult \/ MCheckCandidates \/ MSendAccept \/
          MGotAccept \/ MEstablish \/ MLastProbe \/ MSession \/ MFini \/ MStopWs \/ MJoinWs
          \/ MDeleted
  BY <1>2 DEF MGotOffer, GotMessage, Action, OfferFlag, Sent, MaybeSent, CloseV4, NoSock,
     MSendOffer, MGotResult, Answers, MCheckCandidates, GiveUpV4, MSendAccept, MGotAccept,
     MEstablish, Established, MLastProbe, MSession, MFini, Announce, MStopWs, MJoinWs,
     WsJoined, MDeleted
<1>3. CASE WConnect \/ WStop \/ WLost \/ WExit \/ WAnswer \/ WPublish \/ WReceive \/
          UNCHANGED vars
  BY <1>3 DEF WConnect, Signal, WStop, WLost, WExit, WAnswer, MaybeSent, WPublish, NoMsg,
     WReceive, Receive, AnswersOffers, OfferFlag, Established, vars
<1>4. CASE Console
  BY <1>4 DEF Console, InCall, InWait, COffer, Says, Receive, AnswersOffers, OfferFlag,
     Established, CRepeat, Extra, CResult, CAccept, CStray
<1>5. CASE \E b \in BOOLEAN : ACancel(b)
  BY <1>5 DEF ACancel, InCall, InWait
<1> QED
  BY <1>1, <1>2, <1>3, <1>4, <1>5
  DEF Next, Main, Ws

\* The websocket thread is alive only between its creation and its end.
LEMMA WsPlacesStep == IInv /\ [Next]_vars => WsPlaces'
<1> SUFFICES ASSUME IInv, [Next]_vars PROVE WsPlaces'
  OBVIOUS
<1> USE DEF IInv, HolePunchInv, TypeOK, WsPlaces, Places, Connecting, Rounds
<1>1. CASE MCreate \/ MOpening \/ MOpenWoken \/ MOpenTimeout \/ MOpened \/ MHttpCreate \/
          MScan \/ MExpire \/ MWoken \/ MExpired \/ MGotCreate \/ MCheckCreate \/ MOffer \/
          MHttpStart \/ MGotStart \/ MCheckStart \/ MGotOther \/ MGotWrongResult \/ MGotEnd
  BY <1>1 DEF MCreate, MOpening, MOpenWoken, MOpenTimeout, MOpened, MHttpCreate, Announce,
     MScan, MExpire, MWoken, LeaveWait, CloseV4, NoSock, MExpired, MGotCreate, Flag,
     MCheckCreate, FreesState, MOffer, MHttpStart, MGotStart, Started, MCheckStart,
     MGotOther, GotMessage, Action, MGotWrongResult, Answers, AckGoesOn, MGotEnd
<1>2. CASE MGotOffer \/ MSendOffer \/ MGotResult \/ MCheckCandidates \/ MSendAccept \/
          MGotAccept \/ MEstablish \/ MLastProbe \/ MSession \/ MFini \/ MStopWs \/ MJoinWs
          \/ MDeleted
  BY <1>2 DEF MGotOffer, GotMessage, Action, OfferFlag, Sent, MaybeSent, CloseV4, NoSock,
     MSendOffer, MGotResult, Answers, MCheckCandidates, GiveUpV4, MSendAccept, MGotAccept,
     MEstablish, Established, MLastProbe, MSession, MFini, Announce, MStopWs, MJoinWs,
     WsJoined, MDeleted
<1>3. CASE WConnect \/ WStop \/ WLost \/ WExit \/ WAnswer \/ WPublish \/ WReceive \/
          UNCHANGED vars
  BY <1>3 DEF WConnect, Signal, WStop, WLost, WExit, WAnswer, MaybeSent, WPublish, NoMsg,
     WReceive, Receive, AnswersOffers, OfferFlag, Established, vars
<1>4. CASE Console
  BY <1>4 DEF Console, InCall, InWait, COffer, Says, Receive, AnswersOffers, OfferFlag,
     Established, CRepeat, Extra, CResult, CAccept, CStray
<1>5. CASE \E b \in BOOLEAN : ACancel(b)
  BY <1>5 DEF ACancel, InCall, InWait
<1> QED
  BY <1>1, <1>2, <1>3, <1>4, <1>5
  DEF Next, Main, Ws

\* state_mutex is held only where the code says.
LEMMA LocksStep == IInv /\ [Next]_vars => Locks'
<1> SUFFICES ASSUME IInv, [Next]_vars PROVE Locks'
  OBVIOUS
<1> USE DEF IInv, HolePunchInv, TypeOK, Locks, Places, Connecting, Rounds
<1>1. CASE MCreate \/ MOpening \/ MOpenWoken \/ MOpenTimeout \/ MOpened \/ MHttpCreate \/
          MScan \/ MExpire \/ MWoken \/ MExpired \/ MGotCreate \/ MCheckCreate \/ MOffer \/
          MHttpStart \/ MGotStart \/ MCheckStart \/ MGotOther \/ MGotWrongResult \/ MGotEnd
  BY <1>1 DEF MCreate, MOpening, MOpenWoken, MOpenTimeout, MOpened, MHttpCreate, Announce,
     MScan, MExpire, MWoken, LeaveWait, CloseV4, NoSock, MExpired, MGotCreate, Flag,
     MCheckCreate, FreesState, MOffer, MHttpStart, MGotStart, Started, MCheckStart,
     MGotOther, GotMessage, Action, MGotWrongResult, Answers, AckGoesOn, MGotEnd
<1>2. CASE MGotOffer \/ MSendOffer \/ MGotResult \/ MCheckCandidates \/ MSendAccept \/
          MGotAccept \/ MEstablish \/ MLastProbe \/ MSession \/ MFini \/ MStopWs \/ MJoinWs
          \/ MDeleted
  BY <1>2 DEF MGotOffer, GotMessage, Action, OfferFlag, Sent, MaybeSent, CloseV4, NoSock,
     MSendOffer, MGotResult, Answers, MCheckCandidates, GiveUpV4, MSendAccept, MGotAccept,
     MEstablish, Established, MLastProbe, MSession, MFini, Announce, MStopWs, MJoinWs,
     WsJoined, MDeleted
<1>3. CASE WConnect \/ WStop \/ WLost \/ WExit \/ WAnswer \/ WPublish \/ WReceive \/
          UNCHANGED vars
  BY <1>3 DEF WConnect, Signal, WStop, WLost, WExit, WAnswer, MaybeSent, WPublish, NoMsg,
     WReceive, Receive, AnswersOffers, OfferFlag, Established, vars
<1>4. CASE Console
  BY <1>4 DEF Console, InCall, InWait, COffer, Says, Receive, AnswersOffers, OfferFlag,
     Established, CRepeat, Extra, CResult, CAccept, CStray
<1>5. CASE \E b \in BOOLEAN : ACancel(b)
  BY <1>5 DEF ACancel, InCall, InWait
<1> QED
  BY <1>1, <1>2, <1>3, <1>4, <1>5
  DEF Next, Main, Ws

\* What is queued is a notification.
LEMMA NotifiedStep == IInv /\ [Next]_vars => Notified'
<1> SUFFICES ASSUME IInv, [Next]_vars PROVE Notified'
  OBVIOUS
<1> USE DEF IInv, HolePunchInv, TypeOK, Notified, GotIsQueued
<1>1. CASE MScan \/ MExpire \/ MWoken \/ MExpired \/ MGotCreate \/ MCheckStart \/
          MGotWrongResult \/ MGotEnd
  BY <1>1 DEF MScan, MExpire, MWoken, LeaveWait, CloseV4, NoSock, MExpired, MGotCreate,
     Flag, MCheckStart, FreesState, Started, MGotWrongResult, GotMessage, Action, Answers,
     AckGoesOn, MGotEnd
<1>2. CASE MGotOffer \/ MSendOffer \/ MGotResult \/ MCheckCandidates \/ MSendAccept \/
          MGotAccept \/ MEstablish \/ MLastProbe \/ MSession
  BY <1>2 DEF MGotOffer, GotMessage, Action, OfferFlag, Sent, MaybeSent, CloseV4, NoSock,
     MSendOffer, MGotResult, Answers, MCheckCandidates, GiveUpV4, MSendAccept, MGotAccept,
     MEstablish, Established, MLastProbe, MSession
<1>3. CASE WConnect \/ WStop \/ WLost \/ WExit \/ WAnswer \/ UNCHANGED vars
  BY <1>3 DEF WConnect, Signal, WStop, WLost, WExit, WAnswer, MaybeSent, vars
<1>4. CASE MCreate \/ MOpening \/ MOpenWoken \/ MOpenTimeout \/ MOpened \/ MHttpCreate
  BY <1>4, Announced, Announcements DEF MCreate, MOpening, MOpenWoken, MOpenTimeout,
     MOpened, MHttpCreate
<1>5. CASE MCheckCreate
  BY <1>5, Cleared DEF MCheckCreate, FreesState
<1>6. CASE MOffer \/ MHttpStart
  BY <1>6, Announced, Announcements DEF MOffer, MHttpStart
<1>7. CASE MGotStart
  BY <1>7, Cleared DEF MGotStart, Started, Flag
<1>8. CASE MGotOther
  BY <1>8, Cleared DEF MGotOther, GotMessage, Action
<1>9. CASE MFini \/ MStopWs \/ MJoinWs
  BY <1>9, Announced, Announcements DEF MFini, MStopWs, MJoinWs, WsJoined
<1>10. CASE MDeleted
  BY <1>10, Cleared DEF MDeleted
<1>11. CASE WPublish
  <2>1. wnotif' = NoMsg /\ queue' = Append(queue, wnotif) /\ UNCHANGED due
    BY <1>11 DEF WPublish
  <2>2. NoMsg \in Notifs
    BY MsgIs DEF NoMsg, Kinds
  <2> QED
    BY <2>1, <2>2, Published
<1>12. CASE WReceive
  BY <1>12, ServerKinds DEF WReceive, Receive, AnswersOffers, OfferFlag, Established
<1>13. CASE Console
  BY <1>13, ConsoleSays DEF Console, Says, Receive
<1>14. CASE \E b \in BOOLEAN : ACancel(b)
  BY <1>14 DEF ACancel, InCall, Connecting, InWait
<1> QED
  BY <1>1, <1>2, <1>3, <1>4, <1>5, <1>6, <1>7, <1>8, <1>9, <1>10, <1>11, <1>12, <1>13, <1>14
  DEF Next, Main, Ws

\* What is closed is not named any more.
LEMMA SocketTypesStep == IInv /\ [Next]_vars => SocketTypes'
<1> SUFFICES ASSUME IInv, [Next]_vars PROVE SocketTypes'
  OBVIOUS
<1> DEFINE Quiet == UNCHANGED sockVars \/ CloseV4
<1>1. /\ open \subseteq Rounds /\ {v4, chosen} \subseteq open \cup {NoSock} /\ round \in Rounds
      /\ handed \in [Rounds -> Rounds \cup {NoSock}]
      /\ v4 # NoSock => chosen # v4
  BY DEF IInv, HolePunchInv, TypeOK, SocketTypes, Places, Sockets, Rounds
<1>2. ASSUME Quiet PROVE SocketTypes'
  <2>1. CASE UNCHANGED sockVars
    BY <1>1, <2>1 DEF SocketTypes, sockVars
  <2>2. CASE CloseV4
    BY <1>1, <2>2 DEF SocketTypes, CloseV4
  <2> QED
    BY <1>2, <2>1, <2>2
<1>3. CASE MCreate \/ MOpening \/ MOpenWoken \/ MOpenTimeout \/ MOpened \/ MHttpCreate \/
          MScan \/ MExpire \/ MWoken \/ MExpired
  <2>1. Quiet
    BY <1>3 DEF MCreate, MOpening, MOpenWoken, MOpenTimeout, MOpened, MHttpCreate, MScan, MExpire,
       MWoken, MExpired, LeaveWait
  <2> QED
    BY <1>2, <2>1
<1>4. CASE MGotCreate \/ MCheckCreate \/ MHttpStart \/ MGotStart \/ MCheckStart \/ MGotOther \/
          MGotWrongResult \/ MGotEnd
  <2>1. Quiet
    <3>1. CASE MGotCreate \/ MCheckCreate \/ MHttpStart \/ MGotStart \/ MCheckStart
      BY <3>1 DEF MGotCreate, MCheckCreate, MHttpStart, MGotStart, MCheckStart
    <3>2. CASE MGotOther \/ MGotWrongResult
      BY <3>2 DEF MGotOther, MGotWrongResult
    <3>3. CASE MGotEnd
      BY <3>3 DEF MGotEnd, LeaveWait
    <3> QED
      BY <1>4, <3>1, <3>2, <3>3
  <2> QED
    BY <1>2, <2>1
<1>5. CASE MGotOffer \/ MSendOffer \/ MGotResult \/ MSendAccept \/ MGotAccept \/ MLastProbe \/
          MSession \/ MFini \/ MStopWs \/ MJoinWs \/ MDeleted
  <2>1. Quiet
    BY <1>5 DEF MGotOffer, MSendOffer, MGotResult, MSendAccept, MGotAccept, MLastProbe, MSession,
       MFini, MStopWs, MJoinWs, MDeleted
  <2> QED
    BY <1>2, <2>1
<1>6. CASE Ws \/ WReceive \/ WLost \/ Console \/ (\E b \in BOOLEAN : ACancel(b)) \/ UNCHANGED vars
  <2>1. Quiet
    BY <1>6 DEF Ws, WConnect, WStop, WLost, WExit, WAnswer, WPublish, WReceive, Console, ACancel, vars
  <2> QED
    BY <1>2, <2>1
<1>7. CASE MOffer
  <2>1. Quiet \/ (open' = open \cup {round} /\ v4' = round /\ UNCHANGED <<chosen, handed>>)
    BY <1>7 DEF MOffer
  <2> QED
    BY <1>1, <1>2, <2>1 DEF SocketTypes
<1>8. CASE MCheckCandidates
  <2>1. Quiet \/ (chosen' = v4 /\ v4' = NoSock /\ UNCHANGED <<open, handed>>)
    BY <1>8 DEF MCheckCandidates, GiveUpV4
  <2> QED
    BY <1>1, <1>2, <2>1 DEF SocketTypes
<1>9. CASE MEstablish
  <2>1. Quiet \/ (handed' = [handed EXCEPT ![round] = chosen] /\ UNCHANGED <<open, v4, chosen>>)
    BY <1>9 DEF MEstablish
  <2>2. CASE handed' = [handed EXCEPT ![round] = chosen] /\ UNCHANGED <<open, v4, chosen>>
    <3>1. chosen \in Rounds \cup {NoSock}
      BY <1>1
    <3>2. handed' \in [Rounds -> Rounds \cup {NoSock}]
      BY <1>1, <2>2, <3>1
    <3> QED
      BY <1>1, <2>2, <3>2 DEF SocketTypes
  <2> QED
    BY <1>2, <2>1, <2>2
<1> QED
  BY <1>3, <1>4, <1>5, <1>6, <1>7, <1>8, <1>9 DEF Next, Main

\* A notification that was returned is not cleared by anyone else.
LEMMA GotIsQueuedStep == IInv /\ [Next]_vars => GotIsQueued'
<1> SUFFICES ASSUME IInv, [Next]_vars PROVE GotIsQueued'
  OBVIOUS
<1> USE DEF IInv, HolePunchInv, TypeOK, GotIsQueued, Places, Connecting, Rounds
<1>1. CASE MCreate \/ MOpening \/ MOpenWoken \/ MOpenTimeout \/ MOpened \/ MHttpCreate \/
          MGotCreate \/ MCheckCreate \/ MOffer \/ MHttpStart \/ MGotStart \/ MCheckStart \/
          MGotOther \/ MGotWrongResult \/ MGotEnd
  BY <1>1 DEF MCreate, MOpening, MOpenWoken, MOpenTimeout, MOpened, MHttpCreate, Announce,
     MGotCreate, Flag, MCheckCreate, FreesState, MOffer, MHttpStart, MGotStart, Started,
     MCheckStart, MGotOther, GotMessage, Action, MGotWrongResult, Answers, AckGoesOn,
     MGotEnd, LeaveWait, CloseV4, NoSock
<1>2. CASE MGotOffer \/ MSendOffer \/ MGotResult \/ MCheckCandidates \/ MSendAccept \/
          MGotAccept \/ MEstablish \/ MLastProbe \/ MSession \/ MFini \/ MStopWs \/ MJoinWs
          \/ MDeleted
  BY <1>2 DEF MGotOffer, GotMessage, Action, OfferFlag, Sent, MaybeSent, CloseV4, NoSock,
     MSendOffer, MGotResult, Answers, MCheckCandidates, GiveUpV4, MSendAccept, MGotAccept,
     MEstablish, Established, MLastProbe, MSession, MFini, Announce, MStopWs, MJoinWs,
     WsJoined, MDeleted
<1>3. CASE WConnect \/ WStop \/ WLost \/ WExit \/ WAnswer \/ WPublish \/ WReceive \/
          UNCHANGED vars
  BY <1>3 DEF WConnect, Signal, WStop, WLost, WExit, WAnswer, MaybeSent, WPublish, NoMsg,
     WReceive, Receive, AnswersOffers, OfferFlag, Established, vars
<1>4. CASE MScan \/ MExpire \/ MWoken \/ MExpired
  BY <1>4, FirstFound DEF MScan, MExpire, MWoken, LeaveWait, CloseV4, NoSock, MExpired
<1>5. CASE Console
  BY <1>5 DEF Console, InCall, InWait, COffer, Says, Receive, AnswersOffers, OfferFlag,
     Established, CRepeat, Extra, CResult, CAccept, CStray
<1>6. CASE \E b \in BOOLEAN : ACancel(b)
  BY <1>6 DEF ACancel, InCall, InWait
<1> QED
  BY <1>1, <1>2, <1>3, <1>4, <1>5, <1>6
  DEF Next, Main, Ws

\* What is under way was said, and what was said was said for a reason.
LEMMA ReasonsStep == IInv /\ [Next]_vars => Reasons'
<1> SUFFICES ASSUME IInv, [Next]_vars PROVE Reasons'
  OBVIOUS
<1> USE DEF IInv, HolePunchInv, TypeOK, Reasons, UnderWay, Rounds, Notified
<1>1. CASE MCreate \/ MOpening \/ MOpenWoken \/ MOpenTimeout \/ MOpened \/ MHttpCreate \/
          MScan \/ MExpire \/ MWoken \/ MExpired \/ MOffer \/ MHttpStart \/ MCheckStart \/
          MGotWrongResult \/ MGotEnd
  BY <1>1, MsgIs, SameQueue DEF MCreate, MOpening, MOpenWoken, MOpenTimeout, MOpened,
     MHttpCreate, Announce, MScan, MExpire, MWoken, LeaveWait, CloseV4, NoSock, MExpired,
     MOffer, MHttpStart, MCheckStart, FreesState, Started, MGotWrongResult, GotMessage,
     Action, Answers, AckGoesOn, MGotEnd
<1>2. CASE MSendOffer \/ MGotResult \/ MCheckCandidates \/ MSendAccept \/ MGotAccept \/
          MEstablish \/ MLastProbe \/ MSession \/ MFini \/ MStopWs \/ MJoinWs
  BY <1>2, MsgIs, SameQueue DEF MSendOffer, CloseV4, NoSock, MaybeSent, MGotResult,
     GotMessage, Action, Answers, MCheckCandidates, GiveUpV4, MSendAccept, Sent, MGotAccept,
     MEstablish, Established, MLastProbe, MSession, MFini, Announce, MStopWs, MJoinWs,
     WsJoined
<1>3. CASE WConnect \/ WStop \/ WLost \/ WExit \/ WAnswer \/ UNCHANGED vars
  BY <1>3, MsgIs, SameQueue DEF WConnect, Signal, WStop, WLost, WExit, WAnswer, MaybeSent,
     vars
<1>4. CASE MGotCreate
  BY <1>4, MsgIs, SameQueue DEF MGotCreate, Flag
<1>5. CASE MCheckCreate
  BY <1>5, AfterClear, MsgIs, SameQueue DEF MCheckCreate, FreesState
<1>6. CASE MGotStart
  BY <1>6, AfterClear, MsgIs, SameQueue DEF MGotStart, Started, Flag
<1>7. CASE MGotOther
  BY <1>7, AfterClear, MsgIs, SameQueue DEF MGotOther, GotMessage, Action
<1>8. CASE MGotOffer
  BY <1>8, MsgIs, SameQueue DEF MGotOffer, GotMessage, Action, OfferFlag, Sent, MaybeSent,
     CloseV4, NoSock
<1>9. CASE MDeleted
  BY <1>9, AfterClear, MsgIs, SameQueue DEF MDeleted
<1>10. CASE WPublish
  BY <1>10, AfterPublish, MsgIs, SameQueue DEF WPublish, Signal, NoMsg
<1>11. CASE WReceive
  <2>1. PICK m \in due : Receive(m)
    BY <1>11 DEF WReceive
  <2>2. wnotif' = m /\ m.kind \notin {"offer", "accept", "result"}
    BY <2>1, ServerKinds DEF Receive, Messages
  <2>3. \A r : wnotif' # Msg("offer", r) /\ wnotif' # Msg("accept", r) /\ wnotif' # Msg("result", r)
    BY <2>2, MsgIs
  <2>4. UNCHANGED <<queue, said, heard>>
    BY <1>11 DEF WReceive
  <2> QED
    BY <2>3, <2>4, SameQueue
<1>12. CASE Console
  BY <1>12, MsgIs, SameQueue DEF Console, InCall, Connecting, InWait, COffer, Says, Receive,
     AnswersOffers, OfferFlag, Established, CRepeat, Extra, CResult, CAccept, CStray
<1>13. CASE \E b \in BOOLEAN : ACancel(b)
  BY <1>13, MsgIs, SameQueue DEF ACancel, InCall, Connecting, InWait
<1> QED
  BY <1>1, <1>2, <1>3, <1>4, <1>5, <1>6, <1>7, <1>8, <1>9, <1>10, <1>11, <1>12, <1>13
  DEF Next, Main, Ws

\* The main thread goes on only with what the console has heard.
LEMMA StagesStep == IInv /\ [Next]_vars => Stages'
<1> SUFFICES ASSUME IInv, [Next]_vars PROVE Stages'
  OBVIOUS
<1> USE DEF IInv, HolePunchInv, TypeOK, Stages, OfferTaken, Waiting, InWait, ResultTaken,
   AcceptSent, Closing, Places, Connecting, Rounds, GotIsQueued
<1>1. CASE MCreate \/ MOpening \/ MOpenWoken \/ MOpenTimeout \/ MOpened \/ MHttpCreate \/
          MScan \/ MExpire \/ MWoken \/ MExpired \/ MGotCreate \/ MCheckCreate \/ MOffer \/
          MHttpStart \/ MGotStart \/ MCheckStart \/ MGotOther \/ MGotWrongResult \/ MGotEnd
  BY <1>1 DEF MCreate, MOpening, MOpenWoken, MOpenTimeout, MOpened, MHttpCreate, Announce,
     MScan, MExpire, MWoken, LeaveWait, CloseV4, NoSock, MExpired, MGotCreate, Flag,
     MCheckCreate, FreesState, MOffer, MHttpStart, MGotStart, Started, MCheckStart,
     MGotOther, GotMessage, Action, MGotWrongResult, Answers, AckGoesOn, MGotEnd
<1>2. CASE MCheckCandidates \/ MEstablish \/ MLastProbe \/ MSession \/ MFini \/ MStopWs \/
          MJoinWs \/ MDeleted
  BY <1>2 DEF MCheckCandidates, CloseV4, NoSock, GiveUpV4, MEstablish, Established,
     MLastProbe, MSession, MFini, Announce, MStopWs, MJoinWs, WsJoined, MDeleted
<1>3. CASE WConnect \/ WStop \/ WLost \/ WExit \/ WPublish \/ WReceive \/ UNCHANGED vars
  BY <1>3 DEF WConnect, Signal, WStop, WLost, WExit, WPublish, NoMsg, WReceive, Receive,
     AnswersOffers, OfferFlag, Established, vars
<1>4. CASE MGotOffer
  BY <1>4, OfferIsOurs, MsgIs DEF MGotOffer, GotMessage, Action, OfferFlag, Sent, MaybeSent,
     CloseV4, NoSock
<1>5. CASE MSendOffer
  BY <1>5, MsgIs DEF MSendOffer, CloseV4, NoSock, MaybeSent
<1>6. CASE MGotResult
  BY <1>6, ResultIsOurs DEF MGotResult, GotMessage, Action
<1>7. CASE MSendAccept
  BY <1>7, MsgIs DEF MSendAccept, CloseV4, NoSock, MaybeSent, Sent
<1>8. CASE MGotAccept
  BY <1>8, AcceptIsOurs, MsgIs DEF MGotAccept, GotMessage, Action, Sent, MaybeSent, CloseV4,
     NoSock
<1>9. CASE WAnswer
  BY <1>9, MsgIs DEF WAnswer, MaybeSent
<1>10. CASE Console
  BY <1>10 DEF Console, InCall, COffer, Says, Receive, AnswersOffers, OfferFlag,
     Established, CRepeat, Extra, CResult, CAccept, CStray
<1>11. CASE \E b \in BOOLEAN : ACancel(b)
  BY <1>11 DEF ACancel, InCall
<1> QED
  BY <1>1, <1>2, <1>3, <1>4, <1>5, <1>6, <1>7, <1>8, <1>9, <1>10, <1>11
  DEF Next, Main, Ws

\* A message of the ctrl round never gets behind the data OFFER.
LEMMA OrderStep == IInv /\ [Next]_vars => Order'
<1> SUFFICES ASSUME IInv, [Next]_vars PROVE Order'
  OBVIOUS
<1> USE DEF IInv, HolePunchInv, TypeOK, Order, UnderWay, OfferTaken, Waiting, InWait,
   ResultTaken, AcceptSent, Places, Connecting, Rounds, Reasons, Stages, Closing, Notified,
   GotIsQueued
<1>1. CASE MCreate \/ MOpening \/ MOpenWoken \/ MOpenTimeout \/ MOpened \/ MHttpCreate \/
          MScan \/ MExpire \/ MWoken \/ MExpired \/ MOffer \/ MHttpStart \/ MCheckStart \/
          MGotWrongResult \/ MGotEnd
  BY <1>1, MsgIs, SameQueue DEF MCreate, MOpening, MOpenWoken, MOpenTimeout, MOpened,
     MHttpCreate, Announce, MScan, MExpire, MWoken, LeaveWait, CloseV4, NoSock, MExpired,
     MOffer, MHttpStart, MCheckStart, FreesState, Started, MGotWrongResult, GotMessage,
     Action, Answers, AckGoesOn, MGotEnd
<1>2. CASE MSendOffer \/ MGotResult \/ MCheckCandidates \/ MSendAccept \/ MEstablish \/
          MLastProbe \/ MSession \/ MFini \/ MStopWs \/ MJoinWs
  BY <1>2, MsgIs, SameQueue DEF MSendOffer, CloseV4, NoSock, MaybeSent, MGotResult,
     GotMessage, Action, Answers, MCheckCandidates, GiveUpV4, MSendAccept, Sent, MEstablish,
     Established, MLastProbe, MSession, MFini, Announce, MStopWs, MJoinWs, WsJoined
<1>3. CASE WConnect \/ WStop \/ WLost \/ WExit \/ WAnswer \/ UNCHANGED vars
  BY <1>3, MsgIs, SameQueue DEF WConnect, Signal, WStop, WLost, WExit, WAnswer, MaybeSent,
     vars
<1>4. CASE MGotCreate
  BY <1>4, MsgIs, SameQueue DEF MGotCreate, Flag
<1>5. CASE MCheckCreate
  BY <1>5, AfterClear, MsgIs, SameQueue DEF MCheckCreate, FreesState
<1>6. CASE MGotStart
  BY <1>6, AfterClear, MsgIs, SameQueue DEF MGotStart, Started, Flag
<1>7. CASE MGotOther
  BY <1>7, AfterClear, MsgIs, SameQueue DEF MGotOther, GotMessage, Action
<1>8. CASE MGotOffer
  BY <1>8, OfferEndsCtrl, MsgIs, SameQueue DEF MGotOffer, GotMessage, Action, OfferFlag,
     Sent, MaybeSent, CloseV4, NoSock
<1>9. CASE MGotAccept
  BY <1>9, AcceptEndsCtrl, AcceptIsOurs, MsgIs, SameQueue DEF MGotAccept, GotMessage,
     Action, Sent, MaybeSent, CloseV4, NoSock
<1>10. CASE MDeleted
  BY <1>10, AfterClear, MsgIs, SameQueue DEF MDeleted
<1>11. CASE WPublish
  BY <1>11, AfterPublish, MsgIs, SameQueue DEF WPublish, Signal, NoMsg
<1>12. CASE WReceive
  BY <1>12, ServerKinds, MsgIs, SameQueue DEF WReceive, Receive, AnswersOffers, OfferFlag,
     Established
<1>13. CASE Console
  BY <1>13, MsgIs, SameQueue DEF Console, InCall, COffer, Says, Receive, AnswersOffers,
     OfferFlag, Established, CRepeat, Extra, CResult, CAccept, CStray
<1>14. CASE \E b \in BOOLEAN : ACancel(b)
  BY <1>14, MsgIs, SameQueue DEF ACancel, InCall
<1> QED
  BY <1>1, <1>2, <1>3, <1>4, <1>5, <1>6, <1>7, <1>8, <1>9, <1>10, <1>11, <1>12, <1>13, <1>14
  DEF Next, Main, Ws

\* ipv4_sock names the socket of this round until it is given away.
LEMMA SocketsStep == IInv /\ [Next]_vars => Sockets'
<1> SUFFICES ASSUME IInv, [Next]_vars PROVE Sockets'
  OBVIOUS
<1> USE DEF IInv, HolePunchInv, TypeOK, Sockets, NoSock, NotOpened, Waiting, InWait,
   Unanswered, AcceptSent, Rounds, Places, Connecting, SocketTypes, GotIsQueued
<1>1. CASE MCreate \/ MOpening \/ MOpenWoken \/ MOpenTimeout \/ MOpened \/ MHttpCreate \/
          MScan \/ MExpire \/ MWoken \/ MExpired \/ MGotCreate \/ MCheckCreate \/ MOffer \/
          MHttpStart \/ MGotStart \/ MCheckStart \/ MGotOther \/ MGotWrongResult \/ MGotEnd
  BY <1>1 DEF MCreate, MOpening, MOpenWoken, MOpenTimeout, MOpened, MHttpCreate, Announce,
     MScan, MExpire, MWoken, LeaveWait, CloseV4, MExpired, MGotCreate, Flag, MCheckCreate,
     FreesState, MOffer, MHttpStart, MGotStart, Started, MCheckStart, MGotOther, GotMessage,
     Action, MGotWrongResult, Answers, AckGoesOn, MGotEnd
<1>2. CASE MGotOffer \/ MSendOffer \/ MGotResult \/ MCheckCandidates \/ MSendAccept \/
          MGotAccept \/ MEstablish \/ MLastProbe \/ MSession \/ MFini \/ MStopWs \/ MJoinWs
          \/ MDeleted
  BY <1>2 DEF MGotOffer, GotMessage, Action, OfferFlag, Sent, MaybeSent, CloseV4,
     MSendOffer, MGotResult, Answers, MCheckCandidates, GiveUpV4, MSendAccept, MGotAccept,
     MEstablish, Established, MLastProbe, MSession, MFini, Announce, MStopWs, MJoinWs,
     WsJoined, MDeleted
<1>3. CASE WConnect \/ WStop \/ WLost \/ WExit \/ WAnswer \/ WPublish \/ WReceive \/
          UNCHANGED vars
  BY <1>3 DEF WConnect, Signal, WStop, WLost, WExit, WAnswer, MaybeSent, WPublish, NoMsg,
     WReceive, Receive, AnswersOffers, OfferFlag, Established, vars
<1>4. CASE Console
  BY <1>4 DEF Console, InCall, COffer, Says, Receive, AnswersOffers, OfferFlag, Established,
     CRepeat, Extra, CResult, CAccept, CStray
<1>5. CASE \E b \in BOOLEAN : ACancel(b)
  BY <1>5 DEF ACancel, InCall
<1> QED
  BY <1>1, <1>2, <1>3, <1>4, <1>5
  DEF Next, Main, Ws

\* A round is established by MEstablish alone, at the end of its exchange.
LEMMA EstablishedIsAgreedStep == IInv /\ [Next]_vars => EstablishedIsAgreed'
<1> SUFFICES ASSUME IInv, [Next]_vars PROVE EstablishedIsAgreed'
  OBVIOUS
<1>1. heard \subseteq heard'
  BY DEF Next, Main, Ws, vars, MCreate, MOpening, MOpenWoken, MOpenTimeout, MOpened,
     MHttpCreate, MScan, MExpire, MWoken, MExpired, MGotCreate, MCheckCreate, FreesState,
     MOffer, MHttpStart, MGotStart, MCheckStart, MGotOther, MGotWrongResult, MGotEnd,
     MGotOffer, Sent, MaybeSent, MSendOffer, MGotResult, MCheckCandidates, MSendAccept,
     MGotAccept, MEstablish, MLastProbe, MSession, MFini, MDeleted, MStopWs, MJoinWs,
     WConnect, WAnswer, WPublish, NoMsg, WStop, WExit, WReceive, WLost, Console, Rounds,
     ACancel
<1>2. CASE MEstablish
  <2>1. {Msg(k, round) : k \in {"result_to_offer", "offer", "accept", "result_to_accept"}} \subseteq heard
    BY <1>2 DEF MEstablish, IInv, HolePunchInv, Stages, OfferTaken, ResultTaken, AcceptSent
  <2>2. flags' \subseteq flags \cup {Established[round]} /\ round \in Rounds
    BY <1>2 DEF MEstablish, IInv, HolePunchInv, TypeOK, Places
  <2>3. \A r \in Rounds : Established[r] = Established[round] => r = round
    BY <2>2 DEF Established, Rounds
  <2> QED
    BY <1>1, <2>1, <2>2, <2>3 DEF IInv, EstablishedIsAgreed
<1>3. CASE MGotCreate \/ MGotStart \/ MGotOffer \/ WConnect \/ MDeleted \/ WExit
  <2>1. \A r \in Rounds : Established[r] \notin {"created", "client_joined", "console_joined",
            "customdata1_received", "ctrl_offer_received", "data_offer_received", "deleted",
            "ws_open", "ws_failed"}
    BY DEF Established, Rounds
  <2>2. flags' \subseteq flags \cup {"created", "client_joined", "console_joined",
            "customdata1_received", "ctrl_offer_received", "data_offer_received", "deleted",
            "ws_open", "ws_failed"}
    <3>1. CASE MGotCreate
      <4>1. notif.kind \in Wanted["create"]
        BY <3>1, FirstIs DEF MGotCreate, IInv, HolePunchInv, TypeOK, Notified, GotIsQueued
      <4> QED
        BY <3>1, <4>1, WantedKinds DEF MGotCreate, Flag
    <3>2. CASE MGotStart
      <4>1. notif.kind \in Wanted["start"]
        BY <3>2, FirstIs DEF MGotStart, IInv, HolePunchInv, TypeOK, Notified, GotIsQueued
      <4> QED
        BY <3>2, <4>1, WantedKinds DEF MGotStart, Flag
    <3>3. CASE MGotOffer
      BY <3>3 DEF MGotOffer, OfferFlag, IInv, HolePunchInv, TypeOK, Places, Rounds
    <3> QED
      BY <1>3, <3>1, <3>2, <3>3 DEF WConnect, MDeleted, WExit
  <2> QED
    BY <1>1, <2>1, <2>2 DEF IInv, EstablishedIsAgreed
<1>4. CASE ~(MGotCreate \/ MGotStart \/ MGotOffer \/ WConnect \/ MDeleted \/ WExit \/ MEstablish)
  <2>1. flags' = flags
    BY <1>4 DEF Next, Main, Ws, vars, MCreate, MOpening, MOpenWoken, MOpenTimeout, MOpened,
       MHttpCreate, MScan, MExpire, MWoken, MExpired, MCheckCreate, FreesState, MOffer,
       MHttpStart, MCheckStart, Started, MGotOther, MGotWrongResult, AckGoesOn, MGotEnd,
       MSendOffer, MGotResult, MCheckCandidates, MSendAccept, MGotAccept, MLastProbe,
       MSession, MFini, MStopWs, MJoinWs, WAnswer, WPublish, NoMsg, WStop, WReceive, WLost,
       Console, Rounds, ACancel
  <2> QED
    BY <1>1, <2>1 DEF IInv, EstablishedIsAgreed
<1> QED
  BY <1>2, <1>3, <1>4

\* Whoever closes ipv4_sock closes a socket nobody was given.
LEMMA HandedSocketStaysOpenStep == IInv /\ [Next]_vars => HandedSocketStaysOpen'
<1> SUFFICES ASSUME IInv, [Next]_vars PROVE HandedSocketStaysOpen'
  OBVIOUS
<1> USE DEF IInv, HolePunchInv, HandedSocketStaysOpen, TypeOK, SocketTypes
<1>1. CASE CloseV4
  <2>1. v4 # NoSock => \A r \in Rounds : handed[r] # v4
    BY DEF Sockets, Rounds, NoSock
  <2> QED
    BY <1>1, <2>1 DEF CloseV4
<1>2. CASE MEstablish /\ ~CloseV4
  <2>1. open' = open /\ handed' = [handed EXCEPT ![round] = chosen]
    BY <1>2 DEF MEstablish
  <2> QED
    BY <2>1
<1>3. CASE ~MEstablish /\ ~CloseV4
  <2>1. handed' = handed /\ open \subseteq open'
    BY <1>3 DEF Next, Main, Ws, vars, MCreate, MOpening, MOpenWoken, MOpenTimeout, MOpened,
       MHttpCreate, MScan, MExpire, MWoken, LeaveWait, MExpired, MGotCreate, MCheckCreate,
       FreesState, MOffer, MHttpStart, MGotStart, MCheckStart, MGotOther, MGotWrongResult,
       MGotEnd, MGotOffer, MSendOffer, MGotResult, MCheckCandidates, GiveUpV4, NoSock,
       MSendAccept, MGotAccept, MLastProbe, MSession, MFini, MDeleted, MStopWs, MJoinWs,
       WConnect, WAnswer, WPublish, NoMsg, WStop, WExit, WReceive, WLost, Console, Rounds,
       ACancel
  <2> QED
    BY <2>1
<1> QED
  BY <1>1, <1>2, <1>3

\* chiaki_holepunch_session_init leaves a session in which all of this holds.
LEMMA InitInv == Init => IInv
<1> SUFFICES ASSUME Init PROVE IInv
  OBVIOUS
<1> USE DEF Init
<1>1. TypeOK
  <2>1. Places /\ WsPlaces /\ Locks
    BY Calls DEF Places, WsPlaces, Locks, Connecting, Rounds
  <2>2. Notified
    BY MsgIs DEF Notified, NoMsg, Kinds
  <2>3. SocketTypes
    BY DEF SocketTypes, Rounds, NoSock
  <2> QED
    BY <2>1, <2>2, <2>3 DEF TypeOK
<1>2. \A m : Queued(m) <=> FALSE
  BY DEF Queued
<1>3. \A m : UnderWay(m) <=> m = NoMsg
  BY <1>2 DEF UnderWay
<1>4. GotIsQueued /\ NoThreadAfterFini
  BY DEF GotIsQueued, NoThreadAfterFini
<1>5. Reasons
  BY <1>3, MsgIs DEF Reasons, NoMsg
<1>6. Stages
  BY DEF Stages, OfferTaken, ResultTaken, AcceptSent, Waiting, InWait
<1>7. Order
  BY <1>2, <1>3, MsgIs DEF Order, NoMsg, Behind
<1>8. Sockets
  BY DEF Sockets, NotOpened, Unanswered, AcceptSent, Waiting, InWait, NoSock, Rounds
<1>9. EstablishedIsAgreed /\ HandedSocketStaysOpen
  BY DEF EstablishedIsAgreed, HandedSocketStaysOpen, NoSock
<1> QED
  BY <1>1, <1>4, <1>5, <1>6, <1>7, <1>8, <1>9 DEF IInv, HolePunchInv

\* IInv is inductive.
LEMMA NextInv == IInv /\ [Next]_vars => IInv'
<1> SUFFICES ASSUME IInv, [Next]_vars PROVE IInv'
  OBVIOUS
<1>1. TypeOK'
  BY PlacesStep, WsPlacesStep, LocksStep, NotifiedStep, SocketTypesStep DEF TypeOK
<1>2. NoThreadAfterFini'
  <2>1. mpc' = "done" => (mpc = "done" \/ MJoinWs)
    BY DEF Next, Main, Ws, vars, MCreate, MOpening, MOpenWoken, MOpenTimeout, MOpened,
       MHttpCreate, MScan, MExpire, MWoken, LeaveWait, MExpired, MGotCreate, MCheckCreate,
       FreesState, MOffer, MHttpStart, MGotStart, Started, MCheckStart, MGotOther,
       MGotWrongResult, MGotEnd, MGotOffer, MSendOffer, MGotResult, MCheckCandidates,
       MSendAccept, MGotAccept, MEstablish, MLastProbe, MSession, MFini, MDeleted, MStopWs,
       MJoinWs, WConnect, Signal, WAnswer, WPublish, NoMsg, WStop, WExit, WReceive, WLost,
       Console, Rounds, ACancel
  <2>2. (mpc = "done" \/ MJoinWs) /\ wpc \in {"none", "ended"} => wpc' = wpc
    BY DEF Next, Main, Ws, vars, MCreate, MOpening, MOpenWoken, MOpenTimeout, MOpened,
       MHttpCreate, MScan, MExpire, MWoken, MExpired, MGotCreate, MCheckCreate, FreesState,
       MOffer, MHttpStart, MGotStart, MCheckStart, MGotOther, MGotWrongResult, MGotEnd,
       MGotOffer, MSendOffer, MGotResult, MCheckCandidates, MSendAccept, MGotAccept,
       MEstablish, MLastProbe, MSession, MFini, MDeleted, MStopWs, MJoinWs, WConnect,
       WAnswer, WPublish, NoMsg, WStop, WExit, WReceive, Receive, WLost, Console, Rounds,
       COffer, Says, CRepeat, Extra, CResult, CAccept, CStray, ACancel
  <2>3. mpc = "done" \/ MJoinWs => wpc \in {"none", "ended"}
    BY DEF IInv, HolePunchInv, TypeOK, WsPlaces, NoThreadAfterFini, MJoinWs, WsJoined
  <2> QED
    BY <2>1, <2>2, <2>3 DEF NoThreadAfterFini
<1>3. GotIsQueued' /\ Reasons' /\ Stages' /\ Order' /\ Sockets'
  BY GotIsQueuedStep, ReasonsStep, StagesStep, OrderStep, SocketsStep
<1> QED
  BY <1>1, <1>2, <1>3, EstablishedIsAgreedStep, HandedSocketStaysOpenStep DEF IInv, HolePunchInv

\* IInv holds in every reachable state.
LEMMA Invariance == Spec => []IInv
<1> QED
  BY InitInv, NextInv, PTL DEF Spec

\* HolePunchInv: the types, how far both sides are in the exchange, what is still under way,
\* which socket ipv4_sock names, and no websocket thread after chiaki_holepunch_session_fini.
THEOREM SessionSafe == Spec => []HolePunchInv
<1>1. IInv => HolePunchInv
  BY DEF IInv
<1> QED
  BY <1>1, Invariance, PTL

\* No hole is established by a message that is not of its own round.
THEOREM ExchangeSafe == Spec => []EstablishedIsAgreed
<1>1. IInv => EstablishedIsAgreed
  BY DEF IInv
<1> QED
  BY <1>1, Invariance, PTL

\* The socket that ctrl or takion uses is closed by no cleanup of punch_hole.
THEOREM SocketSafe == Spec => []HandedSocketStaysOpen
<1>1. IInv => HandedSocketStaysOpen
  BY DEF IInv
<1> QED
  BY <1>1, Invariance, PTL
=============================================================================
