------------------------------ MODULE HolePunch ------------------------------
(***************************************************************************)
(* The PSN hole punching session of lib/src/remote/holepunch.c: the main   *)
(* thread that creates a remote play session on the PSN server, starts the *)
(* console, exchanges OFFER, RESULT and ACCEPT with it once for the ctrl   *)
(* and once for the data socket, and finalizes; the websocket thread that  *)
(* receives the notifications and queues them; the user who cancels; and   *)
(* the server and the console, which are external.                         *)
(*                                                                         *)
(* stop_mutex and notif_mutex protect short sections and are folded into   *)
(* the actions; state_mutex is a variable because the main thread keeps it *)
(* over an HTTP request, and on some paths when it returns.                *)
(***************************************************************************)
EXTENDS Naturals, Sequences, SequencesExt

CONSTANTS
    MaxCancels,   \* calls of chiaki_holepunch_main_thread_cancel
    MaxExtras     \* messages of the console outside the plain exchange: an OFFER again,
                  \* a RESULT with a request id nobody waits for, a TERMINATE

ASSUME BoundsAssumption == MaxCancels \in Nat /\ MaxExtras \in Nat

VARIABLES
    mpc,        \* where the main thread is
    call,       \* what its notification wait is for
    round,      \* 1: the ctrl socket, 2: the data socket
    flags,      \* session->state
    stateHeld,  \* the main thread holds state_mutex
    mainStop,   \* main_should_stop
    wsStop,     \* ws_thread_should_stop, with the select pipe
    wsCreated,  \* ws_thread_created
    wsOpen,     \* ws_open
    wpc,        \* where the websocket thread is
    wnotif,     \* the notification it handles
    queue,      \* ws_notification_queue
    open,       \* open sockets, named by the round they were opened for
    v4,         \* ipv4_sock
    chosen,     \* the local variable sock of punch_hole
    handed,     \* ctrl_sock and data_sock, by round
    due,        \* notifications of the server that are under way, in any order
    said,       \* what the console has sent, and that it was started
    heard,      \* the session messages of ours the console has received
    extras, cancels

mVars == <<mpc, call, round>>
sVars == <<flags, stateHeld>>
stopVars == <<mainStop, wsStop, cancels>>
wVars == <<wsCreated, wsOpen, wpc, wnotif>>
sockVars == <<open, v4, chosen, handed>>
netVars == <<due, said, extras>>
vars == <<mVars, sVars, stopVars, wVars, queue, sockVars, netVars, heard>>

Rounds == {1, 2}
NoSock == 0
Msg(kind, n) == [kind |-> kind, of |-> n]
NoMsg == Msg("none", 0)

\* Notification types, and the session messages they may carry; "of" is the round
\* of an OFFER or ACCEPT, and of a RESULT the round of our OFFER it answers (0: no OFFER of ours).
Messages == {"offer", "result", "accept", "terminate"}
Wanted == [create |-> {"created", "member"}, start |-> {"member", "data1"},
           offer |-> Messages, ack |-> Messages, accept |-> Messages,
           delete |-> {"member_deleted", "session_deleted"}]

OfferFlag == <<"ctrl_offer_received", "data_offer_received">>
Established == <<"ctrl_established", "data_established">>

\* The calls that a user may cancel.
Connecting == {"new", "opening", "openW", "openWoken", "openTimeout", "joinTimeout", "opened",
               "httpCreate", "checkCreate", "offering", "httpStart", "checkStart",
               "sendOffer", "checkCandidates", "sendAccept", "ackAccept", "lastProbe"}
InWait == mpc \in {"scan", "wait", "woken", "expired", "got"}
InCall == mpc \in Connecting \/ (InWait /\ call # "delete")

Init ==
    /\ mpc = "new" /\ call = "create" /\ round = 1
    /\ flags = {} /\ stateHeld = FALSE
    /\ mainStop = FALSE /\ wsStop = FALSE /\ cancels = 0
    /\ wsCreated = FALSE /\ wsOpen = FALSE /\ wpc = "none" /\ wnotif = NoMsg
    /\ queue = <<>>
    /\ open = {} /\ v4 = NoSock /\ chosen = NoSock /\ handed = [r \in Rounds |-> NoSock]
    /\ due = {} /\ said = {} /\ heard = {} /\ extras = 0

(***************************************************************************)
(* Leaving a call: the caller finalizes after any failure. A cancel that a *)
(* check sees is consumed there.                                           *)
(***************************************************************************)
Fails == mpc' = "fini" /\ UNCHANGED <<call, round>>
Goto(pc) == mpc' = pc /\ UNCHANGED <<call, round>>
WaitFor(c) == mpc' = "scan" /\ call' = c /\ UNCHANGED round

Canceled == mainStop /\ mainStop' = FALSE /\ UNCHANGED <<wsStop, cancels>>
NotCanceled == ~mainStop /\ UNCHANGED stopVars

\* Closing what create_offer opened, on the way out of punch_hole.
CloseV4 == open' = open \ {v4} /\ v4' = NoSock /\ UNCHANGED <<chosen, handed>>

\* A message of ours reaches the console or not; the caller learns "sent" only in the first
\* case, and may see an error in both.
Sent(m) == heard' = heard \cup {m}
MaybeSent(m) == heard' \in {heard, heard \cup {m}}

(***************************************************************************)
(* chiaki_holepunch_session_create                                         *)
(***************************************************************************)
MCreate ==
    /\ mpc = "new"
    /\ \/ Fails /\ UNCHANGED <<stopVars, wVars>>          \* no websocket FQDN, or no thread
       \/ Canceled /\ Fails /\ UNCHANGED wVars
       \/ /\ NotCanceled /\ Goto("opening")
          /\ wsCreated' = TRUE /\ wpc' = "connect" /\ UNCHANGED <<wsOpen, wnotif>>
    /\ UNCHANGED <<sVars, queue, sockVars, netVars, heard>>

MOpening ==
    /\ mpc = "opening" /\ ~stateHeld
    /\ Goto(IF flags \cap {"ws_open", "ws_failed"} # {} THEN "opened" ELSE "openW")
    /\ UNCHANGED <<sVars, stopVars, wVars, queue, sockVars, netVars, heard>>

MOpenWoken ==
    /\ mpc = "openWoken"
    /\ Goto(IF mainStop THEN "opened" ELSE "opening")
    /\ UNCHANGED <<sVars, stopVars, wVars, queue, sockVars, netVars, heard>>

MOpenTimeout ==
    /\ mpc = "openW" /\ Goto("openTimeout")
    /\ UNCHANGED <<sVars, stopVars, wVars, queue, sockVars, netVars, heard>>

MOpened ==
    /\ mpc = "opened"
    /\ \/ Canceled /\ Fails
       \/ NotCanceled /\ "ws_open" \notin flags /\ Fails
       \/ NotCanceled /\ "ws_open" \in flags /\ Goto("httpCreate")
    /\ UNCHANGED <<sVars, wVars, queue, sockVars, netVars, heard>>

\* The server's notifications follow the requests that cause them, in either order.
Announce(kinds) == due' = due \cup {Msg(k, 0) : k \in kinds}

MHttpCreate ==
    /\ mpc = "httpCreate"
    /\ \/ Fails /\ UNCHANGED <<stopVars, due>>
       \/ (Announce({"created", "member"}) /\ \/ Canceled /\ Fails
                                              \/ NotCanceled /\ WaitFor("create"))
    /\ UNCHANGED <<sVars, wVars, queue, sockVars, said, extras, heard>>

(***************************************************************************)
(* wait_for_notification: the first notification of a wanted type stays in *)
(* the queue; a waiter is woken by a signal, which it loses when it is not *)
(* waiting yet, or gives up after the time limit.                          *)
(***************************************************************************)
FirstWanted == SelectInSeq(queue, LAMBDA m : m.kind \in Wanted[call])
notif == queue[FirstWanted]

MScan ==
    /\ mpc = "scan"
    /\ Goto(IF FirstWanted = 0 THEN "wait" ELSE "got")
    /\ UNCHANGED <<sVars, stopVars, wVars, queue, sockVars, netVars, heard>>

MExpire ==
    /\ mpc = "wait" /\ Goto("expired")
    /\ UNCHANGED <<sVars, stopVars, wVars, queue, sockVars, netVars, heard>>

\* clear_notification: the notification the last wait returned leaves the queue.
Clear == queue' = RemoveAt(queue, FirstWanted)

\* A wait that ends without a message: punch_hole's cleanup closes ipv4_sock, except
\* before an OFFER was received; finalizing goes on to stop the thread.
LeaveWait ==
    /\ IF call = "delete" THEN Goto("stopWs") ELSE Fails
    /\ IF call \in {"ack", "accept"} THEN CloseV4 ELSE UNCHANGED sockVars

MWoken ==
    /\ mpc = "woken"
    /\ \/ Canceled /\ LeaveWait
       \/ NotCanceled /\ Goto("scan") /\ UNCHANGED sockVars
    /\ UNCHANGED <<sVars, wVars, queue, netVars, heard>>

MExpired ==
    /\ mpc = "expired" /\ LeaveWait
    /\ UNCHANGED <<sVars, stopVars, wVars, queue, netVars, heard>>

(***************************************************************************)
(* The notifications of session_create and session_start. Both keep        *)
(* state_mutex from the notification to the end of http_check_session, and *)
(* return with it locked when they are canceled in between; session_create *)
(* also when the notification does not parse.                              *)
(***************************************************************************)
Flag == [created |-> "created", member |-> IF call = "create" THEN "client_joined" ELSE "console_joined",
         data1 |-> "customdata1_received"]

MGotCreate ==
    /\ mpc = "got" /\ call = "create" /\ ~stateHeld
    /\ stateHeld' = TRUE /\ flags' = flags \cup {Flag[notif.kind]}
    /\ \/ Canceled /\ Fails
       \/ notif.kind = "created" /\ Fails /\ UNCHANGED stopVars
       \/ NotCanceled /\ Goto("checkCreate")
    /\ UNCHANGED <<wVars, queue, sockVars, netVars, heard>>

FreesState == stateHeld' = FALSE

MCheckCreate ==
    /\ mpc = "checkCreate"
    /\ FreesState /\ Clear
    /\ IF {"created", "client_joined"} \subseteq flags THEN Goto("offering") ELSE Goto("scan")
    /\ UNCHANGED <<flags, stopVars, wVars, sockVars, netVars, heard>>

\* session_start is over; punch_hole refuses to begin without customData1.
Started == IF "customdata1_received" \in flags THEN WaitFor("offer") ELSE Fails

\* A member that is not the console leaves the loop, with the error lost in a shadowed err.
MGotStart ==
    /\ mpc = "got" /\ call = "start" /\ ~stateHeld
    /\ \/ Fails /\ UNCHANGED <<sVars, stopVars, queue>>      \* does not parse
       \/ notif.kind = "member" /\ Started /\ UNCHANGED <<sVars, stopVars, queue>>
       \/ /\ flags' = flags \cup {Flag[notif.kind]} /\ stateHeld' = TRUE /\ Clear
          /\ \/ Canceled /\ Fails
             \/ NotCanceled /\ Goto("checkStart")
    /\ UNCHANGED <<wVars, sockVars, netVars, heard>>

MCheckStart ==
    /\ mpc = "checkStart"
    /\ FreesState
    /\ IF {"console_joined", "customdata1_received"} \subseteq flags THEN Started ELSE Goto("scan")
    /\ UNCHANGED <<flags, stopVars, wVars, queue, sockVars, netVars, heard>>

\* chiaki_holepunch_session_start up to its first wait.
MHttpStart ==
    /\ mpc = "httpStart"
    /\ \/ Fails /\ UNCHANGED <<stopVars, due, said>>
       \/ /\ Announce({"member", "data1"}) /\ said' = said \cup {Msg("started", 1)}
          /\ \/ Canceled /\ Fails
             \/ NotCanceled /\ WaitFor("start")
    /\ UNCHANGED <<sVars, wVars, queue, sockVars, extras, heard>>

(***************************************************************************)
(* holepunch_session_create_offer, once a round: STUN or UPnP may fail,    *)
(* which closes the socket again.                                          *)
(***************************************************************************)
MOffer ==
    /\ mpc = "offering"
    /\ \/ Fails /\ UNCHANGED sockVars
       \/ /\ IF round = 1 THEN Goto("httpStart") ELSE WaitFor("offer")
          /\ open' = open \cup {round} /\ v4' = round /\ UNCHANGED <<chosen, handed>>
    /\ UNCHANGED <<sVars, stopVars, wVars, queue, netVars, heard>>

(***************************************************************************)
(* wait_for_session_message and wait_for_session_message_ack: a message    *)
(* with another action is cleared, the awaited one stays in the queue.     *)
(***************************************************************************)
Action == [offer |-> "offer", ack |-> "result", accept |-> "accept"]
GotMessage == mpc = "got" /\ call \in DOMAIN Action

\* mutant: any RESULT will do
AnyResult(m) == TRUE
\* the RESULT of the OFFER we sent in this round
Answers(m) == m.of = round

MGotOther ==
    /\ GotMessage /\ notif.kind \notin {"terminate", Action[call]}
    /\ NotCanceled /\ Clear /\ Goto("scan")
    /\ UNCHANGED <<sVars, wVars, sockVars, netVars, heard>>

\* mutant: the wait for a RESULT does not look at main_should_stop
AckIgnoresCancel == UNCHANGED stopVars
\* the wait goes on after a RESULT with another id, which stays in the queue
AckGoesOn == NotCanceled

MGotWrongResult ==
    /\ GotMessage /\ call = "ack" /\ notif.kind = "result" /\ ~Answers(notif)
    /\ AckGoesOn /\ Goto("scan")
    /\ UNCHANGED <<sVars, wVars, queue, sockVars, netVars, heard>>

MGotEnd ==
    /\ GotMessage
    /\ \/ Canceled
       \/ NotCanceled           \* TERMINATE, or the message does not parse
    /\ LeaveWait
    /\ UNCHANGED <<sVars, wVars, queue, netVars, heard>>

\* The console's OFFER: note it and answer it.
MGotOffer ==
    /\ GotMessage /\ call = "offer" /\ notif.kind = "offer" /\ ~stateHeld /\ ~mainStop
    /\ flags' = flags \cup {OfferFlag[round]}
    /\ \/ Sent(Msg("result_to_offer", notif.of)) /\ Goto("sendOffer") /\ UNCHANGED sockVars
       \/ MaybeSent(Msg("result_to_offer", notif.of)) /\ Fails /\ CloseV4
    /\ UNCHANGED <<stateHeld, stopVars, wVars, queue, netVars>>

\* Our OFFER; whether it was sent is not looked at.
MSendOffer ==
    /\ mpc = "sendOffer"
    /\ \/ Canceled /\ Fails /\ CloseV4 /\ UNCHANGED heard
       \/ NotCanceled /\ MaybeSent(Msg("offer", round)) /\ WaitFor("ack") /\ UNCHANGED sockVars
    /\ UNCHANGED <<sVars, wVars, queue, netVars>>

MGotResult ==
    /\ GotMessage /\ call = "ack" /\ notif.kind = "result" /\ Answers(notif)
    /\ NotCanceled /\ Goto("checkCandidates")
    /\ UNCHANGED <<sVars, wVars, queue, sockVars, netVars, heard>>

\* mutant: ipv4_sock keeps naming the socket that was given away
KeepV4 == UNCHANGED v4
\* check_candidates: the socket that answered belongs to the caller from here on.
GiveUpV4 == v4' = NoSock

MCheckCandidates ==
    /\ mpc = "checkCandidates"
    /\ \/ Fails /\ CloseV4
       \/ Goto("sendAccept") /\ chosen' = v4 /\ GiveUpV4 /\ UNCHANGED <<open, handed>>
    /\ UNCHANGED <<sVars, stopVars, wVars, queue, netVars, heard>>

MSendAccept ==
    /\ mpc = "sendAccept"
    /\ \/ Canceled /\ Fails /\ CloseV4 /\ MaybeSent(Msg("accept", round))
       \/ NotCanceled /\ MaybeSent(Msg("accept", round)) /\ Fails /\ CloseV4
       \/ NotCanceled /\ Sent(Msg("accept", round)) /\ WaitFor("accept") /\ UNCHANGED sockVars
    /\ UNCHANGED <<sVars, wVars, queue, netVars>>

\* The console's ACCEPT: answer it.
MGotAccept ==
    /\ GotMessage /\ call = "accept" /\ notif.kind = "accept" /\ NotCanceled
    /\ \/ Sent(Msg("result_to_accept", notif.of)) /\ Goto("ackAccept") /\ UNCHANGED sockVars
       \/ MaybeSent(Msg("result_to_accept", notif.of)) /\ Fails /\ CloseV4
    /\ UNCHANGED <<sVars, wVars, queue, netVars>>

\* The hole is established and the socket handed over.
MEstablish ==
    /\ mpc = "ackAccept" /\ ~stateHeld
    /\ \/ Canceled /\ Fails /\ CloseV4 /\ UNCHANGED flags
       \/ /\ NotCanceled /\ Goto("lastProbe")
          /\ flags' = flags \cup {Established[round]}
          /\ handed' = [handed EXCEPT ![round] = chosen] /\ UNCHANGED <<open, v4, chosen>>
    /\ UNCHANGED <<stateHeld, wVars, queue, netVars, heard>>

\* The last probes of the console. After the ctrl round the session thread runs, and
\* starts the data round or ends; after the data round it streams and ends.
MLastProbe ==
    /\ mpc = "lastProbe"
    /\ \/ Canceled /\ Fails /\ CloseV4
       \/ NotCanceled /\ Fails /\ CloseV4
       \/ NotCanceled /\ Goto("punched") /\ UNCHANGED sockVars
    /\ UNCHANGED <<sVars, wVars, queue, netVars, heard>>

MSession ==
    /\ mpc = "punched"
    /\ \/ round = 1 /\ mpc' = "offering" /\ round' = 2 /\ UNCHANGED call
       \/ Fails
    /\ UNCHANGED <<sVars, stopVars, wVars, queue, sockVars, netVars, heard>>

(***************************************************************************)
(* chiaki_holepunch_session_fini and stop_websocket_thread                 *)
(***************************************************************************)
MFini ==
    /\ mpc = "fini" /\ ~stateHeld
    /\ IF wsOpen /\ wsCreated
       THEN WaitFor("delete") /\ (UNCHANGED due \/ Announce({"member_deleted", "session_deleted"}))
       ELSE Goto("stopWs") /\ UNCHANGED due
    /\ UNCHANGED <<sVars, stopVars, wVars, queue, sockVars, said, extras, heard>>

MDeleted ==
    /\ mpc = "got" /\ call = "delete" /\ ~stateHeld
    /\ flags' = flags \cup {"deleted"} /\ Clear /\ Goto("stopWs")
    /\ UNCHANGED <<stateHeld, stopVars, wVars, sockVars, netVars, heard>>

MStopWs ==
    /\ mpc \in {"stopWs", "openTimeout"}
    /\ wsStop' = (wsStop \/ wsCreated) /\ UNCHANGED <<mainStop, cancels>>
    /\ Goto(IF mpc = "stopWs" THEN "joinWs" ELSE "joinTimeout")
    /\ UNCHANGED <<sVars, wVars, queue, sockVars, netVars, heard>>

\* mutant: a thread that is still connecting is not waited for
WsLeft == ~wsCreated \/ ~wsOpen
WsJoined == ~wsCreated \/ wpc = "ended"

MJoinWs ==
    /\ mpc \in {"joinWs", "joinTimeout"} /\ WsJoined
    /\ wsCreated' = FALSE /\ UNCHANGED <<wsOpen, wpc, wnotif>>
    /\ Goto(IF mpc = "joinWs" THEN "done" ELSE "fini")
    /\ UNCHANGED <<sVars, stopVars, queue, sockVars, netVars, heard>>

(***************************************************************************)
(* websocket_thread_func                                                   *)
(***************************************************************************)
\* A signal reaches the main thread only while it waits on that condition.
Signal(waiting, woken) ==
    /\ mpc' = IF mpc = waiting THEN woken ELSE mpc
    /\ UNCHANGED <<call, round>>

WConnect ==
    /\ wpc = "connect"
    /\ \/ /\ ~stateHeld /\ wpc' = "recv" /\ wsOpen' = TRUE
          /\ flags' = flags \cup {"ws_open"} /\ Signal("openW", "openWoken")
       \/ wpc' = "exiting" /\ UNCHANGED <<flags, wsOpen, mVars>>   \* failed, or aborted by a stop
       \/ wpc' = "ended" /\ UNCHANGED <<flags, wsOpen, mVars>>     \* curl_easy_init failed
    /\ UNCHANGED <<wsCreated, wnotif, stateHeld, stopVars, queue, sockVars, netVars, heard>>

\* Offers are answered here while the main thread does not wait for one.
AnswersOffers ==
    \/ {OfferFlag[1], Established[1]} \cap flags = {OfferFlag[1]}
    \/ OfferFlag[2] \in flags

\* A notification arrives: one of the server's, or what the console says now.
Receive(m) ==
    /\ wpc = "recv" /\ ~wsStop /\ ~stateHeld
    /\ wnotif' = m
    /\ wpc' = IF m.kind = "offer" /\ AnswersOffers THEN "answer" ELSE "publish"

WReceive ==
    /\ \E m \in due : Receive(m) /\ due' = due \ {m}
    /\ UNCHANGED <<mVars, sVars, stopVars, wsCreated, wsOpen, queue, sockVars, said, extras, heard>>

WAnswer ==
    /\ wpc = "answer" /\ wpc' = "publish"
    /\ MaybeSent(Msg("result_to_offer", wnotif.of))
    /\ UNCHANGED <<mVars, sVars, stopVars, wsCreated, wsOpen, wnotif, queue, sockVars, netVars>>

WPublish ==
    /\ wpc = "publish"
    /\ queue' = Append(queue, wnotif) /\ Signal("wait", "woken")
    /\ wpc' = IF wnotif.kind = "session_deleted" THEN "exiting" ELSE "recv"
    /\ wnotif' = NoMsg
    /\ UNCHANGED <<sVars, stopVars, wsCreated, wsOpen, sockVars, netVars, heard>>

\* The loop ends when it is told to, and when the connection fails.
WStop ==
    /\ wpc = "recv" /\ wsStop /\ wpc' = "exiting"
    /\ UNCHANGED <<mVars, sVars, stopVars, wsCreated, wsOpen, wnotif, queue, sockVars, netVars, heard>>

WLost ==
    /\ wpc = "recv" /\ ~wsStop /\ wpc' = "exiting"
    /\ UNCHANGED <<mVars, sVars, stopVars, wsCreated, wsOpen, wnotif, queue, sockVars, netVars, heard>>

WExit ==
    /\ wpc = "exiting" /\ ~stateHeld
    /\ wpc' = "ended" /\ wsOpen' = FALSE
    /\ IF "ws_open" \in flags THEN UNCHANGED <<flags, mVars>>
       ELSE flags' = flags \cup {"ws_failed"} /\ Signal("openW", "openWoken")
    /\ UNCHANGED <<wsCreated, wnotif, stateHeld, stopVars, queue, sockVars, netVars, heard>>

(***************************************************************************)
(* chiaki_holepunch_main_thread_cancel, from the user's thread, which also *)
(* finalizes later                                                         *)
(***************************************************************************)
ACancel(stopThread) ==
    /\ cancels < MaxCancels /\ cancels' = cancels + 1
    /\ InCall \/ mpc = "punched"
    /\ mainStop' = TRUE /\ wsStop' = (wsStop \/ stopThread)
    /\ mpc' = CASE mpc = "wait" -> "woken"
                [] mpc = "openW" -> "openWoken"
                [] OTHER -> mpc
    /\ UNCHANGED <<call, round, sVars, wVars, queue, sockVars, netVars, heard>>

(***************************************************************************)
(* The console (external). It sends the ctrl OFFER when it has joined, the *)
(* data OFFER when the ctrl round is over for it, may repeat an OFFER      *)
(* until it has accepted, and may accept before it has heard ours. What it *)
(* may say depends on what it has heard, which only grows: a message that  *)
(* is delivered later is one that is said later. What arrives once the     *)
(* session is finalized changes nothing.                                   *)
(***************************************************************************)
Says(m) == Receive(m) /\ said' = said \cup {m}

COffer(r) ==
    /\ Msg("offer", r) \notin said
    /\ IF r = 1 THEN Msg("started", 1) \in said ELSE Msg("result_to_accept", 1) \in heard
    /\ Says(Msg("offer", r)) /\ UNCHANGED extras

CResult(r) ==
    /\ Msg("offer", r) \in heard /\ Msg("result", r) \notin said
    /\ Says(Msg("result", r)) /\ UNCHANGED extras

CAccept(r) ==
    /\ Msg("offer", r) \in said /\ Msg("accept", r) \notin said
    /\ Says(Msg("accept", r)) /\ UNCHANGED extras

Extra(m) == extras < MaxExtras /\ extras' = extras + 1 /\ Says(m)

CRepeat(r) ==
    /\ Msg("offer", r) \in said /\ Msg("accept", r) \notin said
    /\ Extra(Msg("offer", r))

CStray(kind) == Msg("offer", 1) \in said /\ Extra(Msg(kind, 0))

Console ==
    /\ InCall \/ mpc = "punched"
    /\ \/ \E r \in Rounds : COffer(r) \/ CRepeat(r) \/ CResult(r) \/ CAccept(r)
       \/ \E kind \in {"result", "terminate"} : CStray(kind)
    /\ UNCHANGED <<mVars, sVars, stopVars, wsCreated, wsOpen, queue, sockVars, due, heard>>

Main ==
    \/ MCreate \/ MOpening \/ MOpenWoken \/ MOpenTimeout \/ MOpened \/ MHttpCreate
    \/ MScan \/ MExpire \/ MWoken \/ MExpired
    \/ MGotCreate \/ MCheckCreate \/ MOffer \/ MHttpStart \/ MGotStart \/ MCheckStart
    \/ MGotOther \/ MGotWrongResult \/ MGotEnd \/ MGotOffer \/ MSendOffer \/ MGotResult
    \/ MCheckCandidates \/ MSendAccept \/ MGotAccept \/ MEstablish \/ MLastProbe \/ MSession
    \/ MFini \/ MDeleted \/ MStopWs \/ MJoinWs

Ws == WConnect \/ WAnswer \/ WPublish \/ WStop \/ WExit

Next == Main \/ Ws \/ WReceive \/ WLost \/ Console \/ \E b \in BOOLEAN : ACancel(b)

\* Both threads run on; neither the server nor the console need ever say anything.
Spec == Init /\ [][Next]_vars /\ WF_vars(Main) /\ WF_vars(Ws)

-----------------------------------------------------------------------------
Server == {"created", "member", "data1", "member_deleted", "session_deleted"}
Kinds == {"none"} \cup Server \cup Messages
Notifs == [kind : Kinds, of : 0..2]

Places ==
    /\ mpc \in Connecting \cup {"scan", "wait", "woken", "expired", "got", "punched",
                              "fini", "stopWs", "joinWs", "done"}
    /\ call \in DOMAIN Wanted /\ round \in Rounds
WsPlaces ==
    /\ wpc \in {"none", "connect", "recv", "answer", "publish", "exiting", "ended"}
    /\ wsCreated \/ wpc \in {"none", "ended"}
    /\ wsOpen => "ws_open" \in flags
Locks == stateHeld => mpc \in {"checkCreate", "checkStart", "fini"}
Notified ==
    /\ wnotif \in Notifs /\ queue \in Seq(Notifs)
    /\ due \subseteq [kind : Server, of : {0}]
SocketTypes ==
    /\ open \subseteq Rounds /\ {v4, chosen} \subseteq open \cup {NoSock}
    /\ handed \in [Rounds -> Rounds \cup {NoSock}]

TypeOK == Places /\ WsPlaces /\ Locks /\ Notified /\ SocketTypes

\* The notification a wait has returned stays in the queue until it is cleared.
GotIsQueued ==
    /\ mpc = "checkCreate" => call = "create"
    /\ mpc = "checkStart" => call = "start"
    /\ mpc \in {"got", "checkCreate"} =>
           \E i \in DOMAIN queue : queue[i].kind \in Wanted[call]

\* A notification between the console and the main thread.
Queued(m) == \E i \in DOMAIN queue : queue[i] = m
UnderWay(m) == wnotif = m \/ Queued(m)

\* What is under way was said, and what was said was said for a reason.
Reasons ==
    /\ \A r \in 0..2 :
        /\ UnderWay(Msg("offer", r)) => Msg("offer", r) \in said /\ r \in Rounds
        /\ UnderWay(Msg("accept", r)) => Msg("accept", r) \in said /\ r \in Rounds
        /\ UnderWay(Msg("result", r)) => r = 0 \/ Msg("offer", r) \in heard
        /\ Msg("accept", r) \in said => Msg("offer", r) \in said
    /\ Msg("offer", 2) \in said => Msg("result_to_accept", 1) \in heard

\* How far the exchange of a round is.
Waiting(c) == InWait /\ call = c
AcceptSent == Waiting("accept") \/ mpc = "ackAccept"
ResultTaken == mpc \in {"checkCandidates", "sendAccept"} \/ AcceptSent
OfferTaken == mpc = "sendOffer" \/ Waiting("ack") \/ ResultTaken
Closing == mpc \in {"fini", "stopWs", "joinWs", "done"} \/ Waiting("delete")

\* What the console has heard by then, and when the ctrl round is over for it.
Stages ==
    /\ OfferTaken => Msg("result_to_offer", round) \in heard
    /\ ResultTaken => Msg("offer", round) \in heard
    /\ AcceptSent => Msg("accept", round) \in heard
    /\ mpc = "ackAccept" => Msg("result_to_accept", round) \in heard
    /\ mpc \in {"lastProbe", "punched"} \/ round = 2 => Msg("result_to_accept", 1) \in heard
    /\ round = 1 /\ Msg("result_to_accept", 1) \in heard =>
           mpc \in {"ackAccept", "lastProbe", "punched"} \/ Closing

\* Every a in the queue is behind every b.
Behind(a, b) == \A i, j \in DOMAIN queue : queue[i] = a /\ queue[j] = b => j < i

\* Once the ctrl round is over, what is left of it lies in front of the data OFFER, where
\* the wait for that OFFER clears it.
Order ==
    /\ Msg("accept", 1) \in said => wnotif # Msg("offer", 1)
    /\ wnotif = Msg("accept", 1) => ~Queued(wnotif)
    /\ Behind(Msg("accept", 1), Msg("offer", 1))
    /\ Behind(Msg("offer", 2), Msg("accept", 1))
    /\ Msg("result_to_accept", 1) \in heard =>
        /\ Msg("accept", 1) \in said /\ ~UnderWay(Msg("offer", 1))
        /\ wnotif # Msg("accept", 1)
    /\ round = 2 /\ OfferTaken => ~UnderWay(Msg("accept", 1))

\* ipv4_sock names the socket of this round, until that is given away or closed.
NotOpened ==
    \/ mpc \in {"new", "opening", "openW", "openWoken", "openTimeout", "joinTimeout", "opened",
                "httpCreate", "checkCreate", "offering"}
    \/ Waiting("create")
Unanswered ==
    \/ mpc \in {"httpStart", "checkStart", "sendOffer", "checkCandidates"}
    \/ Waiting("start") \/ Waiting("offer") \/ Waiting("ack")
Sockets ==
    /\ v4 \in {NoSock, round} /\ chosen \in 0..round
    /\ NotOpened => v4 = NoSock /\ chosen < round /\ handed[round] = NoSock
    /\ Unanswered => v4 = round
    /\ mpc = "sendAccept" \/ AcceptSent => chosen = round /\ v4 = NoSock
    /\ mpc \in {"lastProbe", "punched"} => v4 = NoSock
    /\ v4 # NoSock => chosen # v4
    /\ \A r \in Rounds : handed[r] # NoSock =>
           handed[r] = r /\ (r < round \/ (r = round /\ v4 = NoSock))

\* When a round is established, the console has our RESULT to its OFFER, our OFFER, our
\* ACCEPT and our RESULT to its ACCEPT, all of that round: no message of the ctrl round,
\* repeated or left in the queue, stands for one of the data round.
EstablishedIsAgreed ==
    \A r \in Rounds : Established[r] \in flags =>
        {Msg(k, r) : k \in {"result_to_offer", "offer", "accept", "result_to_accept"}} \subseteq heard

\* A socket that was handed over as ctrl_sock or data_sock is open from then on, whatever
\* is canceled or fails afterwards: no cleanup closes it a second time through ipv4_sock.
HandedSocketStaysOpen == \A r \in Rounds : handed[r] \in open \cup {NoSock}

\* When finalizing has freed the queue and destroyed the mutexes, the websocket thread is gone.
NoThreadAfterFini == mpc = "done" => wpc \in {"none", "ended"}

\* What holds of the session in every state; with the two properties above it is inductive.
HolePunchInv ==
    TypeOK /\ NoThreadAfterFini /\ GotIsQueued /\ Reasons /\ Stages /\ Order /\ Sockets

\* A cancel ends the call it arrives in, even where a cancel is the only way out.
CancelEnds == mainStop /\ InCall ~> ~InCall
=============================================================================
