---------------------------- MODULE SessionCtrl ----------------------------
(***************************************************************************)
(* A session and its control connection: the session thread               *)
(* (session.c, session_thread_func), the ctrl thread (ctrl.c,              *)
(* ctrl_thread_func), the registration thread that a connection through    *)
(* PSN starts (regist.c, regist_thread_func with regist_cb of session.c),  *)
(* and the application's calls into the session.  Two mutexes protect what *)
(* they share: session->state_mutex and ctrl->notif_mutex.                 *)
(*                                                                         *)
(* One action is what a thread does between two points where another       *)
(* thread can act.  The session thread holds state_mutex in the program    *)
(* points of SHolds and the ctrl thread holds notif_mutex in those of      *)
(* CHolds; every other use of a mutex is taken and released inside one     *)
(* action, whose guard says that the mutex is free.                        *)
(***************************************************************************)
EXTENDS Naturals, FiniteSets

CONSTANTS
    Modes,       \* the kinds of connection checked, out of AllModes
    MaxConsole,  \* messages the console sends on the control connection
    MaxPins,     \* PINs the application enters
    MaxMsgs      \* messages the application queues for the console

AllModes == {"lan", "remote", "holepunch"}

ASSUME SessionCtrlAssumption ==
    /\ Modes \subseteq AllModes
    /\ {MaxConsole, MaxPins, MaxMsgs} \subseteq Nat

VARIABLES
    mode, autoRegist,  \* how the session was set up
    rudp,              \* session->rudp is there
    spc, cpc, rpc,     \* where the session, ctrl and regist threads are
    apc,               \* the application is between the two halves of a send
    sig,               \* a waiter of state_cond has its predicate to test
    shouldStop, ctrlFailed, sessionId, pinRequested, pinEntered,
    switchReceived, registOk, dataSock, reason,
    tries,             \* session requests made, until one settles the matter
    streamStop,        \* stream_connection.should_stop
    ctrlStop, ctrlPin, msgs, notifPipe, \* what ctrl's notif_mutex protects
    connected,         \* the control connection is up
    cRetry,            \* inside ctrl_connect: its request is sent again
    askedPin,          \* ctrl->login_pin_requested
    recvBuf,           \* the message in ctrl->recv_buf, or "none"
    console, pins, queued, \* how often each source has acted
    quits              \* CHIAKI_EVENT_QUIT events sent

setup    == <<mode, autoRegist>>
shared   == <<shouldStop, ctrlFailed, sessionId, pinRequested, pinEntered,
              switchReceived, registOk, dataSock, reason>>
ctrl     == <<ctrlStop, ctrlPin, msgs, notifPipe>>
ctrlOwn  == <<connected, cRetry, askedPin, recvBuf>>
budget   == <<console, pins, queued>>
vars     == <<setup, rudp, spc, cpc, rpc, apc, sig, shared, tries, streamStop,
              ctrl, ctrlOwn, budget, quits>>

-----------------------------------------------------------------------------
Reasons == {"none", "stopped", "request", "ctrl_unknown", "ctrl_connect",
            "regist", "disconnected", "timeout", "stream_unknown"}
Kinds   == {"session_id", "bad_session_id", "pin_request", "pin_incorrect",
            "login_success", "switch", "overflow"}

\* The waits of the session thread: state_mutex is free while it is in one.
Waits   == {"registWait", "settle", "ctrlWait", "pinWait", "answerWait",
            "punchWait", "remoteWait", "switchWait"}
SFree   == {"start", "requesting", "fallback", "streaming", "ctrlStop",
            "ctrlJoin", "quit", "done"}
SBusy   == {"registJoin", "request", "pinForward", "data", "senkusha"}
SHolds  == spc \in SBusy

CBusy   == {"connect", "http", "failInner", "failConnect", "loop", "sid",
            "failLoop", "drain", "failEnd"}
CFree   == {"off", "tcp", "select", "sendMsg", "sendPin", "ended", "joined"}
CHolds  == cpc \in CBusy

Places ==
    /\ spc \in Waits \cup SFree \cup SBusy
    /\ cpc \in CBusy \cup CFree
    /\ rpc \in {"off", "net", "ok", "failed", "ended", "joined"}
    /\ apc \in {"idle", "raise"}
SessionFlags ==
    /\ sig \in BOOLEAN /\ shouldStop \in BOOLEAN /\ ctrlFailed \in BOOLEAN
WaitFlags ==
    /\ streamStop \in BOOLEAN
    /\ pinRequested \in BOOLEAN /\ pinEntered \in BOOLEAN /\ switchReceived \in BOOLEAN
    /\ registOk \in BOOLEAN /\ dataSock \in BOOLEAN
CtrlFlags ==
    /\ ctrlStop \in BOOLEAN /\ ctrlPin \in BOOLEAN /\ notifPipe \in BOOLEAN
    /\ connected \in BOOLEAN /\ cRetry \in BOOLEAN /\ askedPin \in BOOLEAN
Values ==
    /\ mode \in Modes /\ autoRegist \in BOOLEAN /\ rudp \in BOOLEAN
    /\ sessionId \in {"none", "console", "fallback"}
    /\ reason \in Reasons
    /\ recvBuf \in Kinds \cup {"none"}
Counts ==
    /\ tries \in 0..3 /\ quits \in 0..1
    /\ console \in 0..MaxConsole /\ pins \in 0..MaxPins
    /\ queued \in 0..MaxMsgs /\ msgs \in 0..queued
TypeOK == Places /\ SessionFlags /\ WaitFlags /\ CtrlFlags /\ Values /\ Counts

\* chiaki_session_init, then chiaki_session_start.
Init ==
    /\ mode \in Modes
    /\ autoRegist \in (IF mode = "lan" THEN {FALSE} ELSE BOOLEAN)
    /\ rudp = FALSE
    /\ spc = "start" /\ cpc = "off" /\ rpc = "off" /\ apc = "idle"
    /\ sig = FALSE
    /\ shouldStop = FALSE /\ ctrlFailed = FALSE /\ sessionId = "none"
    /\ pinRequested = FALSE /\ pinEntered = FALSE /\ switchReceived = FALSE
    /\ registOk = FALSE /\ dataSock = FALSE /\ reason = "none"
    /\ tries = 0 /\ streamStop = FALSE
    /\ ctrlStop = FALSE /\ ctrlPin = FALSE /\ msgs = 0 /\ notifPipe = FALSE
    /\ connected = FALSE /\ cRetry = FALSE /\ askedPin = FALSE
    /\ recvBuf = "none"
    /\ console = 0 /\ pins = 0 /\ queued = 0 /\ quits = 0

-----------------------------------------------------------------------------
(* Waiting on state_cond.                                                  *)

\* The test of each wait.
CheckState  == shouldStop \/ ctrlFailed
CtrlStarted == CheckState \/ sessionId # "none" \/ pinRequested
RegistEnded == CheckState \/ registOk
\* mutant: the wait for the PIN forgets the stop.
PinGivenNoStop == ctrlFailed \/ pinEntered
PinGiven    == CheckState \/ pinEntered
Switched    == CheckState \/ switchReceived
RemoteData  == shouldStop \/ dataSock

Pred(pc) == CASE pc = "registWait" -> RegistEnded
              [] pc = "settle"     -> CheckState
              [] pc \in {"ctrlWait", "answerWait", "punchWait"} -> CtrlStarted
              [] pc = "pinWait"    -> PinGiven
              [] pc = "remoteWait" -> RemoteData
              [] pc = "switchWait" -> Switched

\* A wait begins with a test of its predicate; another follows each signal.
WaitIn(pc) == spc' = pc /\ sig' = TRUE
GoTo(pc)   == spc' = pc /\ sig' = FALSE
Signal     == sig' = (spc \in Waits)

Woken(pc)    == spc = pc /\ sig /\ Pred(pc)
\* The wait for the PIN has no time limit.
TimedOut(pc) == spc = pc /\ pc # "pinWait"

\* The predicate is tested and does not hold.
SWaitOn ==
    /\ spc \in Waits /\ sig /\ ~Pred(spc)
    /\ sig' = FALSE
    /\ UNCHANGED <<setup, rudp, spc, cpc, rpc, apc, shared, tries, streamStop,
                   ctrl, ctrlOwn, budget, quits>>

-----------------------------------------------------------------------------
(* The session thread.                                                     *)

SKeep     == UNCHANGED <<setup, apc, streamStop, ctrlOwn, budget>>
KeepCtrl  == UNCHANGED <<cpc, ctrl>>
\* All of the shared fields but quit_reason.
KeepFlags == UNCHANGED <<shouldStop, ctrlFailed, sessionId, pinRequested,
                         pinEntered, switchReceived, registOk, dataSock>>
\* What most steps of the session thread leave alone.
SOnly     == SKeep /\ KeepCtrl /\ UNCHANGED <<rudp, rpc, tries, quits>>

ExitTo(pc, r) == GoTo(pc) /\ reason' = r
Go(pc)        == GoTo(pc) /\ UNCHANGED reason
Wait(pc)      == WaitIn(pc) /\ UNCHANGED reason

\* mutant: leaves by the label that does not wait for the ctrl thread.
ExitWithoutJoin == ExitTo("quit", IF reason = "none" THEN "ctrl_unknown" ELSE reason)
\* The label ctrl_failed.
CtrlFailedExit == ExitTo("ctrlStop", IF reason = "none" THEN "ctrl_unknown" ELSE reason)

\* What follows the registration: CHECK_STOP(quit), the end of an automatic
\* registration, or the session request.
AfterRegist == IF shouldStop \/ autoRegist THEN ExitTo("quit", "stopped")
                                           ELSE Go("request")

\* The first stop test, chiaki_rudp_init, which may fail, and the start of
\* the registration of a connection through PSN.
SStart ==
    /\ spc = "start"
    /\ \/ /\ shouldStop \/ mode = "lan"
          /\ AfterRegist /\ UNCHANGED <<rudp, rpc>>
       \/ /\ ~shouldStop /\ mode # "lan"
          /\ \/ AfterRegist /\ UNCHANGED <<rudp, rpc>>
             \/ rudp' = TRUE /\ rpc' = "net" /\ Wait("registWait")
    /\ SKeep /\ KeepCtrl /\ KeepFlags /\ UNCHANGED <<tries, quits>>

\* chiaki_regist_stop raises a pipe the registration over rudp does not look
\* at; chiaki_regist_fini joins the thread, with state_mutex held.
SRegistWaitEnds ==
    /\ Woken("registWait") \/ TimedOut("registWait")
    /\ Go("registJoin") /\ SOnly /\ KeepFlags

SRegistJoin ==
    /\ spc = "registJoin" /\ rpc = "ended"
    /\ rpc' = "joined"
    /\ AfterRegist
    /\ SKeep /\ KeepCtrl /\ KeepFlags /\ UNCHANGED <<rudp, tries, quits>>

\* session_thread_request_session: the rudp handshake, with state_mutex held;
\* its failure leaves quit_reason as it is.
SRequest ==
    /\ spc = "request"
    /\ \/ Go("requesting") /\ tries' = tries + 1
       \/ rudp /\ Go("quit") /\ UNCHANGED tries
    /\ SKeep /\ KeepCtrl /\ KeepFlags /\ UNCHANGED <<rudp, rpc, quits>>

\* The third request is told not to report another version.
MayRetry == tries < 3

\* Connecting, sending and receiving without state_mutex: the request
\* succeeds, names another protocol version, is cancelled by the stop pipe
\* (which the rudp path does not look at) or fails.
SRequestEnds ==
    /\ spc = "requesting"
    /\ \/ Wait("settle") /\ tries' = 0
       \/ MayRetry /\ Go("request") /\ UNCHANGED tries
       \/ shouldStop /\ ~rudp /\ ExitTo("quit", "stopped") /\ tries' = 0
       \/ ExitTo("quit", "request") /\ tries' = 0
    /\ SKeep /\ KeepCtrl /\ KeepFlags /\ UNCHANGED <<rudp, rpc, quits>>

\* A pause of 10 ms, and chiaki_ctrl_start.
SSettleEnds ==
    /\ Woken("settle") \/ TimedOut("settle")
    /\ \/ cpc' = "connect" /\ Wait("ctrlWait")
       \/ Go("quit") /\ UNCHANGED cpc
    /\ SKeep /\ KeepFlags /\ UNCHANGED <<ctrl, rudp, rpc, tries, quits>>

\* The head of the login loop: ask the application for a PIN and wait for it,
\* or go on to the data connection.
PinLoop ==
    /\ pinRequested' = FALSE
    /\ IF pinRequested THEN Wait("pinWait") ELSE Go("data")
    /\ UNCHANGED <<shouldStop, ctrlFailed, sessionId, pinEntered,
                   switchReceived, registOk, dataSock>>

SCtrlWaitEnds ==
    /\ Woken("ctrlWait") \/ TimedOut("ctrlWait")
    /\ CASE shouldStop -> ExitTo("ctrlStop", "stopped") /\ KeepFlags
         [] ctrlFailed /\ ~shouldStop -> CtrlFailedExit /\ KeepFlags
         [] OTHER -> PinLoop
    /\ SOnly

SPinWaitEnds ==
    /\ Woken("pinWait")
    /\ CASE shouldStop -> ExitTo("ctrlStop", "stopped")
         [] ctrlFailed /\ ~shouldStop -> CtrlFailedExit
         [] OTHER -> Go("pinForward")
    /\ SOnly /\ KeepFlags

\* mutant: chiaki_ctrl_set_login_pin does not raise the pipe.
PinForwardSilent ==
    /\ spc = "pinForward" /\ ~CHolds
    /\ ctrlPin' = TRUE /\ UNCHANGED <<ctrlStop, msgs, notifPipe>>
    /\ pinEntered' = FALSE
    /\ Wait("answerWait")
    /\ UNCHANGED <<shouldStop, ctrlFailed, sessionId, pinRequested,
                   switchReceived, registOk, dataSock>>
    /\ SKeep /\ UNCHANGED <<cpc, rudp, rpc, tries, quits>>
\* chiaki_ctrl_set_login_pin takes notif_mutex while state_mutex is held.
SPinForward ==
    /\ spc = "pinForward" /\ ~CHolds
    /\ ctrlPin' = TRUE /\ notifPipe' = TRUE /\ UNCHANGED <<ctrlStop, msgs>>
    /\ pinEntered' = FALSE
    /\ Wait("answerWait")
    /\ UNCHANGED <<shouldStop, ctrlFailed, sessionId, pinRequested,
                   switchReceived, registOk, dataSock>>
    /\ SKeep /\ UNCHANGED <<cpc, rudp, rpc, tries, quits>>

\* ctrl_failed is not looked at here.
SAnswerWaitEnds ==
    /\ Woken("answerWait") \/ TimedOut("answerWait")
    /\ IF shouldStop THEN ExitTo("ctrlStop", "stopped") /\ KeepFlags ELSE PinLoop
    /\ SOnly

\* mutant: goes on without a session id.
ToStreamAnyway == Go("senkusha")
\* A missing session id is replaced by a made-up one, without the lock.
ToStream == Go(IF sessionId = "none" THEN "fallback" ELSE "senkusha")

\* The data connection: punched with state_mutex held, or given by the
\* application on request.
SData ==
    /\ spc = "data"
    /\ CASE mode = "lan"       -> ToStream
         [] mode = "remote"    -> Wait("remoteWait")
         [] mode = "holepunch" -> \/ shouldStop /\ ExitTo("ctrlStop", "stopped")
                                  \/ Go("ctrlStop")
                                  \/ Wait("punchWait")
    /\ SOnly /\ KeepFlags

SPunchWaitEnds ==
    /\ Woken("punchWait") \/ TimedOut("punchWait")
    /\ IF shouldStop THEN ExitTo("ctrlStop", "stopped") ELSE ToStream
    /\ SOnly /\ KeepFlags

\* At the time limit a socket that is there is not used either.
SRemoteWaitEnds ==
    /\ Woken("remoteWait") \/ TimedOut("remoteWait")
    /\ IF shouldStop THEN ExitTo("ctrlStop", "stopped")
       ELSE \/ Woken("remoteWait") /\ ToStream
            \/ Go("ctrlStop")
    /\ SOnly /\ KeepFlags

\* mutant: the session id is not looked at again under the lock.
FallbackUnchecked == "fallback"

\* ctrl_message_set_fallback_session_id, which looks again under state_mutex.
FallbackId == IF sessionId = "none" THEN "fallback" ELSE sessionId

SFallback ==
    /\ spc = "fallback"
    /\ \/ sessionId' = FallbackId /\ Go("senkusha")
       \/ CtrlFailedExit /\ UNCHANGED sessionId
    /\ UNCHANGED <<shouldStop, ctrlFailed, pinRequested, pinEntered,
                   switchReceived, registOk, dataSock>>
    /\ SOnly

\* Senkusha runs with state_mutex held and goes on whether it succeeds or
\* not; then the switch message, or the keys and the stream.
SSenkusha ==
    /\ spc = "senkusha"
    /\ IF shouldStop THEN ExitTo("ctrlStop", "stopped")
       ELSE \/ Go("ctrlStop")
            \/ ~ctrlFailed /\ rudp /\ Wait("switchWait")
            \/ ~ctrlFailed /\ ~rudp /\ Go("streaming")
    /\ SOnly /\ KeepFlags

\* The missing answer is noticed before the stop.
SSwitchWaitEnds ==
    /\ Woken("switchWait") \/ TimedOut("switchWait")
    /\ IF ~switchReceived THEN Go("ctrlStop")
       ELSE IF shouldStop THEN ExitTo("ctrlStop", "stopped")
       ELSE Go("streaming") \/ Go("ctrlStop")
    /\ SOnly /\ KeepFlags

\* chiaki_stream_connection_run returns, and its result becomes the reason.
StreamEnds(r) ==
    /\ spc = "streaming"
    /\ ExitTo("ctrlStop", r)
    /\ dataSock' = (dataSock /\ mode # "remote")
    /\ UNCHANGED <<shouldStop, ctrlFailed, sessionId, pinRequested, pinEntered,
                   switchReceived, registOk>>
    /\ SOnly

StreamErrors == {"disconnected", "timeout", "stream_unknown"}

SStreamStops == streamStop /\ StreamEnds("stopped")
SStreamFails == \E r \in StreamErrors : StreamEnds(r)

\* chiaki_ctrl_stop and chiaki_ctrl_join.
SCtrlStop ==
    /\ spc = "ctrlStop" /\ ~CHolds
    /\ ctrlStop' = TRUE /\ notifPipe' = TRUE
    /\ Go("ctrlJoin")
    /\ SKeep /\ KeepFlags /\ UNCHANGED <<cpc, ctrlPin, msgs, rudp, rpc, tries, quits>>

SCtrlJoin ==
    /\ spc = "ctrlJoin" /\ cpc = "ended"
    /\ cpc' = "joined"
    /\ Go("quit")
    /\ SKeep /\ KeepFlags /\ UNCHANGED <<ctrl, rudp, rpc, tries, quits>>

\* The QUIT event, with the reason read under state_mutex.
SQuit ==
    /\ spc = "quit"
    /\ quits' = quits + 1
    /\ Go("done")
    /\ SKeep /\ KeepCtrl /\ KeepFlags /\ UNCHANGED <<rudp, rpc, tries>>

-----------------------------------------------------------------------------
(* The ctrl thread.  The messages that only answer the console or change   *)
(* the picture are left out.                                               *)

CKeep == UNCHANGED <<setup, rudp, spc, rpc, apc, tries, streamStop, pins,
                     queued, quits>>
SharedSame == UNCHANGED <<shared, sig>>
CGo(pc)    == cpc' = pc
CStep(pc)  == CGo(pc) /\ CKeep /\ SharedSame /\ UNCHANGED ctrl
ConnSame   == UNCHANGED <<connected, cRetry>>
MsgSame    == UNCHANGED <<recvBuf, console>>

\* ctrl_failed: takes state_mutex, sets the reason whatever it was, signals.
CFail(r) ==
    /\ ~SHolds
    /\ reason' = r /\ ctrlFailed' = TRUE /\ Signal
    /\ UNCHANGED <<shouldStop, sessionId, pinRequested, pinEntered,
                   switchReceived, registOk, dataSock>>
    /\ CKeep /\ ConnSame /\ MsgSame /\ UNCHANGED <<ctrl, askedPin>>

\* The start of ctrl_connect and of ctrl_connect_tcp.
CConnect ==
    /\ cpc = "connect"
    /\ IF rudp THEN CStep("http")
               ELSE \E pc \in {"tcp", "failInner", "failConnect"} : CStep(pc)
    /\ ConnSame /\ MsgSame /\ UNCHANGED askedPin

\* chiaki_stop_pipe_connect, without notif_mutex.
CTcp ==
    /\ cpc = "tcp"
    /\ \/ CStep("http") \/ CStep("failInner")
       \/ ctrlStop /\ CStep("failConnect")
    /\ ConnSame /\ MsgSame /\ UNCHANGED askedPin

\* A message of the console is put into recv_buf.
Arrives(k) == recvBuf' = k /\ console < MaxConsole /\ console' = console + 1

\* The request and its answer, with notif_mutex held.  When send fails, and
\* when the rudp handshake does, ctrl_connect returns its err, still SUCCESS.
CHttp ==
    /\ cpc = "http"
    /\ \/ /\ CStep("loop") /\ connected' = TRUE /\ cRetry' = FALSE
          /\ MsgSame \/ \E k \in Kinds : Arrives(k)
       \/ \E pc \in {"loop", "failConnect"} :
             CStep(pc) /\ cRetry' = FALSE /\ UNCHANGED connected /\ MsgSame
       \/ /\ ~rudp /\ ~cRetry /\ cRetry' = TRUE
          /\ CStep("tcp") /\ UNCHANGED connected /\ MsgSame
    /\ UNCHANGED askedPin

CFailInner   == cpc = "failInner" /\ CGo("failConnect") /\ CFail("ctrl_unknown")
CFailConnect == cpc = "failConnect" /\ CGo("ended") /\ CFail("ctrl_connect")
CFailLoop    == cpc = "failLoop" /\ CGo("loop") /\ CFail("ctrl_unknown")
CFailEnd     == cpc = "failEnd" /\ CGo("ended") /\ CFail("ctrl_unknown")

\* The handlers of ctrl_message_received.
CHandle(k) ==
    /\ cpc = "loop" /\ recvBuf = k
    /\ recvBuf' = "none" /\ ConnSame /\ UNCHANGED console

\* A first look at the session id; the id is set under a second lock.
CSessionIdSeen ==
    /\ cpc = "loop" /\ recvBuf \in {"session_id", "bad_session_id"} /\ ~SHolds
    /\ IF sessionId # "none" THEN CStep("loop") /\ recvBuf' = "none"
                             ELSE CStep("sid") /\ UNCHANGED recvBuf
    /\ ConnSame /\ UNCHANGED <<askedPin, console>>

CSessionIdSet ==
    /\ cpc = "sid" /\ ~SHolds
    /\ sessionId' = IF recvBuf = "session_id" THEN "console" ELSE FallbackId
    /\ Signal /\ CGo("loop") /\ recvBuf' = "none"
    /\ UNCHANGED <<shouldStop, ctrlFailed, pinRequested, pinEntered,
                   switchReceived, registOk, dataSock, reason>>
    /\ CKeep /\ ConnSame /\ UNCHANGED <<ctrl, askedPin, console>>

CRequestPin ==
    /\ ~SHolds
    /\ pinRequested' = TRUE /\ Signal /\ CGo("loop")
    /\ UNCHANGED <<shouldStop, ctrlFailed, sessionId, pinEntered,
                   switchReceived, registOk, dataSock, reason>>
    /\ CKeep /\ UNCHANGED ctrl

\* A request for the PIN once the session has its id ends the session.
CPinRequest ==
    /\ CHandle("pin_request") /\ ~SHolds
    /\ askedPin' = TRUE
    /\ IF sessionId # "none" THEN CStep("failLoop") ELSE CRequestPin

CPinIncorrect ==
    /\ CHandle("pin_incorrect")
    /\ IF askedPin THEN CRequestPin ELSE CStep("loop")
    /\ UNCHANGED askedPin

CLoginSuccess == CHandle("login_success") /\ CStep("loop") /\ askedPin' = FALSE

CSwitch ==
    /\ CHandle("switch")
    /\ IF switchReceived THEN SharedSame
       ELSE /\ ~SHolds /\ switchReceived' = TRUE /\ Signal
            /\ UNCHANGED <<shouldStop, ctrlFailed, sessionId, pinRequested,
                           pinEntered, registOk, dataSock, reason>>
    /\ CGo("loop") /\ CKeep /\ UNCHANGED <<ctrl, askedPin>>

COverflow == CHandle("overflow") /\ CStep("failEnd") /\ UNCHANGED askedPin

\* mutant: the test before the select forgets the PIN.
PendingNoPin == ctrlStop \/ msgs > 0
Pending == ctrlStop \/ msgs > 0 \/ ctrlPin

\* Nothing left to parse: serve what was queued, or reset the pipe and select.
CSelect ==
    /\ cpc = "loop" /\ recvBuf = "none"
    /\ IF Pending
       THEN CStep("drain")
       ELSE /\ notifPipe' = FALSE /\ UNCHANGED <<ctrlStop, ctrlPin, msgs>>
            /\ CGo("select") /\ CKeep /\ SharedSame
    /\ ConnSame /\ MsgSame /\ UNCHANGED askedPin

CNotified == cpc = "select" /\ notifPipe /\ CStep("drain")
             /\ ConnSame /\ MsgSame /\ UNCHANGED askedPin

\* The socket is readable: a message, the end of a rudp session (which fails
\* the ctrl but does not end its loop), an error, or the end of the
\* connection, which ends the thread without ctrl_failed.
CReceive ==
    /\ cpc = "select" /\ connected
    /\ \/ CStep("loop") /\ \E k \in Kinds : Arrives(k)
       \/ rudp /\ CStep("failLoop") /\ console < MaxConsole
          /\ console' = console + 1 /\ UNCHANGED recvBuf
       \/ CStep("failEnd") /\ MsgSame
       \/ CStep("ended") /\ MsgSame
    /\ ConnSame /\ UNCHANGED askedPin

\* The branch for CHIAKI_ERR_CANCELED; each send is made without notif_mutex.
CDrain ==
    /\ cpc = "drain"
    /\ CASE msgs > 0 -> /\ msgs' = msgs - 1 /\ CGo("sendMsg")
                        /\ UNCHANGED <<ctrlStop, ctrlPin, notifPipe>>
         [] msgs = 0 /\ ctrlPin -> /\ ctrlPin' = FALSE /\ CGo("sendPin")
                                   /\ UNCHANGED <<ctrlStop, msgs, notifPipe>>
         [] OTHER -> CGo(IF ctrlStop THEN "ended" ELSE "loop") /\ UNCHANGED ctrl
    /\ CKeep /\ SharedSame /\ ConnSame /\ MsgSame /\ UNCHANGED askedPin

CSent ==
    /\ \/ cpc = "sendMsg" /\ CStep("drain")
       \/ cpc = "sendPin" /\ CStep("loop")
    /\ ConnSame /\ MsgSame /\ UNCHANGED askedPin

-----------------------------------------------------------------------------
(* The registration thread, whose callback is regist_cb.                   *)

RKeep == UNCHANGED <<setup, rudp, spc, cpc, apc, tries, streamStop, ctrl,
                     ctrlOwn, budget, quits>>

RNet ==
    /\ rpc = "net" /\ rpc' \in {"ok", "failed"}
    /\ RKeep /\ SharedSame

RCallback ==
    /\ rpc \in {"ok", "failed"} /\ ~SHolds
    /\ rpc' = "ended"
    /\ IF rpc = "ok" THEN registOk' = TRUE /\ UNCHANGED <<reason, shouldStop>>
       ELSE reason' = "regist" /\ shouldStop' = TRUE /\ UNCHANGED registOk
    /\ Signal
    /\ UNCHANGED <<ctrlFailed, sessionId, pinRequested, pinEntered,
                   switchReceived, dataSock>>
    /\ RKeep

-----------------------------------------------------------------------------
(* The application.                                                        *)

AKeep == UNCHANGED <<setup, rudp, spc, cpc, rpc, tries, ctrlOwn, console, quits>>
InUse == spc # "done"

\* chiaki_session_stop
AStop ==
    /\ InUse /\ ~SHolds /\ ~streamStop
    /\ shouldStop' = TRUE /\ streamStop' = TRUE /\ Signal
    /\ UNCHANGED <<ctrlFailed, sessionId, pinRequested, pinEntered,
                   switchReceived, registOk, dataSock, reason>>
    /\ AKeep /\ UNCHANGED <<apc, ctrl, pins, queued>>

\* chiaki_session_set_login_pin
AEnterPin ==
    /\ InUse /\ ~SHolds /\ pins < MaxPins
    /\ pins' = pins + 1 /\ pinEntered' = TRUE /\ Signal
    /\ UNCHANGED <<shouldStop, ctrlFailed, sessionId, pinRequested,
                   switchReceived, registOk, dataSock, reason>>
    /\ AKeep /\ UNCHANGED <<apc, ctrl, streamStop, queued>>

\* chiaki_session_set_remote_data_socket
AGiveSocket ==
    /\ InUse /\ ~SHolds /\ mode = "remote" /\ ~dataSock
    /\ dataSock' = TRUE /\ Signal
    /\ UNCHANGED <<shouldStop, ctrlFailed, sessionId, pinRequested, pinEntered,
                   switchReceived, registOk, reason>>
    /\ AKeep /\ UNCHANGED <<apc, ctrl, streamStop, pins, queued>>

\* chiaki_ctrl_send_message: the message is queued under notif_mutex, and the
\* pipe raised after it.
AQueue ==
    /\ InUse /\ apc = "idle" /\ ~CHolds /\ queued < MaxMsgs
    /\ queued' = queued + 1 /\ msgs' = msgs + 1 /\ apc' = "raise"
    /\ AKeep /\ SharedSame
    /\ UNCHANGED <<ctrlStop, ctrlPin, notifPipe, streamStop, pins>>

ARaise ==
    /\ apc = "raise" /\ apc' = "idle"
    /\ notifPipe' = TRUE
    /\ AKeep /\ SharedSame
    /\ UNCHANGED <<ctrlStop, ctrlPin, msgs, streamStop, pins, queued>>

-----------------------------------------------------------------------------
\* What the session thread does of itself: every wait but the one for the
\* PIN, and every call that leaves the process, has a time limit.
SBegin  == \/ SStart \/ SRegistWaitEnds \/ SRegistJoin \/ SRequest \/ SRequestEnds
           \/ SSettleEnds
SLogin  == SCtrlWaitEnds \/ SPinWaitEnds \/ SPinForward \/ SAnswerWaitEnds
SDataUp == SData \/ SPunchWaitEnds \/ SRemoteWaitEnds
SAgree  == SFallback \/ SSenkusha \/ SSwitchWaitEnds
SEnd    == SStreamStops \/ SCtrlStop \/ SCtrlJoin \/ SQuit
SNext   == SWaitOn \/ SBegin \/ SLogin \/ SDataUp \/ SAgree \/ SEnd

CSetUp    == CConnect \/ CTcp \/ CHttp
CFails    == CFailInner \/ CFailConnect \/ CFailLoop \/ CFailEnd
CHandles  == \/ CSessionIdSeen \/ CSessionIdSet \/ CPinRequest \/ CPinIncorrect
             \/ CLoginSuccess \/ CSwitch \/ COverflow
CServes   == CSelect \/ CNotified \/ CDrain \/ CSent
CNext     == CSetUp \/ CFails \/ CHandles \/ CServes

RNext == RNet \/ RCallback

\* What the console and the application do when they like.
Application == AStop \/ AEnterPin \/ AGiveSocket \/ AQueue
Environment == SStreamFails \/ CReceive \/ Application

Next == SNext \/ CNext \/ RNext \/ ARaise \/ Environment

Fairness == WF_vars(SNext) /\ WF_vars(CNext) /\ WF_vars(RNext) /\ WF_vars(ARaise)

Spec == Init /\ [][Next]_vars /\ Fairness

-----------------------------------------------------------------------------
(* What the session promises.                                              *)

\* The QUIT event is sent once, by the last thread of the session: the ctrl
\* and registration threads have been joined, on every path of the session
\* thread that started them (session.c, the labels quit_ctrl and quit).
NoThreadAfterQuit ==
    quits = 1 => cpc \in {"off", "joined"} /\ rpc \in {"off", "joined"}

\* A stop, a PIN or a message that the ctrl thread has not seen finds the
\* notification pipe raised, or about to be: the select without time limit
\* in ctrl_thread_func never sleeps over one of them.
NotifyNotLost ==
    cpc = "select" /\ (ctrlStop \/ ctrlPin \/ msgs > 0) => notifPipe \/ apc = "raise"

\* A session id the console sent is never replaced by one that is made up,
\* whichever of the session and ctrl threads comes to set its own first
\* (ctrl_message_set_fallback_session_id).
ConsoleIdStays == [][sessionId = "console" => sessionId' = "console"]_vars

\* The stream is run only by a session that has an id and, through PSN, was
\* told by the console to switch to it (session.c, session_thread_func).
StreamIsAgreed == spc = "streaming" => sessionId # "none" /\ (rudp => switchReceived)

\* The application is told that the session was stopped only when it asked
\* for that, or when an automatic or failed registration ended the session.
StoppedIsAsked ==
    quits = 1 /\ reason = "stopped" => streamStop \/ autoRegist \/ (shouldStop /\ rudp)

\* Which threads exist at each point of the session thread, and that only the
\* registration of a connection through rudp starts one more.
BeforeCtrl == {"start", "registWait", "registJoin", "request", "requesting", "settle"}
Threads ==
    /\ spc \in BeforeCtrl => cpc = "off"
    /\ spc \in {"quit", "done"} => cpc \in {"off", "joined"}
    /\ spc \notin BeforeCtrl \cup {"quit", "done"} => cpc \notin {"off", "joined"}
    /\ rpc \in {"off", "joined"} <=> spc \notin {"registWait", "registJoin"}
    /\ rpc # "off" => rudp
    /\ quits = 1 <=> spc = "done"
    /\ spc # "requesting" => tries < 3

\* Who may have raised should_stop, and where the reason "stopped" comes from.
StopCauses ==
    /\ shouldStop => streamStop \/ rudp
    /\ reason = "stopped" => streamStop \/ autoRegist \/ (shouldStop /\ rudp)

\* Past the login the session has an id.
LoggedIn == spc \in {"senkusha", "switchWait", "streaming"} => sessionId # "none"

\* What holds of the session in every state.
SessionInv == /\ TypeOK /\ Threads /\ StopCauses /\ LoggedIn
              /\ NoThreadAfterQuit /\ StoppedIsAsked

\* The two ways in which the threads wait for each other for good: the
\* session thread joins the registration thread, or takes notif_mutex, while
\* it holds the state_mutex that thread needs.
JoinCycle == spc = "registJoin" /\ rpc \in {"ok", "failed"}
PinCycle  == /\ spc = "pinForward"
             /\ \/ cpc \in {"failInner", "failConnect", "sid", "failLoop", "failEnd"}
                \/ cpc = "loop" /\ recvBuf \notin {"none", "login_success", "overflow"}

\* A session that was told to stop ends with its QUIT event, unless it gets
\* into one of those two cycles; there is no third one, no wait that misses
\* its wakeup and no thread that is left behind.
StopEnds == shouldStop ~> (spc = "done" \/ JoinCycle \/ PinCycle)

\* A PIN handed to the ctrl thread is sent to the console, unless that thread
\* ends first or is stopped by the cycle.
PinTaken == ctrlPin ~> (~ctrlPin \/ cpc \in {"ended", "joined"} \/ PinCycle)
=============================================================================
