---------------------------- MODULE TakionLifecycle ----------------------------
(***************************************************************************)
(* The life of one takion connection (lib/src/takion.c): the owner that    *)
(* connects and closes it, the takion thread that builds and tears down    *)
(* the send buffer and the socket, the resend thread, and the threads that *)
(* keep sending while the takion thread may end at any moment.             *)
(*                                                                         *)
(* Two mutexes guard the two resources.  A caller holds                    *)
(* send_buffer_state_mutex from the check of send_buffer_open to the end   *)
(* of the push (states AtDoor) and sock_state_mutex during send() (states  *)
(* Sending); the takion thread takes either only inside one action.        *)
(***************************************************************************)
EXTENDS FiniteSets

CONSTANTS
    Senders,        \* threads of the caller: congestion, feedback, mic, session
    TakionThread,   \* the takion thread sends too: handshake, data acks, callbacks
    Resender        \* the thread of the send buffer

ASSUME ThreadsAssumption ==
    TakionThread # Resender /\ TakionThread \notin Senders /\ Resender \notin Senders

Callers == Senders \cup {TakionThread, Resender}

VARIABLES
    owner,      \* the caller of connect and close
    tpc,        \* takion thread: the label or line it is at
    closeSocket,\* takion->close_socket
    mutexes,    \* the mutexes of the takion: "none", "live", "gone"
    buffer,     \* takion->send_buffer: "none", "live", "gone"
    open,       \* takion->send_buffer_open
    fd,         \* the descriptor behind takion->sock: "none", "live", "gone"
    sockOpen,   \* takion->sock_open
    spc,        \* caller -> where it is in its send
    stopped,    \* the senders that the owner has stopped and joined
    broken      \* history: connect reported success for a takion it did not set up

vars == <<owner, tpc, closeSocket, mutexes, buffer, open, fd, sockOpen, spc, stopped, broken>>

Sending   == {"bufSending", "rawSending"}
AtDoor    == {"bufSock", "bufSending", "bufPush"}
StateFree == \A c \in Callers : spc[c] \notin AtDoor    \* send_buffer_state_mutex
SockFree  == \A c \in Callers : spc[c] \notin Sending   \* sock_state_mutex

Goto(c, state) == spc' = [spc EXCEPT ![c] = state]

Init ==
    /\ owner = "none" /\ tpc = "none" /\ closeSocket \in BOOLEAN
    /\ mutexes = "none" /\ buffer = "none" /\ open = FALSE
    /\ fd = "none" /\ sockOpen = FALSE
    /\ spc = [c \in Callers |-> "idle"]
    /\ stopped = {} /\ broken = FALSE

-------------------------------------------------------------------------------
(* The owner *)

Connect ==
    /\ owner = "none" /\ owner' = "up"
    /\ tpc' = "handshake" /\ mutexes' = "live"
    /\ fd' = "live" /\ sockOpen' = TRUE
    /\ UNCHANGED <<closeSocket, buffer, open, spc, stopped, broken>>

\* The unwinding labels: the socket closed, if there was one, and the mutexes destroyed.
Unwind ==
    /\ owner = "none" /\ mutexes' = "gone" /\ fd' \in {"none", "gone"}
    /\ UNCHANGED <<tpc, closeSocket, buffer, open, sockOpen, spc, stopped>>

ConnectFails == Unwind /\ owner' = "failed" /\ UNCHANGED broken

\* "ret" is still CHIAKI_ERR_SUCCESS when the stop pipe cannot be created or the extra
\* messages of the handed-over socket cannot be read: connect reports success.
ConnectFailsQuietly == Unwind /\ owner' = "up" /\ broken' = TRUE

\* The result of chiaki_thread_create is not looked at.
ConnectWithoutThread ==
    /\ owner = "none" /\ owner' = "up" /\ broken' = TRUE
    /\ mutexes' = "live" /\ fd' = "live" /\ sockOpen' = TRUE
    /\ UNCHANGED <<tpc, closeSocket, buffer, open, spc, stopped>>

\* The owner stops a sender of its own and joins it, before close or after: a stop of the
\* stream in streamconnection.c:251 leaves the congestion thread to
\* chiaki_stream_connection_fini, and the application's senders are never joined.
StopSender(s) ==
    /\ owner \in {"up", "closed"} /\ s \notin stopped /\ spc[s] = "idle"
    /\ stopped' = stopped \cup {s}
    /\ UNCHANGED <<owner, tpc, closeSocket, mutexes, buffer, open, fd, sockOpen, spc, broken>>

\* chiaki_takion_close up to the join: the stop pipe is raised. It waits for no sender.
Close ==
    /\ owner = "up" /\ ~broken
    /\ owner' = "joining"
    /\ UNCHANGED <<tpc, closeSocket, mutexes, buffer, open, fd, sockOpen, spc, stopped, broken>>

CloseJoined ==
    /\ owner = "joining" /\ tpc = "ended"
    /\ owner' = "closed" /\ mutexes' = "gone"
    /\ UNCHANGED <<tpc, closeSocket, buffer, open, fd, sockOpen, spc, stopped, broken>>

-------------------------------------------------------------------------------
(* takion_thread_func *)

TakionIdle == spc[TakionThread] = "idle"

\* Handshake, data queue and send buffer: the resend thread exists from here on.
HandshakeDone ==
    /\ tpc = "handshake" /\ TakionIdle
    /\ tpc' = "opening" /\ buffer' = "live"
    /\ UNCHANGED <<owner, closeSocket, mutexes, open, fd, sockOpen, spc, stopped, broken>>

\* Any of the three fails ("goto beach", or "error_reoder_queue").
HandshakeFails ==
    /\ tpc = "handshake" /\ TakionIdle
    /\ tpc' = "beach"
    /\ UNCHANGED <<owner, closeSocket, mutexes, buffer, open, fd, sockOpen, spc, stopped, broken>>

\* takion_set_send_buffer_open(takion, true), then CONNECTED, or straight to
\* "error_send_buffer" when the receive pool cannot be allocated.
OpenDoor ==
    /\ tpc = "opening" /\ StateFree
    /\ open' = TRUE /\ tpc' \in {"running", "errorSendBuffer"}
    /\ UNCHANGED <<owner, closeSocket, mutexes, buffer, fd, sockOpen, spc, stopped, broken>>

\* A receive error, or the stop pipe.
LoopEnds ==
    /\ tpc = "running" /\ TakionIdle
    /\ tpc' = "errorSendBuffer"
    /\ UNCHANGED <<owner, closeSocket, mutexes, buffer, open, fd, sockOpen, spc, stopped, broken>>

CloseDoorUnlocked ==    \* mutant: the flag is cleared without the mutex
    /\ tpc = "errorSendBuffer"
    /\ open' = FALSE /\ tpc' = "finalising"
    /\ UNCHANGED <<owner, closeSocket, mutexes, buffer, fd, sockOpen, spc, stopped, broken>>

CloseDoor ==
    /\ tpc = "errorSendBuffer" /\ StateFree
    /\ open' = FALSE /\ tpc' = "finalising"
    /\ UNCHANGED <<owner, closeSocket, mutexes, buffer, fd, sockOpen, spc, stopped, broken>>

\* chiaki_takion_send_buffer_fini: should_stop under the buffer's mutex, which the
\* resend thread holds while it sends ...
FiniSignal ==
    /\ tpc = "finalising" /\ spc[Resender] = "idle"
    /\ tpc' = "joiningResender"
    /\ UNCHANGED <<owner, closeSocket, mutexes, buffer, open, fd, sockOpen, spc, stopped, broken>>

\* ... then the join and the release of everything.
FiniJoined ==
    /\ tpc = "joiningResender" /\ spc[Resender] = "idle"
    /\ buffer' = "gone" /\ tpc' = "beach"
    /\ UNCHANGED <<owner, closeSocket, mutexes, open, fd, sockOpen, spc, stopped, broken>>

CloseSock ==
    /\ tpc = "beach"
    /\ IF closeSocket THEN SockFree /\ sockOpen' = FALSE /\ fd' = "gone"
                      ELSE UNCHANGED <<sockOpen, fd>>
    /\ tpc' = "report"
    /\ UNCHANGED <<owner, closeSocket, mutexes, buffer, open, spc, stopped, broken>>

ReportEarly ==          \* mutant: DISCONNECT before the socket is closed
    /\ tpc = "beach" /\ tpc' = "ended"
    /\ UNCHANGED <<owner, closeSocket, mutexes, buffer, open, fd, sockOpen, spc, stopped, broken>>

\* The DISCONNECT callback, and the end of the thread.
Report ==
    /\ tpc = "report" /\ tpc' = "ended"
    /\ UNCHANGED <<owner, closeSocket, mutexes, buffer, open, fd, sockOpen, spc, stopped, broken>>

-------------------------------------------------------------------------------
(* Sends, from any thread *)

\* The caller's threads send from connect until they are stopped; the takion thread from
\* its handshake and its loop; the resend thread until it is told to stop.
MayCall(c) ==
    IF c = TakionThread  THEN tpc \in {"handshake", "running"}
    ELSE IF c = Resender THEN tpc \in {"opening", "running", "errorSendBuffer", "finalising"}
    ELSE owner \notin {"none", "failed"} /\ c \notin stopped

sendFrame == UNCHANGED <<owner, tpc, closeSocket, mutexes, buffer, open, fd, sockOpen, stopped, broken>>

\* chiaki_takion_send_message_data(_cont); the handshake sends no data
BeginBuffered(c) ==
    /\ spc[c] = "idle" /\ MayCall(c) /\ c # Resender
    /\ c = TakionThread => tpc = "running"
    /\ Goto(c, "bufWait") /\ sendFrame

\* every other send goes to chiaki_takion_send_raw directly
BeginRaw(c) ==
    /\ spc[c] = "idle" /\ MayCall(c)
    /\ Goto(c, "rawSock") /\ sendFrame

\* takion_send_buffered: refused unless send_buffer_open
EnterDoor(c) ==
    /\ spc[c] = "bufWait" /\ StateFree
    /\ Goto(c, IF open THEN "bufSock" ELSE "idle") /\ sendFrame

LockSockUnchecked(c) ==     \* mutant: sock_open is not looked at
    /\ spc[c] \in {"bufSock", "rawSock"} /\ SockFree
    /\ Goto(c, IF spc[c] = "bufSock" THEN "bufSending" ELSE "rawSending") /\ sendFrame

\* chiaki_takion_send_raw: refused unless sock_open. The lock of a mutex that was destroyed
\* fails, and the send is refused, or works as before; at the door, which is closed by
\* then, both are the same.
LockSock(c) ==
    /\ spc[c] \in {"bufSock", "rawSock"} /\ SockFree
    /\ \/ Goto(c, IF ~sockOpen THEN "idle"
                  ELSE IF spc[c] = "bufSock" THEN "bufSending" ELSE "rawSending")
       \/ mutexes = "gone" /\ Goto(c, "idle")
    /\ sendFrame

SendDoneLeaks(c) ==         \* mutant: a failed send keeps send_buffer_state_mutex
    /\ spc[c] \in Sending
    /\ Goto(c, IF spc[c] = "bufSending" THEN "bufSock" ELSE "idle") /\ sendFrame

\* send() returns; a failed buffered send is not pushed.
SendDone(c) ==
    /\ spc[c] \in Sending
    /\ \/ spc[c] = "bufSending" /\ Goto(c, "bufPush")
       \/ Goto(c, "idle")
    /\ sendFrame

\* chiaki_takion_send_buffer_push: the buffer's mutex is free unless the resend
\* thread is in the middle of a send.
Push(c) ==
    /\ spc[c] = "bufPush" /\ spc[Resender] = "idle"
    /\ Goto(c, "idle") /\ sendFrame

-------------------------------------------------------------------------------
TakionStep == \/ HandshakeDone \/ HandshakeFails \/ OpenDoor \/ LoopEnds \/ CloseDoor
              \/ FiniSignal \/ FiniJoined \/ CloseSock \/ Report

Finished ==
    /\ owner \in {"failed", "closed"} \/ broken
    /\ UNCHANGED vars

Next ==
    \/ Connect \/ ConnectFails \/ ConnectFailsQuietly \/ ConnectWithoutThread
    \/ Close \/ CloseJoined \/ \E s \in Senders : StopSender(s)
    \/ TakionStep
    \/ \E c \in Callers : \/ BeginBuffered(c) \/ BeginRaw(c) \/ EnterDoor(c)
                          \/ LockSock(c) \/ SendDone(c) \/ Push(c)
    \/ Finished

\* The threads run, send() returns and whoever waits for a mutex gets it; the handshake
\* retries a bounded number of times, and the receive loop ends the first time it
\* receives after the stop pipe is raised, however much it sends in between. Nobody has
\* to send, to close, or to fail.
TakionProgress ==
    \/ HandshakeDone \/ HandshakeFails \/ OpenDoor \/ (owner = "joining" /\ LoopEnds)
    \/ CloseDoor \/ FiniSignal \/ FiniJoined \/ CloseSock \/ Report

CallerProgress(c) == EnterDoor(c) \/ LockSock(c) \/ SendDone(c) \/ Push(c)

Fairness ==
    /\ SF_vars(TakionProgress) /\ WF_vars(CloseJoined)
    /\ \A c \in Callers : SF_vars(CallerProgress(c))

Spec == Init /\ [][Next]_vars /\ Fairness

-------------------------------------------------------------------------------
(* Properties *)

\* Every variable has its type.
TypeOK ==
    /\ owner \in {"none", "up", "failed", "joining", "closed"}
    /\ tpc \in {"none", "handshake", "opening", "running", "errorSendBuffer", "finalising",
                "joiningResender", "beach", "report", "ended"}
    /\ closeSocket \in BOOLEAN /\ open \in BOOLEAN /\ sockOpen \in BOOLEAN /\ broken \in BOOLEAN
    /\ mutexes \in {"none", "live", "gone"}
    /\ buffer \in {"none", "live", "gone"} /\ fd \in {"none", "live", "gone"}
    /\ spc \in [Callers -> {"idle", "bufWait", "bufSock", "bufSending", "bufPush",
                            "rawSock", "rawSending"}]
    /\ stopped \in SUBSET Senders

\* PLE-490: whoever works on the send buffer finds it alive: a sender from the check of
\* send_buffer_open to the end of its push, the takion thread acking in its loop, and
\* the resend thread.
NoUseAfterFini ==
    /\ \A c \in Callers : spc[c] \in AtDoor => buffer = "live"
    /\ tpc = "running" => buffer = "live"
    /\ spc[Resender] # "idle" => buffer = "live"

\* PLE-502: a thread inside send() is on a descriptor that has not been closed, so
\* never on a number that something else has reused.
SendOnOpenSocket == \A c \in Callers : spc[c] \in Sending => fd = "live"

\* Whoever has seen DISCONNECT sees a closed socket that no thread is still sending on,
\* when the takion owns the socket, and one that is still open when it does not.
DisconnectMeansClosed ==
    tpc = "ended" => IF closeSocket THEN fd = "gone" /\ SockFree ELSE fd = "live"

\* The mutexes live from connect to close. When they are destroyed the takion thread has
\* ended and neither it nor the resend thread is in a send: close joins them. It does not
\* look at the senders, so whoever still sends is one that its owner has not stopped.
MutexesOutliveUse ==
    mutexes = "gone" =>
        /\ tpc \in {"none", "ended"}
        /\ \A c \in Callers : spc[c] # "idle" => c \in Senders \ stopped

\* The two resources follow the discipline of ResourceGate.
Door == INSTANCE ResourceGate WITH
            Users <- Callers, alive <- buffer = "live", admits <- open,
            inside <- {c \in Callers : spc[c] \in AtDoor}

Socket == INSTANCE ResourceGate WITH
            Users <- Callers, alive <- fd = "live", admits <- sockOpen,
            inside <- {c \in Callers : spc[c] \in Sending}

\* The send buffer is a gate: opened after it exists, entered only while it is open, and
\* finalised with nobody inside.
DoorIsGate == Door!GateSpec

\* The socket is a gate: admitted to only while sock_open, closed with nobody inside.
SocketIsGate == Socket!GateSpec

\* After a receive error or a stop the tear-down comes to its end while threads keep
\* sending: no lock order among the two state mutexes and the buffer's own mutex keeps
\* the takion thread from it, and DISCONNECT is reported.
TeardownCompletes == tpc = "errorSendBuffer" ~> tpc = "ended"

\* What makes the safety properties inductive: which control states of the takion thread
\* go with which state of the two resources, and that the flags are cleared no later
\* than the resources go.
Phases ==
    /\ owner \in {"none", "failed"} \/ broken => tpc = "none"
    /\ broken => owner = "up"
    /\ tpc = "none" /\ ~broken => owner \in {"none", "failed"} /\ ~sockOpen
    /\ owner = "closed" => tpc = "ended"
    /\ mutexes = "gone" => owner \in {"failed", "closed"} \/ broken
DoorPhase ==
    /\ buffer = "live" <=> tpc \in {"opening", "running", "errorSendBuffer",
                                    "finalising", "joiningResender"}
    /\ open => tpc \in {"running", "errorSendBuffer"}
    /\ \A c \in Callers : spc[c] \in AtDoor => open
SocketPhase ==
    /\ sockOpen => fd = "live"
    /\ owner \in {"none", "failed"} => fd # "live"
    /\ \A c \in Callers : spc[c] \in Sending => sockOpen
    /\ tpc \in {"report", "ended"} /\ closeSocket => fd = "gone" /\ ~sockOpen
    /\ tpc # "none" /\ ~(tpc \in {"report", "ended"} /\ closeSocket) => fd = "live"
CallerPhase ==
    \A c \in Callers : spc[c] # "idle" =>
        IF c = TakionThread  THEN tpc \in {"handshake", "running"}
        ELSE IF c = Resender THEN tpc \in {"opening", "running", "errorSendBuffer", "finalising"}
        ELSE owner \notin {"none", "failed"} /\ c \notin stopped

\* The inductive invariant of the proofs.
IInv == TypeOK /\ Phases /\ DoorPhase /\ SocketPhase /\ CallerPhase
===============================================================================
