------------------------- MODULE TakionLifecycleProofs -------------------------
(***************************************************************************)
(* The safety of TakionLifecycle for every set of sending threads.  IInv   *)
(* is inductive: one step per action; the safety properties follow from    *)
(* it, and with it every step of the connection is a step or a stutter of  *)
(* the two resource gates.                                                 *)
(***************************************************************************)
EXTENDS TakionLifecycle, TLAPS

\* Before connect the invariant holds: no takion thread, no resources, nobody sending.
LEMMA InitInv == Init => IInv
<1> SUFFICES ASSUME Init PROVE IInv
  OBVIOUS
<1>1. closeSocket \in BOOLEAN /\ ~open /\ ~sockOpen /\ ~broken
  BY DEF Init
<1>2. \A c \in Callers : spc[c] = "idle"
  BY DEF Init
<1>3. TypeOK
  <2>1. spc \in [Callers -> {"idle", "bufWait", "bufSock", "bufSending", "bufPush",
                             "rawSock", "rawSending"}]
    BY DEF Init
  <2> QED
    BY <1>1, <2>1 DEF Init, TypeOK
<1>4. Phases
  BY <1>1, <1>2 DEF Init, Phases, Callers
<1>5. DoorPhase
  BY <1>1, <1>2 DEF Init, DoorPhase, AtDoor
<1>6. SocketPhase
  BY <1>1, <1>2 DEF Init, SocketPhase, Sending
<1>7. CallerPhase
  BY <1>2 DEF CallerPhase
<1> QED
  BY <1>3, <1>4, <1>5, <1>6, <1>7 DEF IInv

\* The four actions that set a flag are split by the parts of the invariant.
LEMMA ConnectInv == IInv /\ (Connect \/ ConnectFails \/ ConnectFailsQuietly) => IInv'
<1> SUFFICES ASSUME IInv, Connect \/ ConnectFails \/ ConnectFailsQuietly PROVE IInv'
  OBVIOUS
<1> USE ThreadsAssumption DEF IInv
<1>1. CASE Connect
  <2>1. ~broken /\ ~broken' /\ sockOpen' /\ ~open /\ ~open'
    BY <1>1 DEF Connect, Phases, DoorPhase, TypeOK
  <2>2. \A c \in Callers : spc[c] = "idle" /\ spc'[c] = "idle"
    BY <1>1, <2>1 DEF Connect, Phases, CallerPhase, Callers
  <2>3. TypeOK'
    BY <1>1, <2>1 DEF Connect, TypeOK
  <2>4. Phases' /\ DoorPhase' /\ SocketPhase' /\ CallerPhase'
    BY <1>1, <2>1, <2>2 DEF Connect, Phases, DoorPhase, SocketPhase, CallerPhase,
       Callers, AtDoor, Sending
  <2> QED
    BY <2>3, <2>4
<1>2. CASE ConnectFails \/ ConnectFailsQuietly
  <2>1. tpc = "none" /\ tpc' = "none" /\ ~open /\ ~open' /\ buffer # "live" /\ buffer' # "live"
    BY <1>2 DEF ConnectFails, ConnectFailsQuietly, Unwind, Phases, DoorPhase, TypeOK
  <2>2. ~sockOpen /\ ~sockOpen'
    BY <1>2, <2>1 DEF ConnectFails, ConnectFailsQuietly, Unwind, Phases, SocketPhase, TypeOK
  <2>3. \A c \in Callers : spc[c] = "idle" /\ spc'[c] = "idle"
    BY <1>2, <2>1 DEF ConnectFails, ConnectFailsQuietly, Unwind, Phases, CallerPhase, Callers
  <2>4. TypeOK'
    BY <1>2, <2>1, <2>2 DEF ConnectFails, ConnectFailsQuietly, Unwind, TypeOK
  <2>5. Phases' /\ DoorPhase' /\ SocketPhase' /\ CallerPhase'
    BY <1>2, <2>1, <2>2, <2>3 DEF ConnectFails, ConnectFailsQuietly, Unwind, Phases,
       DoorPhase, SocketPhase,
       CallerPhase, Callers, AtDoor, Sending
  <2> QED
    BY <2>4, <2>5
<1> QED
  BY <1>1, <1>2

\* Clearing send_buffer_open under its mutex keeps the invariant: nobody is AtDoor.
LEMMA CloseDoorInv == IInv /\ CloseDoor => IInv'
<1> SUFFICES ASSUME IInv, CloseDoor PROVE IInv'
  OBVIOUS
<1> USE ThreadsAssumption DEF IInv
<1>1. ~open'
  BY DEF CloseDoor
<1>2. \A c \in Callers : spc[c] \notin AtDoor /\ spc'[c] = spc[c]
  BY DEF CloseDoor, StateFree
<1>3. TypeOK'
  BY <1>1 DEF CloseDoor, TypeOK
<1>4. DoorPhase'
  BY <1>1, <1>2 DEF CloseDoor, DoorPhase, TypeOK
<1>5. Phases' /\ SocketPhase' /\ CallerPhase'
  BY DEF CloseDoor, Phases, SocketPhase, CallerPhase, TypeOK, Callers, DoorPhase
<1> QED
  BY <1>3, <1>4, <1>5

\* Closing the socket under its mutex keeps the invariant: nobody is Sending.
LEMMA CloseSockInv == IInv /\ CloseSock => IInv'
<1> SUFFICES ASSUME IInv, CloseSock PROVE IInv'
  OBVIOUS
<1> USE ThreadsAssumption DEF IInv
<1>1. tpc = "beach" /\ tpc' = "report" /\ spc' = spc /\ (closeSocket <=> closeSocket')
  BY DEF CloseSock
<1>2. CASE closeSocket
  <2>1. ~sockOpen' /\ fd' = "gone" /\ SockFree
    BY <1>2 DEF CloseSock
  <2>2. TypeOK'
    BY <2>1 DEF CloseSock, TypeOK
  <2>3. SocketPhase'
    BY <1>1, <1>2, <2>1 DEF SocketPhase, SockFree
  <2>4. Phases' /\ DoorPhase' /\ CallerPhase'
    BY <1>1, <2>1 DEF CloseSock, Phases, DoorPhase, CallerPhase, TypeOK, Callers, AtDoor
  <2> QED
    BY <2>2, <2>3, <2>4
<1>3. CASE ~closeSocket
  BY <1>1, <1>3 DEF CloseSock, TypeOK, Phases, DoorPhase, SocketPhase, CallerPhase,
     Callers, AtDoor, Sending
<1> QED
  BY <1>2, <1>3

\* A sender is stopped when it is in no send; it starts none any more.
LEMMA StopInv == ASSUME NEW s \in Senders, IInv, StopSender(s) PROVE IInv'
<1> USE ThreadsAssumption DEF StopSender
<1>1. TypeOK'
  BY DEF IInv, TypeOK
<1>2. Phases' /\ DoorPhase' /\ SocketPhase'
  BY DEF IInv, Phases, DoorPhase, SocketPhase
<1>3. CallerPhase'
  BY DEF IInv, CallerPhase, Callers
<1> QED
  BY <1>1, <1>2, <1>3 DEF IInv

\* The owner's other actions: a connect without a thread, and the two halves of close.
LEMMA OwnerInv == IInv /\ (ConnectWithoutThread \/ Close \/ CloseJoined) => IInv'
<1> SUFFICES ASSUME IInv, ConnectWithoutThread \/ Close \/ CloseJoined PROVE IInv'
  OBVIOUS
<1> USE ThreadsAssumption
    DEF IInv, TypeOK, Phases, DoorPhase, SocketPhase, CallerPhase, Callers, AtDoor, Sending
<1>1. CASE ConnectWithoutThread
  BY <1>1 DEF ConnectWithoutThread
<1>2. CASE Close
  BY <1>2 DEF Close
<1>3. CASE CloseJoined
  BY <1>3 DEF CloseJoined
<1> QED
  BY <1>1, <1>2, <1>3

\* Every step of takion_thread_func keeps the invariant.
LEMMA TakionInv == IInv /\ TakionStep => IInv'
<1> SUFFICES ASSUME IInv, TakionStep PROVE IInv'
  OBVIOUS
<1> USE ThreadsAssumption
<1>1. CASE HandshakeDone
  BY <1>1 DEF HandshakeDone, TakionIdle, IInv, TypeOK, Phases, DoorPhase, SocketPhase,
     CallerPhase, Callers, AtDoor, Sending
<1>2. CASE HandshakeFails
  BY <1>2 DEF HandshakeFails, TakionIdle, IInv, TypeOK, Phases, DoorPhase, SocketPhase,
     CallerPhase, Callers, AtDoor, Sending
<1>3. CASE OpenDoor
  BY <1>3 DEF OpenDoor, StateFree, IInv, TypeOK, Phases, DoorPhase, SocketPhase, CallerPhase,
     Callers, AtDoor, Sending
<1>4. CASE LoopEnds
  BY <1>4 DEF LoopEnds, TakionIdle, IInv, TypeOK, Phases, DoorPhase, SocketPhase,
     CallerPhase, Callers, AtDoor, Sending
<1>5. CASE CloseDoor
  BY <1>5, CloseDoorInv
<1>6. CASE FiniSignal
  BY <1>6 DEF FiniSignal, IInv, TypeOK, Phases, DoorPhase, SocketPhase, CallerPhase, Callers,
     AtDoor, Sending
<1>7. CASE FiniJoined
  BY <1>7 DEF FiniJoined, IInv, TypeOK, Phases, DoorPhase, SocketPhase, CallerPhase, Callers,
     AtDoor, Sending
<1>8. CASE CloseSock
  BY <1>8, CloseSockInv
<1>9. CASE Report
  BY <1>9 DEF Report, IInv, TypeOK, Phases, DoorPhase, SocketPhase, CallerPhase, Callers,
     AtDoor, Sending
<1> QED
  BY <1>1, <1>2, <1>3, <1>4, <1>5, <1>6, <1>7, <1>8, <1>9 DEF TakionStep

SendStep(c) == \/ BeginBuffered(c) \/ BeginRaw(c) \/ EnterDoor(c)
               \/ LockSock(c) \/ SendDone(c) \/ Push(c)

\* Every step of a send, by whatever thread, keeps the invariant.
LEMMA SendInv == ASSUME NEW c \in Callers, IInv, SendStep(c) PROVE IInv'
<1> USE ThreadsAssumption
    DEF IInv, TypeOK, Phases, DoorPhase, SocketPhase, CallerPhase, Callers, AtDoor, Sending,
        Goto, sendFrame
<1>1. CASE BeginBuffered(c)
  BY <1>1 DEF BeginBuffered, MayCall
<1>2. CASE BeginRaw(c)
  BY <1>2 DEF BeginRaw, MayCall
<1>3. CASE EnterDoor(c)
  BY <1>3 DEF EnterDoor, StateFree
<1>4. CASE LockSock(c)
  BY <1>4 DEF LockSock, SockFree
<1>5. CASE SendDone(c)
  BY <1>5 DEF SendDone
<1>6. CASE Push(c)
  BY <1>6 DEF Push
<1> QED
  BY <1>1, <1>2, <1>3, <1>4, <1>5, <1>6 DEF SendStep

\* The invariant is inductive.
LEMMA NextInv == IInv /\ [Next]_vars => IInv'
<1> SUFFICES ASSUME IInv, [Next]_vars PROVE IInv'
  OBVIOUS
<1>1. CASE Connect \/ ConnectFails \/ ConnectFailsQuietly
  BY <1>1, ConnectInv
<1>2. CASE ConnectWithoutThread \/ Close \/ CloseJoined
  BY <1>2, OwnerInv
<1>3. CASE TakionStep
  BY <1>3, TakionInv
<1>4. CASE \E c \in Callers : SendStep(c)
  BY <1>4, SendInv
<1>5. CASE UNCHANGED vars
  BY <1>5 DEF vars, IInv, TypeOK, Phases, DoorPhase, SocketPhase, CallerPhase, Callers,
     AtDoor, Sending
<1>6. CASE \E s \in Senders : StopSender(s)
  BY <1>6, StopInv
<1> QED
  BY <1>1, <1>2, <1>3, <1>4, <1>5, <1>6 DEF Next, Finished, SendStep

\* IInv, and with it type correctness and the control states that go with each state of
\* the two resources, holds in every reachable state.
THEOREM Invariance == Spec => []IInv
<1> QED
  BY InitInv, NextInv, PTL DEF Spec

\* PLE-490 for every set of threads: whoever works on the send buffer finds it alive.
THEOREM SendBufferSafe == Spec => []NoUseAfterFini
<1>1. ASSUME IInv PROVE NoUseAfterFini
  <2>1. \A c \in Callers : spc[c] \in AtDoor => buffer = "live"
    BY <1>1 DEF IInv, DoorPhase
  <2>2. tpc = "running" => buffer = "live"
    BY <1>1 DEF IInv, DoorPhase
  <2>3. spc[Resender] # "idle" => buffer = "live"
    BY <1>1, ThreadsAssumption DEF IInv, DoorPhase, CallerPhase, Callers
  <2> QED
    BY <2>1, <2>2, <2>3 DEF NoUseAfterFini
<1> QED
  BY <1>1, Invariance, PTL

\* PLE-502 for every set of threads: send() is on a descriptor that is still open.
THEOREM SocketSafe == Spec => []SendOnOpenSocket
<1>1. IInv => SendOnOpenSocket
  BY DEF IInv, SocketPhase, SendOnOpenSocket
<1> QED
  BY <1>1, Invariance, PTL

\* After DISCONNECT a socket the takion owns is closed with nobody sending on it, and a
\* socket of the caller is still open.
THEOREM DisconnectSafe == Spec => []DisconnectMeansClosed
<1>1. ASSUME IInv, tpc = "ended" PROVE DisconnectMeansClosed
  <2>1. CASE closeSocket
    BY <1>1, <2>1 DEF IInv, SocketPhase, DisconnectMeansClosed, SockFree
  <2>2. CASE ~closeSocket
    BY <1>1, <2>2 DEF IInv, SocketPhase, DisconnectMeansClosed
  <2> QED
    BY <2>1, <2>2
<1>2. IInv => DisconnectMeansClosed
  BY <1>1 DEF DisconnectMeansClosed
<1> QED
  BY <1>2, Invariance, PTL

\* Whatever the senders do, close destroys the mutexes only after the takion thread has
\* ended and the last send of the takion and the resend thread is over; a send that is still
\* under way is one of a sender that its owner has not stopped.
THEOREM MutexesSafe == Spec => []MutexesOutliveUse
<1>1. ASSUME IInv, mutexes = "gone" PROVE MutexesOutliveUse
  <2>1. tpc \in {"none", "ended"}
    BY <1>1 DEF IInv, Phases
  <2>2. ASSUME NEW c \in Callers, spc[c] # "idle" PROVE c \in Senders \ stopped
    BY <1>1, <2>1, <2>2 DEF IInv, CallerPhase, Callers
  <2> QED
    BY <2>1, <2>2 DEF MutexesOutliveUse
<1>2. IInv => MutexesOutliveUse
  BY <1>1 DEF MutexesOutliveUse
<1> QED
  BY <1>2, Invariance, PTL

-------------------------------------------------------------------------------
(* The send buffer and the socket each implement ResourceGate. *)

\* Every step is a step of the send buffer's gate, or none.
LEMMA DoorStep == IInv /\ [Next]_vars => [Door!GateNext]_(Door!gateVars)
<1> SUFFICES ASSUME IInv, [Next]_vars PROVE [Door!GateNext]_(Door!gateVars)
  OBVIOUS
<1> DEFINE Inside == {c \in Callers : spc[c] \in AtDoor}
<1> USE DEF Door!GateNext, Door!gateVars
<1>1. CASE HandshakeDone
  <2>1. Door!Create
    BY <1>1 DEF HandshakeDone, Door!Create, IInv, DoorPhase, TypeOK
  <2> QED
    BY <2>1
<1>2. CASE OpenDoor
  <2>1. Door!Open
    BY <1>2 DEF OpenDoor, Door!Open, IInv, DoorPhase
  <2> QED
    BY <2>1
<1>3. CASE CloseDoor
  <2>1. Door!Shut
    BY <1>3 DEF CloseDoor, Door!Shut
  <2> QED
    BY <2>1
<1>4. CASE FiniJoined
  <2>1. Door!Destroy
    BY <1>4 DEF FiniJoined, Door!Destroy, IInv, DoorPhase, TypeOK
  <2> QED
    BY <2>1
<1>5. ASSUME NEW c \in Callers, SendStep(c)
      PROVE  [Door!GateNext]_(Door!gateVars)
  <2>1. buffer' = buffer /\ open' = open
    BY <1>5 DEF SendStep, BeginBuffered, BeginRaw, EnterDoor, LockSock, SendDone, Push,
       sendFrame
  <2>2. \E pc : spc' = [spc EXCEPT ![c] = pc]
    BY <1>5 DEF SendStep, BeginBuffered, BeginRaw, EnterDoor, LockSock, SendDone, Push, Goto
  <2>3. spc \in [Callers -> {"idle", "bufWait", "bufSock", "bufSending", "bufPush",
                             "rawSock", "rawSending"}]
    BY DEF IInv, TypeOK
  <2>4. CASE spc[c] \notin AtDoor /\ spc'[c] \notin AtDoor
    <3>1. Inside' = Inside
      BY <2>2, <2>3, <2>4
    <3> QED
      BY <2>1, <3>1
  <2>5. CASE spc[c] \in AtDoor /\ spc'[c] \in AtDoor
    <3>1. Inside' = Inside
      BY <2>2, <2>3, <2>5
    <3> QED
      BY <2>1, <3>1
  <2>6. CASE spc[c] \in AtDoor /\ spc'[c] \notin AtDoor
    <3>1. Inside' = Inside \ {c} /\ c \in Inside
      BY <2>2, <2>3, <2>6
    <3>2. Door!Leave(c)
      BY <2>1, <3>1 DEF Door!Leave
    <3> QED
      BY <3>2
  <2>7. CASE spc[c] \notin AtDoor /\ spc'[c] \in AtDoor
    <3>1. Inside' = Inside \cup {c} /\ c \notin Inside
      BY <2>2, <2>3, <2>7
    <3>2. open
      BY <1>5, <2>3, <2>7 DEF SendStep, BeginBuffered, BeginRaw, EnterDoor, LockSock,
         SendDone, Push, Goto, AtDoor, Sending
    <3>3. buffer = "live"
      BY <3>2 DEF IInv, DoorPhase
    <3>4. Door!Enter(c)
      BY <2>1, <3>1, <3>2, <3>3 DEF Door!Enter
    <3> QED
      BY <3>4
  <2> QED
    BY <2>4, <2>5, <2>6, <2>7
<1>6. CASE \/ Connect \/ ConnectFails \/ ConnectFailsQuietly \/ ConnectWithoutThread
            \/ Close \/ CloseJoined
           \/ HandshakeFails \/ LoopEnds \/ FiniSignal \/ CloseSock \/ Report
  BY <1>6 DEF Connect, ConnectFails, ConnectFailsQuietly, Unwind, ConnectWithoutThread,
     Close, CloseJoined,
     HandshakeFails, LoopEnds, FiniSignal, CloseSock, Report
<1>7. CASE UNCHANGED vars
  BY <1>7 DEF vars
<1>8. CASE \E s \in Senders : StopSender(s)
  BY <1>8 DEF StopSender
<1> QED
  BY <1>1, <1>2, <1>3, <1>4, <1>5, <1>6, <1>7, <1>8 DEF Next, TakionStep, SendStep, Finished

\* At first there is no send buffer, and it is closed.
LEMMA DoorInit == Init => Door!GateInit
BY DEF Init, Door!GateInit, AtDoor

\* The send buffer of every run is opened after it exists, entered only while it is
\* open, and finalised with nobody inside.
THEOREM DoorRefines == Spec => DoorIsGate
<1> QED
  BY DoorInit, DoorStep, Invariance, PTL DEF Spec, DoorIsGate, Door!GateSpec

\* Every step is a step of the socket's gate, or none.
LEMMA SocketStep == IInv /\ [Next]_vars => [Socket!GateNext]_(Socket!gateVars)
<1> SUFFICES ASSUME IInv, [Next]_vars PROVE [Socket!GateNext]_(Socket!gateVars)
  OBVIOUS
<1> DEFINE Inside == {c \in Callers : spc[c] \in Sending}
<1> USE DEF Socket!GateNext, Socket!gateVars
<1>1. CASE Connect \/ ConnectWithoutThread
  <2>1. fd # "live"
    BY <1>1 DEF Connect, ConnectWithoutThread, IInv, SocketPhase
  <2>2. Socket!Create
    BY <1>1, <2>1 DEF Connect, ConnectWithoutThread, Socket!Create
  <2> QED
    BY <2>2
<1>2. CASE ConnectFails \/ ConnectFailsQuietly
  <2>1. fd # "live" /\ fd' # "live"
    BY <1>2 DEF ConnectFails, ConnectFailsQuietly, Unwind, IInv, SocketPhase
  <2> QED
    BY <1>2, <2>1 DEF ConnectFails, ConnectFailsQuietly, Unwind
<1>3. CASE CloseSock
  <2>1. CASE closeSocket
    <3>1. Socket!Destroy
      BY <1>3, <2>1 DEF CloseSock, Socket!Destroy, IInv, SocketPhase, SockFree
    <3> QED
      BY <3>1
  <2>2. CASE ~closeSocket
    BY <1>3, <2>2 DEF CloseSock
  <2> QED
    BY <2>1, <2>2
<1>4. ASSUME NEW c \in Callers, SendStep(c)
      PROVE  [Socket!GateNext]_(Socket!gateVars)
  <2>1. fd' = fd /\ sockOpen' = sockOpen
    BY <1>4 DEF SendStep, BeginBuffered, BeginRaw, EnterDoor, LockSock, SendDone, Push,
       sendFrame
  <2>2. \E pc : spc' = [spc EXCEPT ![c] = pc]
    BY <1>4 DEF SendStep, BeginBuffered, BeginRaw, EnterDoor, LockSock, SendDone, Push, Goto
  <2>3. spc \in [Callers -> {"idle", "bufWait", "bufSock", "bufSending", "bufPush",
                             "rawSock", "rawSending"}]
    BY DEF IInv, TypeOK
  <2>4. CASE spc[c] \notin Sending /\ spc'[c] \notin Sending
    <3>1. Inside' = Inside
      BY <2>2, <2>3, <2>4
    <3> QED
      BY <2>1, <3>1
  <2>5. CASE spc[c] \in Sending /\ spc'[c] \in Sending
    <3>1. Inside' = Inside
      BY <2>2, <2>3, <2>5
    <3> QED
      BY <2>1, <3>1
  <2>6. CASE spc[c] \in Sending /\ spc'[c] \notin Sending
    <3>1. Inside' = Inside \ {c} /\ c \in Inside
      BY <2>2, <2>3, <2>6
    <3>2. Socket!Leave(c)
      BY <2>1, <3>1 DEF Socket!Leave
    <3> QED
      BY <3>2
  <2>7. CASE spc[c] \notin Sending /\ spc'[c] \in Sending
    <3>1. Inside' = Inside \cup {c} /\ c \notin Inside
      BY <2>2, <2>3, <2>7
    <3>2. sockOpen
      BY <1>4, <2>3, <2>7 DEF SendStep, BeginBuffered, BeginRaw, EnterDoor, LockSock,
         SendDone, Push, Goto, Sending
    <3>3. fd = "live"
      BY <3>2 DEF IInv, SocketPhase
    <3>4. Socket!Enter(c)
      BY <2>1, <3>1, <3>2, <3>3 DEF Socket!Enter
    <3> QED
      BY <3>4
  <2> QED
    BY <2>4, <2>5, <2>6, <2>7
<1>5. CASE \/ Close \/ CloseJoined \/ HandshakeDone \/ HandshakeFails \/ OpenDoor
           \/ LoopEnds \/ CloseDoor \/ FiniSignal \/ FiniJoined \/ Report
  BY <1>5 DEF Close, CloseJoined, HandshakeDone, HandshakeFails, OpenDoor, LoopEnds,
     CloseDoor, FiniSignal, FiniJoined, Report
<1>6. CASE UNCHANGED vars
  BY <1>6 DEF vars
<1>7. CASE \E s \in Senders : StopSender(s)
  BY <1>7 DEF StopSender
<1> QED
  BY <1>1, <1>2, <1>3, <1>4, <1>5, <1>6, <1>7 DEF Next, TakionStep, SendStep, Finished

\* At first there is no socket, and it is closed.
LEMMA SocketInit == Init => Socket!GateInit
BY DEF Init, Socket!GateInit, Sending

\* The socket of every run is sent on only while sock_open, and closed with no thread
\* inside send().
THEOREM SocketRefines == Spec => SocketIsGate
<1> QED
  BY SocketInit, SocketStep, Invariance, PTL DEF Spec, SocketIsGate, Socket!GateSpec
===============================================================================
