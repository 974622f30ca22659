-------------------------- MODULE SessionCtrlProofs --------------------------
(***************************************************************************)
(* The safety of SessionCtrl for every set of modes and every number of    *)
(* messages, PINs and console messages.  IInv is inductive: there is one   *)
(* lemma for each of its parts, and in it one step for each group of       *)
(* actions.  The predicate of a wait is never expanded: no safety property *)
(* depends on why a wait ended, only on what is tested after it.           *)
(***************************************************************************)
EXTENDS SessionCtrl, TLAPS

\* How a thread moves on, and what a step of each thread leaves alone.
USE DEF setup, shared, ctrl, ctrlOwn, budget, GoTo, Go, Wait, WaitIn, ExitTo, SKeep,
   KeepCtrl, KeepFlags, SOnly, CtrlFailedExit, CGo, CStep, CKeep, SharedSame, ConnSame,
   MsgSame, AKeep, RKeep

IInv == SessionInv /\ NotifyNotLost /\ StreamIsAgreed

\* chiaki_session_init leaves a session in which all of this holds.
LEMMA InitInv == Init => IInv
<1> SUFFICES ASSUME Init PROVE IInv
  OBVIOUS
<1> USE SessionCtrlAssumption DEF Init
<1>1. TypeOK
  <2>1. Places
    BY DEF Places, Waits, SFree, SBusy, CBusy, CFree
  <2>2. SessionFlags /\ WaitFlags
    BY DEF SessionFlags, WaitFlags
  <2>3. CtrlFlags
    BY DEF CtrlFlags
  <2>4. Values
    BY DEF Values, Reasons, Kinds
  <2>5. Counts
    BY DEF Counts
  <2> QED
    BY <2>1, <2>2, <2>3, <2>4, <2>5 DEF TypeOK
<1>2. Threads /\ StopCauses /\ LoggedIn /\ NoThreadAfterQuit /\ StoppedIsAsked
  BY DEF Threads, BeforeCtrl, StopCauses, LoggedIn, NoThreadAfterQuit, StoppedIsAsked
<1>3. NotifyNotLost /\ StreamIsAgreed
  BY DEF NotifyNotLost, StreamIsAgreed
<1> QED
  BY <1>1, <1>2, <1>3 DEF IInv, SessionInv

\* A signal leaves the waiter a Boolean to look at, whoever waits.
LEMMA SignalType == Signal => sig' \in BOOLEAN
BY DEF Signal

\* Every thread stays at a program point of its own function.
LEMMA PlacesStep == IInv /\ [Next]_vars => Places'
<1> SUFFICES ASSUME IInv, [Next]_vars PROVE Places'
  OBVIOUS
<1> USE SessionCtrlAssumption DEF IInv, SessionInv, TypeOK, AllModes, Places, Waits, SFree,
   SBusy, CBusy, CFree, Values, Reasons, Kinds, Threads, BeforeCtrl
<1>1. CASE SWaitOn
  BY <1>1 DEF SWaitOn
<1>2. CASE SBegin
  BY <1>2 DEF SBegin, SStart, AfterRegist, SRegistWaitEnds, Woken, TimedOut, SRegistJoin,
     SRequest, SRequestEnds, MayRetry, SSettleEnds
<1>3. CASE SLogin
  BY <1>3 DEF SLogin, SCtrlWaitEnds, Woken, TimedOut, PinLoop, SPinWaitEnds, SPinForward,
     CHolds, SAnswerWaitEnds
<1>4. CASE SDataUp
  <2>1. CASE SData
    BY <2>1 DEF SData, ToStream
  <2>2. CASE SPunchWaitEnds
    BY <2>2 DEF SPunchWaitEnds, Woken, TimedOut, ToStream
  <2>3. CASE SRemoteWaitEnds
    BY <2>3 DEF SRemoteWaitEnds, Woken, TimedOut, ToStream
  <2> QED
    BY <1>4, <2>1, <2>2, <2>3 DEF SDataUp
<1>5. CASE SAgree
  BY <1>5 DEF SAgree, SFallback, FallbackId, SSenkusha, SSwitchWaitEnds, Woken, TimedOut
<1>6. CASE SEnd
  BY <1>6 DEF SEnd, SStreamStops, StreamEnds, SCtrlStop, CHolds, SCtrlJoin, SQuit
<1>7. CASE CSetUp
  BY <1>7 DEF CSetUp, CConnect, CTcp, CHttp, Arrives
<1>8. CASE CFails
  BY <1>8 DEF CFails, CFailInner, CFail, SHolds, Signal, CFailConnect, CFailLoop, CFailEnd
<1>9. CASE CHandles
  BY <1>9 DEF CHandles, CSessionIdSeen, SHolds, CSessionIdSet, FallbackId, Signal,
     CPinRequest, CHandle, CRequestPin, CPinIncorrect, CLoginSuccess, CSwitch, COverflow
<1>10. CASE CServes
  BY <1>10 DEF CServes, CSelect, Pending, CNotified, CDrain, CSent
<1>11. CASE RNext \/ ARaise
  BY <1>11 DEF RNext, RNet, RCallback, SHolds, Signal, ARaise
<1>12. CASE SStreamFails \/ CReceive
  BY <1>12 DEF SStreamFails, StreamErrors, StreamEnds, CReceive, Arrives
<1>13. CASE Application
  BY <1>13 DEF Application, AStop, InUse, SHolds, Signal, AEnterPin, AGiveSocket, AQueue,
     CHolds
<1>14. CASE UNCHANGED vars
  BY <1>14 DEF vars
<1> QED
  BY <1>1, <1>2, <1>3, <1>4, <1>5, <1>6, <1>7, <1>8, <1>9, <1>10, <1>11, <1>12, <1>13, <1>14
  DEF Next, SNext, CNext, Environment

\* What a stop, a failure and a signal set stays Boolean.
LEMMA SessionFlagsStep == IInv /\ [Next]_vars => SessionFlags'
<1> SUFFICES ASSUME IInv, [Next]_vars PROVE SessionFlags'
  OBVIOUS
<1> USE SessionCtrlAssumption DEF IInv, SessionInv, TypeOK, AllModes, SessionFlags, Values,
   Reasons, Kinds
<1>1. CASE SWaitOn
  BY <1>1 DEF SWaitOn
<1>2. CASE SBegin
  BY <1>2 DEF SBegin, SStart, AfterRegist, SRegistWaitEnds, Woken, TimedOut, SRegistJoin,
     SRequest, SRequestEnds, MayRetry, SSettleEnds
<1>3. CASE SLogin
  BY <1>3 DEF SLogin, SCtrlWaitEnds, Woken, TimedOut, PinLoop, SPinWaitEnds, SPinForward,
     CHolds, CBusy, SAnswerWaitEnds
<1>4. CASE SDataUp
  BY <1>4 DEF SDataUp, SData, ToStream, SPunchWaitEnds, Woken, TimedOut, SRemoteWaitEnds
<1>5. CASE SAgree
  BY <1>5 DEF SAgree, SFallback, FallbackId, SSenkusha, SSwitchWaitEnds, Woken, TimedOut
<1>6. CASE SEnd
  BY <1>6 DEF SEnd, SStreamStops, StreamEnds, SCtrlStop, CHolds, CBusy, SCtrlJoin, SQuit
<1>7. CASE CSetUp
  BY <1>7 DEF CSetUp, CConnect, CTcp, CHttp, Arrives
<1>8. CASE CFails
  BY <1>8, SignalType DEF CFails, CFailInner, CFail, SHolds, SBusy, CFailConnect, CFailLoop,
     CFailEnd
<1>9. CASE CHandles
  BY <1>9, SignalType DEF CHandles, CSessionIdSeen, SHolds, SBusy, CSessionIdSet,
     FallbackId, CPinRequest, CHandle, CRequestPin, CPinIncorrect, CLoginSuccess, CSwitch,
     COverflow
<1>10. CASE CServes
  BY <1>10 DEF CServes, CSelect, Pending, CNotified, CDrain, CSent
<1>11. CASE RNext \/ ARaise
  BY <1>11, SignalType DEF RNext, RNet, RCallback, SHolds, SBusy, ARaise
<1>12. CASE SStreamFails \/ CReceive
  BY <1>12 DEF SStreamFails, StreamErrors, StreamEnds, CReceive, Arrives
<1>13. CASE Application
  BY <1>13, SignalType DEF Application, AStop, InUse, SHolds, SBusy, AEnterPin, AGiveSocket,
     AQueue, CHolds, CBusy
<1>14. CASE UNCHANGED vars
  BY <1>14 DEF vars
<1> QED
  BY <1>1, <1>2, <1>3, <1>4, <1>5, <1>6, <1>7, <1>8, <1>9, <1>10, <1>11, <1>12, <1>13, <1>14
  DEF Next, SNext, CNext, Environment

\* What the other waits of the session thread test stays Boolean.
LEMMA WaitFlagsStep == IInv /\ [Next]_vars => WaitFlags'
<1> SUFFICES ASSUME IInv, [Next]_vars PROVE WaitFlags'
  OBVIOUS
<1> USE SessionCtrlAssumption DEF IInv, SessionInv, TypeOK, AllModes, WaitFlags, Values,
   Reasons, Kinds
<1>1. CASE SWaitOn
  BY <1>1 DEF SWaitOn, Waits
<1>2. CASE SBegin
  BY <1>2 DEF SBegin, SStart, AfterRegist, SRegistWaitEnds, Woken, TimedOut, SRegistJoin,
     SRequest, SRequestEnds, MayRetry, SSettleEnds
<1>3. CASE SLogin
  BY <1>3 DEF SLogin, SCtrlWaitEnds, Woken, TimedOut, PinLoop, SPinWaitEnds, SPinForward,
     CHolds, CBusy, SAnswerWaitEnds
<1>4. CASE SDataUp
  BY <1>4 DEF SDataUp, SData, ToStream, SPunchWaitEnds, Woken, TimedOut, SRemoteWaitEnds
<1>5. CASE SAgree
  BY <1>5 DEF SAgree, SFallback, FallbackId, SSenkusha, SSwitchWaitEnds, Woken, TimedOut
<1>6. CASE SEnd
  BY <1>6 DEF SEnd, SStreamStops, StreamEnds, SCtrlStop, CHolds, CBusy, SCtrlJoin, SQuit
<1>7. CASE CSetUp
  BY <1>7 DEF CSetUp, CConnect, CTcp, CHttp, Arrives
<1>8. CASE CFails
  BY <1>8 DEF CFails, CFailInner, CFail, SHolds, SBusy, Signal, Waits, CFailConnect,
     CFailLoop, CFailEnd
<1>9. CASE CHandles
  <2>1. CASE CSessionIdSeen \/ CSessionIdSet
    BY <2>1 DEF CSessionIdSeen, SHolds, SBusy, CSessionIdSet, FallbackId, Signal, Waits, CHandle
  <2>2. CASE CPinRequest \/ CPinIncorrect
    BY <2>2 DEF SHolds, SBusy, Signal, Waits, CPinRequest, CHandle, CRequestPin, CPinIncorrect
  <2>3. CASE CLoginSuccess \/ CSwitch \/ COverflow
    BY <2>3 DEF SHolds, SBusy, Signal, Waits, CHandle, CLoginSuccess, CSwitch, COverflow
  <2> QED
    BY <1>9, <2>1, <2>2, <2>3 DEF CHandles
<1>10. CASE CServes
  BY <1>10 DEF CServes, CSelect, Pending, CNotified, CDrain, CSent
<1>11. CASE RNext \/ ARaise
  BY <1>11 DEF RNext, RNet, RCallback, SHolds, SBusy, Signal, Waits, ARaise
<1>12. CASE SStreamFails \/ CReceive
  BY <1>12 DEF SStreamFails, StreamErrors, StreamEnds, CReceive, Arrives
<1>13. CASE Application
  BY <1>13 DEF Application, AStop, InUse, SHolds, SBusy, Signal, Waits, AEnterPin,
     AGiveSocket, AQueue, CHolds, CBusy
<1>14. CASE UNCHANGED vars
  BY <1>14 DEF vars
<1> QED
  BY <1>1, <1>2, <1>3, <1>4, <1>5, <1>6, <1>7, <1>8, <1>9, <1>10, <1>11, <1>12, <1>13, <1>14
  DEF Next, SNext, CNext, Environment

\* What notif_mutex protects, and what the ctrl thread keeps to itself, stays Boolean.
LEMMA CtrlFlagsStep == IInv /\ [Next]_vars => CtrlFlags'
<1> SUFFICES ASSUME IInv, [Next]_vars PROVE CtrlFlags'
  OBVIOUS
<1> USE SessionCtrlAssumption DEF IInv, SessionInv, TypeOK, AllModes, CtrlFlags, Values,
   Reasons, Kinds
<1>1. CASE SWaitOn
  BY <1>1 DEF SWaitOn, Waits
<1>2. CASE SBegin
  BY <1>2 DEF SBegin, SStart, AfterRegist, SRegistWaitEnds, Woken, TimedOut, SRegistJoin,
     SRequest, SRequestEnds, MayRetry, SSettleEnds
<1>3. CASE SLogin
  BY <1>3 DEF SLogin, SCtrlWaitEnds, Woken, TimedOut, PinLoop, SPinWaitEnds, SPinForward,
     CHolds, CBusy, SAnswerWaitEnds
<1>4. CASE SDataUp
  BY <1>4 DEF SDataUp, SData, ToStream, SPunchWaitEnds, Woken, TimedOut, SRemoteWaitEnds
<1>5. CASE SAgree
  BY <1>5 DEF SAgree, SFallback, FallbackId, SSenkusha, SSwitchWaitEnds, Woken, TimedOut
<1>6. CASE SEnd
  BY <1>6 DEF SEnd, SStreamStops, StreamEnds, SCtrlStop, CHolds, CBusy, SCtrlJoin, SQuit
<1>7. CASE CSetUp
  <2>1. CASE CConnect
    BY <2>1 DEF CConnect
  <2>2. CASE CTcp
    BY <2>2 DEF CTcp
  <2>3. CASE CHttp
    BY <2>3 DEF CHttp, Arrives
  <2> QED
    BY <1>7, <2>1, <2>2, <2>3 DEF CSetUp
<1>8. CASE CFails
  BY <1>8 DEF CFails, CFailInner, CFail, SHolds, SBusy, Signal, Waits, CFailConnect,
     CFailLoop, CFailEnd
<1>9. CASE CHandles
  <2>1. CASE CSessionIdSeen \/ CSessionIdSet
    BY <2>1 DEF CSessionIdSeen, SHolds, SBusy, CSessionIdSet, FallbackId, Signal, Waits, CHandle
  <2>2. CASE CPinRequest \/ CPinIncorrect
    BY <2>2 DEF SHolds, SBusy, Signal, Waits, CPinRequest, CHandle, CRequestPin, CPinIncorrect
  <2>3. CASE CLoginSuccess \/ CSwitch \/ COverflow
    BY <2>3 DEF SHolds, SBusy, Signal, Waits, CHandle, CLoginSuccess, CSwitch, COverflow
  <2> QED
    BY <1>9, <2>1, <2>2, <2>3 DEF CHandles
<1>10. CASE CServes
  BY <1>10 DEF CServes, CSelect, Pending, CNotified, CDrain, CSent
<1>11. CASE RNext \/ ARaise
  BY <1>11 DEF RNext, RNet, RCallback, SHolds, SBusy, Signal, Waits, ARaise
<1>12. CASE SStreamFails \/ CReceive
  BY <1>12 DEF SStreamFails, StreamErrors, StreamEnds, CReceive, Arrives
<1>13. CASE Application
  BY <1>13 DEF Application, AStop, InUse, SHolds, SBusy, Signal, Waits, AEnterPin,
     AGiveSocket, AQueue, CHolds, CBusy
<1>14. CASE UNCHANGED vars
  BY <1>14 DEF vars
<1> QED
  BY <1>1, <1>2, <1>3, <1>4, <1>5, <1>6, <1>7, <1>8, <1>9, <1>10, <1>11, <1>12, <1>13, <1>14
  DEF Next, SNext, CNext, Environment

\* The setup, the session id, the reason and recv_buf keep their types.
LEMMA ValuesStep == IInv /\ [Next]_vars => Values'
<1> SUFFICES ASSUME IInv, [Next]_vars PROVE Values'
  OBVIOUS
<1> USE SessionCtrlAssumption DEF IInv, SessionInv, TypeOK, AllModes, Values, Reasons, Kinds
<1>1. CASE SWaitOn
  BY <1>1 DEF SWaitOn, Waits
<1>2. CASE SBegin
  <2>1. CASE SStart
    BY <2>1 DEF SStart, AfterRegist
  <2>2. CASE SRegistWaitEnds
    BY <2>2 DEF SRegistWaitEnds, Woken, TimedOut
  <2>3. CASE SRegistJoin
    BY <2>3 DEF SRegistJoin, AfterRegist
  <2>4. CASE SRequest
    BY <2>4 DEF SRequest
  <2>5. CASE SRequestEnds
    BY <2>5 DEF SRequestEnds, MayRetry
  <2>6. CASE SSettleEnds
    BY <2>6 DEF SSettleEnds, Woken, TimedOut
  <2> QED
    BY <1>2, <2>1, <2>2, <2>3, <2>4, <2>5, <2>6 DEF SBegin
<1>3. CASE SLogin
  BY <1>3 DEF SLogin, SCtrlWaitEnds, Woken, TimedOut, PinLoop, SPinWaitEnds, SPinForward,
     CHolds, CBusy, SAnswerWaitEnds
<1>4. CASE SDataUp
  <2>1. CASE SData
    BY <2>1 DEF SData, ToStream
  <2>2. CASE SPunchWaitEnds
    BY <2>2 DEF SPunchWaitEnds, Woken, TimedOut, ToStream
  <2>3. CASE SRemoteWaitEnds
    BY <2>3 DEF SRemoteWaitEnds, Woken, TimedOut, ToStream
  <2> QED
    BY <1>4, <2>1, <2>2, <2>3 DEF SDataUp
<1>5. CASE SAgree
  BY <1>5 DEF SAgree, SFallback, FallbackId, SSenkusha, SSwitchWaitEnds, Woken, TimedOut
<1>6. CASE SEnd
  BY <1>6 DEF SEnd, SStreamStops, StreamEnds, SCtrlStop, CHolds, CBusy, SCtrlJoin, SQuit
<1>7. CASE CSetUp
  BY <1>7 DEF CSetUp, CConnect, CTcp, CHttp, Arrives
<1>8. CASE CFails
  BY <1>8 DEF CFails, CFailInner, CFail, SHolds, SBusy, Signal, Waits, CFailConnect,
     CFailLoop, CFailEnd
<1>9. CASE CHandles
  <2>1. CASE CSessionIdSeen \/ CSessionIdSet
    BY <2>1 DEF CSessionIdSeen, SHolds, SBusy, CSessionIdSet, FallbackId, Signal, Waits, CHandle
  <2>2. CASE CPinRequest \/ CPinIncorrect
    BY <2>2 DEF SHolds, SBusy, Signal, Waits, CPinRequest, CHandle, CRequestPin, CPinIncorrect
  <2>3. CASE CLoginSuccess \/ CSwitch \/ COverflow
    BY <2>3 DEF SHolds, SBusy, Signal, Waits, CHandle, CLoginSuccess, CSwitch, COverflow
  <2> QED
    BY <1>9, <2>1, <2>2, <2>3 DEF CHandles
<1>10. CASE CServes
  BY <1>10 DEF CServes, CSelect, Pending, CNotified, CDrain, CSent
<1>11. CASE RNext \/ ARaise
  BY <1>11 DEF RNext, RNet, RCallback, SHolds, SBusy, Signal, Waits, ARaise
<1>12. CASE SStreamFails \/ CReceive
  BY <1>12 DEF SStreamFails, StreamErrors, StreamEnds, CReceive, Arrives
<1>13. CASE Application
  BY <1>13 DEF Application, AStop, InUse, SHolds, SBusy, Signal, Waits, AEnterPin,
     AGiveSocket, AQueue, CHolds, CBusy
<1>14. CASE UNCHANGED vars
  BY <1>14 DEF vars
<1> QED
  BY <1>1, <1>2, <1>3, <1>4, <1>5, <1>6, <1>7, <1>8, <1>9, <1>10, <1>11, <1>12, <1>13, <1>14
  DEF Next, SNext, CNext, Environment

\* Requests, events and queued messages stay within their bounds.
LEMMA CountsStep == IInv /\ [Next]_vars => Counts'
<1> SUFFICES ASSUME IInv, [Next]_vars PROVE Counts'
  OBVIOUS
<1> USE SessionCtrlAssumption DEF IInv, SessionInv, TypeOK, AllModes, Counts, Places, Waits,
   SFree, SBusy, CBusy, CFree, Threads, BeforeCtrl
<1>1. CASE SWaitOn
  BY <1>1 DEF SWaitOn
<1>2. CASE SBegin
  BY <1>2 DEF SBegin, SStart, AfterRegist, SRegistWaitEnds, Woken, TimedOut, SRegistJoin,
     SRequest, SRequestEnds, MayRetry, SSettleEnds
<1>3. CASE SLogin
  BY <1>3 DEF SLogin, SCtrlWaitEnds, Woken, TimedOut, PinLoop, SPinWaitEnds, SPinForward,
     CHolds, SAnswerWaitEnds
<1>4. CASE SDataUp
  BY <1>4 DEF SDataUp, SData, ToStream, SPunchWaitEnds, Woken, TimedOut, SRemoteWaitEnds
<1>5. CASE SAgree
  BY <1>5 DEF SAgree, SFallback, FallbackId, SSenkusha, SSwitchWaitEnds, Woken, TimedOut
<1>6. CASE SEnd
  BY <1>6 DEF SEnd, SStreamStops, StreamEnds, SCtrlStop, CHolds, SCtrlJoin, SQuit
<1>7. CASE CSetUp
  BY <1>7 DEF CSetUp, CConnect, CTcp, CHttp, Kinds, Arrives
<1>8. CASE CFails
  BY <1>8 DEF CFails, CFailInner, CFail, SHolds, Signal, CFailConnect, CFailLoop, CFailEnd
<1>9. CASE CHandles
  BY <1>9 DEF CHandles, CSessionIdSeen, SHolds, CSessionIdSet, FallbackId, Signal,
     CPinRequest, CHandle, CRequestPin, CPinIncorrect, CLoginSuccess, CSwitch, COverflow
<1>10. CASE CServes
  BY <1>10 DEF CServes, CSelect, Pending, CNotified, CDrain, CSent
<1>11. CASE RNext \/ ARaise
  BY <1>11 DEF RNext, RNet, RCallback, SHolds, Signal, ARaise
<1>12. CASE SStreamFails \/ CReceive
  BY <1>12 DEF SStreamFails, StreamErrors, StreamEnds, CReceive, Kinds, Arrives
<1>13. CASE Application
  BY <1>13 DEF Application, AStop, InUse, SHolds, Signal, AEnterPin, AGiveSocket, AQueue,
     CHolds
<1>14. CASE UNCHANGED vars
  BY <1>14 DEF vars
<1> QED
  BY <1>1, <1>2, <1>3, <1>4, <1>5, <1>6, <1>7, <1>8, <1>9, <1>10, <1>11, <1>12, <1>13, <1>14
  DEF Next, SNext, CNext, Environment

\* A thread that is started is joined before the session thread goes on to the end.
LEMMA ThreadsStep == IInv /\ [Next]_vars => Threads'
<1> SUFFICES ASSUME IInv, [Next]_vars PROVE Threads'
  OBVIOUS
<1> USE SessionCtrlAssumption DEF IInv, SessionInv, TypeOK, AllModes, Threads, BeforeCtrl,
   Places, Waits, SFree, SBusy, CBusy, CFree, Counts, Values, Reasons, Kinds
<1>1. CASE SWaitOn
  BY <1>1 DEF SWaitOn
<1>2. CASE SBegin
  BY <1>2 DEF SBegin, SStart, AfterRegist, SRegistWaitEnds, Woken, TimedOut, SRegistJoin,
     SRequest, SRequestEnds, MayRetry, SSettleEnds
<1>3. CASE SLogin
  BY <1>3 DEF SLogin, SCtrlWaitEnds, Woken, TimedOut, PinLoop, SPinWaitEnds, SPinForward,
     CHolds, SAnswerWaitEnds
<1>4. CASE SDataUp
  <2>1. CASE SData
    BY <2>1 DEF SData, ToStream
  <2>2. CASE SPunchWaitEnds
    BY <2>2 DEF SPunchWaitEnds, Woken, TimedOut, ToStream
  <2>3. CASE SRemoteWaitEnds
    BY <2>3 DEF SRemoteWaitEnds, Woken, TimedOut, ToStream
  <2> QED
    BY <1>4, <2>1, <2>2, <2>3 DEF SDataUp
<1>5. CASE SAgree
  BY <1>5 DEF SAgree, SFallback, FallbackId, SSenkusha, SSwitchWaitEnds, Woken, TimedOut
<1>6. CASE SEnd
  BY <1>6 DEF SEnd, SStreamStops, StreamEnds, SCtrlStop, CHolds, SCtrlJoin, SQuit
<1>7. CASE CSetUp
  BY <1>7 DEF CSetUp, CConnect, CTcp, CHttp, Arrives
<1>8. CASE CFails
  BY <1>8 DEF CFails, CFailInner, CFail, SHolds, Signal, CFailConnect, CFailLoop, CFailEnd
<1>9. CASE CHandles
  BY <1>9 DEF CHandles, CSessionIdSeen, SHolds, CSessionIdSet, FallbackId, Signal,
     CPinRequest, CHandle, CRequestPin, CPinIncorrect, CLoginSuccess, CSwitch, COverflow
<1>10. CASE CServes
  BY <1>10 DEF CServes, CSelect, Pending, CNotified, CDrain, CSent
<1>11. CASE RNext \/ ARaise
  BY <1>11 DEF RNext, RNet, RCallback, SHolds, Signal, ARaise
<1>12. CASE SStreamFails \/ CReceive
  BY <1>12 DEF SStreamFails, StreamErrors, StreamEnds, CReceive, Arrives
<1>13. CASE Application
  BY <1>13 DEF Application, AStop, InUse, SHolds, Signal, AEnterPin, AGiveSocket, AQueue,
     CHolds
<1>14. CASE UNCHANGED vars
  BY <1>14 DEF vars
<1> QED
  BY <1>1, <1>2, <1>3, <1>4, <1>5, <1>6, <1>7, <1>8, <1>9, <1>10, <1>11, <1>12, <1>13, <1>14
  DEF Next, SNext, CNext, Environment

\* should_stop and the reason "stopped" keep a cause.
LEMMA StopCausesStep == IInv /\ [Next]_vars => StopCauses'
<1> SUFFICES ASSUME IInv, [Next]_vars PROVE StopCauses'
  OBVIOUS
<1> USE SessionCtrlAssumption DEF IInv, SessionInv, TypeOK, AllModes, StopCauses, Values,
   Reasons, Kinds, Threads, BeforeCtrl
<1>1. CASE SWaitOn
  BY <1>1 DEF SWaitOn, Waits
<1>2. CASE SBegin
  BY <1>2 DEF SBegin, SStart, AfterRegist, SRegistWaitEnds, Woken, TimedOut, SRegistJoin,
     SRequest, SRequestEnds, MayRetry, SSettleEnds
<1>3. CASE SLogin
  BY <1>3 DEF SLogin, SCtrlWaitEnds, Woken, TimedOut, PinLoop, SPinWaitEnds, SPinForward,
     CHolds, CBusy, SAnswerWaitEnds
<1>4. CASE SDataUp
  <2>1. CASE SData
    BY <2>1 DEF SData, ToStream
  <2>2. CASE SPunchWaitEnds
    BY <2>2 DEF SPunchWaitEnds, Woken, TimedOut, ToStream
  <2>3. CASE SRemoteWaitEnds
    BY <2>3 DEF SRemoteWaitEnds, Woken, TimedOut, ToStream
  <2> QED
    BY <1>4, <2>1, <2>2, <2>3 DEF SDataUp
<1>5. CASE SAgree
  BY <1>5 DEF SAgree, SFallback, FallbackId, SSenkusha, SSwitchWaitEnds, Woken, TimedOut
<1>6. CASE SEnd
  BY <1>6 DEF SEnd, SStreamStops, StreamEnds, SCtrlStop, CHolds, CBusy, SCtrlJoin, SQuit
<1>7. CASE CSetUp
  BY <1>7 DEF CSetUp, CConnect, CTcp, CHttp, Arrives
<1>8. CASE CFails
  BY <1>8 DEF CFails, CFailInner, CFail, SHolds, SBusy, Signal, Waits, CFailConnect,
     CFailLoop, CFailEnd
<1>9. CASE CHandles
  <2>1. CASE CSessionIdSeen \/ CSessionIdSet
    BY <2>1 DEF CSessionIdSeen, SHolds, SBusy, CSessionIdSet, FallbackId, Signal, Waits, CHandle
  <2>2. CASE CPinRequest \/ CPinIncorrect
    BY <2>2 DEF SHolds, SBusy, Signal, Waits, CPinRequest, CHandle, CRequestPin, CPinIncorrect
  <2>3. CASE CLoginSuccess \/ CSwitch \/ COverflow
    BY <2>3 DEF SHolds, SBusy, Signal, Waits, CHandle, CLoginSuccess, CSwitch, COverflow
  <2> QED
    BY <1>9, <2>1, <2>2, <2>3 DEF CHandles
<1>10. CASE CServes
  BY <1>10 DEF CServes, CSelect, Pending, CNotified, CDrain, CSent
<1>11. CASE RNext \/ ARaise
  BY <1>11 DEF RNext, RNet, RCallback, SHolds, SBusy, Signal, Waits, ARaise
<1>12. CASE SStreamFails \/ CReceive
  BY <1>12 DEF SStreamFails, StreamErrors, StreamEnds, CReceive, Arrives
<1>13. CASE Application
  BY <1>13 DEF Application, AStop, InUse, SHolds, SBusy, Signal, Waits, AEnterPin,
     AGiveSocket, AQueue, CHolds, CBusy
<1>14. CASE UNCHANGED vars
  BY <1>14 DEF vars
<1> QED
  BY <1>1, <1>2, <1>3, <1>4, <1>5, <1>6, <1>7, <1>8, <1>9, <1>10, <1>11, <1>12, <1>13, <1>14
  DEF Next, SNext, CNext, Environment

\* The session thread gets past the login only with an id, and no id is taken back.
LEMMA LoggedInStep == IInv /\ [Next]_vars => LoggedIn'
<1> SUFFICES ASSUME IInv, [Next]_vars PROVE LoggedIn'
  OBVIOUS
<1> USE SessionCtrlAssumption DEF IInv, SessionInv, TypeOK, AllModes, LoggedIn, Values,
   Reasons, Kinds, Places, Waits, SFree, SBusy, CBusy, CFree
<1>1. CASE SWaitOn
  BY <1>1 DEF SWaitOn
<1>2. CASE SBegin
  BY <1>2 DEF SBegin, SStart, AfterRegist, SRegistWaitEnds, Woken, TimedOut, SRegistJoin,
     SRequest, SRequestEnds, MayRetry, SSettleEnds
<1>3. CASE SLogin
  BY <1>3 DEF SLogin, SCtrlWaitEnds, Woken, TimedOut, PinLoop, SPinWaitEnds, SPinForward,
     CHolds, SAnswerWaitEnds
<1>4. CASE SDataUp
  BY <1>4 DEF SDataUp, SData, ToStream, SPunchWaitEnds, Woken, TimedOut, SRemoteWaitEnds
<1>5. CASE SAgree
  BY <1>5 DEF SAgree, SFallback, FallbackId, SSenkusha, SSwitchWaitEnds, Woken, TimedOut
<1>6. CASE SEnd
  BY <1>6 DEF SEnd, SStreamStops, StreamEnds, SCtrlStop, CHolds, SCtrlJoin, SQuit
<1>7. CASE CSetUp
  BY <1>7 DEF CSetUp, CConnect, CTcp, CHttp, Arrives
<1>8. CASE CFails
  BY <1>8 DEF CFails, CFailInner, CFail, SHolds, Signal, CFailConnect, CFailLoop, CFailEnd
<1>9. CASE CHandles
  BY <1>9 DEF CHandles, CSessionIdSeen, SHolds, CSessionIdSet, FallbackId, Signal,
     CPinRequest, CHandle, CRequestPin, CPinIncorrect, CLoginSuccess, CSwitch, COverflow
<1>10. CASE CServes
  BY <1>10 DEF CServes, CSelect, Pending, CNotified, CDrain, CSent
<1>11. CASE RNext \/ ARaise
  BY <1>11 DEF RNext, RNet, RCallback, SHolds, Signal, ARaise
<1>12. CASE SStreamFails \/ CReceive
  BY <1>12 DEF SStreamFails, StreamErrors, StreamEnds, CReceive, Arrives
<1>13. CASE Application
  BY <1>13 DEF Application, AStop, InUse, SHolds, Signal, AEnterPin, AGiveSocket, AQueue,
     CHolds
<1>14. CASE UNCHANGED vars
  BY <1>14 DEF vars
<1> QED
  BY <1>1, <1>2, <1>3, <1>4, <1>5, <1>6, <1>7, <1>8, <1>9, <1>10, <1>11, <1>12, <1>13, <1>14
  DEF Next, SNext, CNext, Environment

\* Whoever leaves work for the ctrl thread raises the pipe, and the pipe is reset only when
\* there is none.
LEMMA NotifyNotLostStep == IInv /\ [Next]_vars => NotifyNotLost'
<1> SUFFICES ASSUME IInv, [Next]_vars PROVE NotifyNotLost'
  OBVIOUS
<1> USE SessionCtrlAssumption DEF IInv, SessionInv, TypeOK, AllModes, NotifyNotLost,
   CtrlFlags, Counts, Values, Reasons, Kinds
<1>1. CASE SWaitOn
  BY <1>1 DEF SWaitOn, Waits
<1>2. CASE SBegin
  BY <1>2 DEF SBegin, SStart, AfterRegist, SRegistWaitEnds, Woken, TimedOut, SRegistJoin,
     SRequest, SRequestEnds, MayRetry, SSettleEnds
<1>3. CASE SLogin
  BY <1>3 DEF SLogin, SCtrlWaitEnds, Woken, TimedOut, PinLoop, SPinWaitEnds, SPinForward,
     CHolds, CBusy, SAnswerWaitEnds
<1>4. CASE SDataUp
  BY <1>4 DEF SDataUp, SData, ToStream, SPunchWaitEnds, Woken, TimedOut, SRemoteWaitEnds
<1>5. CASE SAgree
  BY <1>5 DEF SAgree, SFallback, FallbackId, SSenkusha, SSwitchWaitEnds, Woken, TimedOut
<1>6. CASE SEnd
  BY <1>6 DEF SEnd, SStreamStops, StreamEnds, SCtrlStop, CHolds, CBusy, SCtrlJoin, SQuit
<1>7. CASE CSetUp
  BY <1>7 DEF CSetUp, CConnect, CTcp, CHttp, Arrives
<1>8. CASE CFails
  BY <1>8 DEF CFails, CFailInner, CFail, SHolds, SBusy, Signal, Waits, CFailConnect,
     CFailLoop, CFailEnd
<1>9. CASE CHandles
  <2>1. CASE CSessionIdSeen \/ CSessionIdSet
    BY <2>1 DEF CSessionIdSeen, SHolds, SBusy, CSessionIdSet, FallbackId, Signal, Waits, CHandle
  <2>2. CASE CPinRequest \/ CPinIncorrect
    BY <2>2 DEF SHolds, SBusy, Signal, Waits, CPinRequest, CHandle, CRequestPin, CPinIncorrect
  <2>3. CASE CLoginSuccess \/ CSwitch \/ COverflow
    BY <2>3 DEF SHolds, SBusy, Signal, Waits, CHandle, CLoginSuccess, CSwitch, COverflow
  <2> QED
    BY <1>9, <2>1, <2>2, <2>3 DEF CHandles
<1>10. CASE CServes
  BY <1>10 DEF CServes, CSelect, Pending, CNotified, CDrain, CSent
<1>11. CASE RNext \/ ARaise
  BY <1>11 DEF RNext, RNet, RCallback, SHolds, SBusy, Signal, Waits, ARaise
<1>12. CASE SStreamFails \/ CReceive
  BY <1>12 DEF SStreamFails, StreamErrors, StreamEnds, CReceive, Arrives
<1>13. CASE Application
  BY <1>13 DEF Application, AStop, InUse, SHolds, SBusy, Signal, Waits, AEnterPin,
     AGiveSocket, AQueue, CHolds, CBusy
<1>14. CASE UNCHANGED vars
  BY <1>14 DEF vars
<1> QED
  BY <1>1, <1>2, <1>3, <1>4, <1>5, <1>6, <1>7, <1>8, <1>9, <1>10, <1>11, <1>12, <1>13, <1>14
  DEF Next, SNext, CNext, Environment

\* The stream is entered after the login, and through rudp after the switch message.
LEMMA StreamIsAgreedStep == IInv /\ [Next]_vars => StreamIsAgreed'
<1> SUFFICES ASSUME IInv, [Next]_vars PROVE StreamIsAgreed'
  OBVIOUS
<1> USE SessionCtrlAssumption DEF IInv, SessionInv, TypeOK, AllModes, StreamIsAgreed,
   LoggedIn, Values, Reasons, Kinds, Places, Waits, SFree, SBusy, CBusy, CFree
<1>1. CASE SWaitOn
  BY <1>1 DEF SWaitOn
<1>2. CASE SBegin
  BY <1>2 DEF SBegin, SStart, AfterRegist, SRegistWaitEnds, Woken, TimedOut, SRegistJoin,
     SRequest, SRequestEnds, MayRetry, SSettleEnds
<1>3. CASE SLogin
  BY <1>3 DEF SLogin, SCtrlWaitEnds, Woken, TimedOut, PinLoop, SPinWaitEnds, SPinForward,
     CHolds, SAnswerWaitEnds
<1>4. CASE SDataUp
  BY <1>4 DEF SDataUp, SData, ToStream, SPunchWaitEnds, Woken, TimedOut, SRemoteWaitEnds
<1>5. CASE SAgree
  BY <1>5 DEF SAgree, SFallback, FallbackId, SSenkusha, SSwitchWaitEnds, Woken, TimedOut
<1>6. CASE SEnd
  BY <1>6 DEF SEnd, SStreamStops, StreamEnds, SCtrlStop, CHolds, SCtrlJoin, SQuit
<1>7. CASE CSetUp
  BY <1>7 DEF CSetUp, CConnect, CTcp, CHttp, Arrives
<1>8. CASE CFails
  BY <1>8 DEF CFails, CFailInner, CFail, SHolds, Signal, CFailConnect, CFailLoop, CFailEnd
<1>9. CASE CHandles
  BY <1>9 DEF CHandles, CSessionIdSeen, SHolds, CSessionIdSet, FallbackId, Signal,
     CPinRequest, CHandle, CRequestPin, CPinIncorrect, CLoginSuccess, CSwitch, COverflow
<1>10. CASE CServes
  BY <1>10 DEF CServes, CSelect, Pending, CNotified, CDrain, CSent
<1>11. CASE RNext \/ ARaise
  BY <1>11 DEF RNext, RNet, RCallback, SHolds, Signal, ARaise
<1>12. CASE SStreamFails \/ CReceive
  BY <1>12 DEF SStreamFails, StreamErrors, StreamEnds, CReceive, Arrives
<1>13. CASE Application
  BY <1>13 DEF Application, AStop, InUse, SHolds, Signal, AEnterPin, AGiveSocket, AQueue,
     CHolds
<1>14. CASE UNCHANGED vars
  BY <1>14 DEF vars
<1> QED
  BY <1>1, <1>2, <1>3, <1>4, <1>5, <1>6, <1>7, <1>8, <1>9, <1>10, <1>11, <1>12, <1>13, <1>14
  DEF Next, SNext, CNext, Environment

\* IInv is inductive.
LEMMA NextInv == IInv /\ [Next]_vars => IInv'
<1> SUFFICES ASSUME IInv, [Next]_vars PROVE IInv'
  OBVIOUS
<1>1. TypeOK'
  BY PlacesStep, SessionFlagsStep, WaitFlagsStep, CtrlFlagsStep, ValuesStep, CountsStep
  DEF TypeOK
<1>2. Threads' /\ StopCauses' /\ LoggedIn'
  BY ThreadsStep, StopCausesStep, LoggedInStep
<1>3. NoThreadAfterQuit' /\ StoppedIsAsked'
  BY <1>2 DEF Threads, BeforeCtrl, StopCauses, NoThreadAfterQuit, StoppedIsAsked
<1>4. NotifyNotLost' /\ StreamIsAgreed'
  BY NotifyNotLostStep, StreamIsAgreedStep
<1> QED
  BY <1>1, <1>2, <1>3, <1>4 DEF IInv, SessionInv

\* IInv holds in every reachable state of every session.
LEMMA Invariance == Spec => []IInv
<1> QED
  BY InitInv, NextInv, PTL DEF Spec

\* SessionInv: the types; a QUIT event only after every thread was joined; and a session
\* reported as stopped only when somebody asked for that.
THEOREM SessionSafe == Spec => []SessionInv
<1>1. IInv => SessionInv
  BY DEF IInv
<1> QED
  BY <1>1, Invariance, PTL

\* The ctrl thread never sleeps in its select over a stop, a PIN or a message.
THEOREM NotifySafe == Spec => []NotifyNotLost
<1>1. IInv => NotifyNotLost
  BY DEF IInv
<1> QED
  BY <1>1, Invariance, PTL

\* No session streams without an id or, through PSN, without the switch message.
THEOREM StreamSafe == Spec => []StreamIsAgreed
<1>1. IInv => StreamIsAgreed
  BY DEF IInv
<1> QED
  BY <1>1, Invariance, PTL

\* Only two actions write the session id, and both look again under state_mutex.
LEMMA IdStep == [Next]_vars => (sessionId = "console" => sessionId' = "console")
<1> SUFFICES ASSUME [Next]_vars, sessionId = "console" PROVE sessionId' = "console"
  OBVIOUS
<1>1. CASE SFallback
  BY <1>1 DEF SFallback, FallbackId, KeepFlags
<1>2. CASE CSessionIdSet
  BY <1>2 DEF CSessionIdSet, FallbackId
<1>3. CASE SWaitOn
  BY <1>3 DEF SWaitOn, Waits
<1>4. CASE SBegin
  BY <1>4 DEF SBegin, SStart, AfterRegist, SRegistWaitEnds, Woken, TimedOut, SRegistJoin,
     SRequest, SRequestEnds, MayRetry, SSettleEnds
<1>5. CASE SLogin
  BY <1>5 DEF SLogin, SCtrlWaitEnds, Woken, TimedOut, PinLoop, SPinWaitEnds, SPinForward,
     CHolds, CBusy, SAnswerWaitEnds
<1>6. CASE SDataUp
  BY <1>6 DEF SDataUp, SData, ToStream, SPunchWaitEnds, Woken, TimedOut, SRemoteWaitEnds
<1>7. CASE SSenkusha \/ SSwitchWaitEnds
  BY <1>7 DEF SSenkusha, SSwitchWaitEnds, Woken, TimedOut
<1>8. CASE SEnd
  BY <1>8 DEF SEnd, SStreamStops, StreamEnds, SCtrlStop, CHolds, CBusy, SCtrlJoin, SQuit
<1>9. CASE CSetUp
  BY <1>9 DEF CSetUp, CConnect, CTcp, CHttp, Kinds, Arrives
<1>10. CASE CFails
  BY <1>10 DEF CFails, CFailInner, CFail, SHolds, SBusy, Signal, Waits, CFailConnect,
     CFailLoop, CFailEnd
<1>11. CASE CSessionIdSeen \/ CPinRequest \/ CPinIncorrect
  BY <1>11 DEF CSessionIdSeen, SHolds, SBusy, CPinRequest, CHandle, CRequestPin, Signal,
     Waits, CPinIncorrect
<1>12. CASE CLoginSuccess \/ CSwitch \/ COverflow
  BY <1>12 DEF CLoginSuccess, CHandle, CSwitch, SHolds, SBusy, Signal, Waits, COverflow
<1>13. CASE CServes
  BY <1>13 DEF CServes, CSelect, Pending, CNotified, CDrain, CSent
<1>14. CASE RNext \/ ARaise
  BY <1>14 DEF RNext, RNet, RCallback, SHolds, SBusy, Signal, Waits, ARaise
<1>15. CASE SStreamFails \/ CReceive
  BY <1>15 DEF SStreamFails, StreamErrors, StreamEnds, CReceive, Kinds, Arrives
<1>16. CASE Application
  BY <1>16 DEF Application, AStop, InUse, SHolds, SBusy, Signal, Waits, AEnterPin,
     AGiveSocket, AQueue, CHolds, CBusy
<1>17. CASE UNCHANGED vars
  BY <1>17 DEF vars
<1> QED
  BY <1>1, <1>2, <1>3, <1>4, <1>5, <1>6, <1>7, <1>8, <1>9, <1>10, <1>11, <1>12, <1>13,
     <1>14, <1>15, <1>16, <1>17
  DEF Next, SNext, SAgree, CNext, CHandles, Environment

\* The id the console has sent is never replaced, whichever thread comes second.
THEOREM IdSafe == Spec => ConsoleIdStays
<1> QED
  BY IdStep, PTL DEF Spec, ConsoleIdStays
=============================================================================
